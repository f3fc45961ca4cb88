SPECIFICATION Spec
CONSTANTS
    Children = {c1}
    Webs = {w1}
    Settings <- MCSwitches
    MaxCount = 4
    Rounded <- MCRounded
    FreqLoses = 2
    Clipped <- MCClipped
    Serial = FALSE
    MaxCalls = 2
    MaxRestarts = 0
INVARIANT
    SettingsStick
