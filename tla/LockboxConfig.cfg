SPECIFICATION Spec
CONSTANTS
    Children = {c1}
    Webs = {w1}
    Settings <- MCSettings
    MaxCount = 4
    Rounded <- MCRounded
    FreqLoses = 2
    Clipped <- MCClipped
    Serial = TRUE
    MaxCalls = 3
    MaxRestarts = 2
INVARIANTS
    SettingsStick
PROPERTIES
    RestoresTheSave
    LoadOfSameIsQuiet
    GainsBeforeEnable
    ServerComesUp
