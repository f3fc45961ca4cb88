------------------------------- MODULE MCPidLoop -------------------------------
EXTENDS PidLoop

(* The clock runs, also when an edge changes no register: idle tells every *)
(* other one of such edges from the rest, so that it is a step too.        *)
VARIABLE idle

ClockedInit == LoopInit /\ idle = FALSE

Edge == LoopNext /\ idle' = (loopVars' = loopVars /\ ~idle)

ClockedSpec ==
    /\ ClockedInit
    /\ [][Edge]_<<loopVars, idle>>
    /\ WF_<<loopVars, idle>>(Edge)

Gains(kp, ki, kd, kii, kg, inverted) ==
    [sp |-> 0, kp |-> kp, ki |-> ki, kd |-> kd, kii |-> kii, kg |-> kg,
     inverted |-> inverted]

(* An integrator at a global gain of one. *)
Integrating == {Gains(0, 1, 0, 0, PSHIFT, FALSE)}

(* The integrator alone, and with the proportional and the differential    *)
(* term.                                                                   *)
Tuned == Integrating \cup {Gains(3, 1, 2, 0, PSHIFT, FALSE)}

Errors == {-1, 1}

(* The switches of a controller that is reset: relock, automatic reset and *)
(* external reset on or off.                                               *)
Control(on, auto, ext, min, max) ==
    [on |-> on, rst |-> TRUE, auto |-> auto, hold |-> FALSE, out |-> TRUE,
     ext |-> ext, step |-> 1, min |-> min, max |-> max]

(* The lock is engaged. *)
Engaging(prepared) == {<<c, [c EXCEPT !.rst = FALSE]>> : c \in prepared}

Ends(rewrites) == UNION {{r[1], r[2]} : r \in rewrites}

(* A loop at its rails; one that searches for the resonance; one with the  *)
(* limits of the test bench, 0 and 4000, to scale; one with limits below   *)
(* zero that searches.                                                     *)
AtRails == {Control(FALSE, FALSE, FALSE, -1, 2), Control(FALSE, TRUE, FALSE, -1, 2)}
InSearch == {Control(TRUE, TRUE, TRUE, -2, 2)}
OffCenter == {Control(FALSE, TRUE, FALSE, 0, 2)}
BelowZero == {Control(TRUE, FALSE, FALSE, -3, -1)}

Several == (Tuned \X AtRails) \cup (Integrating \X InSearch)
OneOffCenter == Integrating \X OffCenter
OneBelowZero == Integrating \X BelowZero

EngageSeveral == Engaging(AtRails \cup InSearch)
EngageOffCenter == Engaging(OffCenter)
EngageBelowZero == Engaging(BelowZero)

SeveralControls == Ends(EngageSeveral)
OffCenterControls == Ends(EngageOffCenter)
BelowZeroControls == Ends(EngageBelowZero)

LowCenters == {0, -1}
BelowZeroCenter == {-2}

(* What the theorems about the loop ask for holds in these instances.      *)
ASSUME RoomInTheLoops == Loops = Several => WindupRoom /\ SweepHasRoom
=============================================================================
