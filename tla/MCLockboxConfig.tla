--------------------------- MODULE MCLockboxConfig ---------------------------
(* LockboxConfig with bounds for TLC: settings of every kind. *)
EXTENDS LockboxConfig

MCSettings ==
    { <<"ki", 0>>, <<"hold", 0>>, <<"enabled", 0>>, <<"enabled", 1>>,
      <<"limit_min", 0>>, <<"gen_enabled", 0>>, <<"gen_freq", 0>>,
      <<"gen_waveform", 0>> }

(* A gain comes back one count higher or lower, a bound one lower.  A count*)
(* of a frequency is 1 Hz above 2^25 Hz, where floats are 4 Hz apart.      *)
MCRounded ==
    [k \in Gains \cup Bounds \cup {"gen_freq"} |->
       [n \in 0 .. MaxCount |->
          CASE k \in Gains -> IF n = 1 THEN 2 ELSE IF n = 4 THEN 3 ELSE n
            [] k \in Bounds -> IF n = 2 THEN 1 ELSE n
            [] OTHER -> IF n > 2 THEN 4 ELSE 0]]

MCClipped == [limit_min |-> 1, limit_max |-> 0]

(* Two switches of one word. *)
MCSwitches == { <<"hold", 0>>, <<"enabled", 1>> }
=============================================================================
