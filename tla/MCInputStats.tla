---------------------------- MODULE MCInputStats ----------------------------
(* InputStats with a decimation that needs two buffers for a window and    *)
(* one that needs one, as 1024 (eight) and 8192 (one) do.                  *)
EXTENDS InputStats

MCBuffersPerWindow == [d \in Decs |-> IF d = Default THEN 2 ELSE 1]
=============================================================================
