-------------------------- MODULE MCLockStatHistory --------------------------
(* LockStatHistory with bounds for TLC. *)
EXTENDS LockStatHistory

MCGaps == {1, 2}
=============================================================================
