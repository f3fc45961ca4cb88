--------------------------------- MODULE Words ---------------------------------
(***************************************************************************)
(* The two's complement words of the gateware.  A word is given by half the*)
(* number of its values, 2^(bits - 1).                                     *)
(***************************************************************************)
EXTENDS Integers

(* The values of a signed register with half values on each side of 0.     *)
Register(half) == -half .. half - 1

(* x in such a register: the bits beyond its width are lost.               *)
Signed(x, half) ==
    IF x \in Register(half) THEN x ELSE ((x + half) % (2 * half)) - half

(* x, or the end of such a register it lies beyond.                        *)
Clamped(x, half) ==
    IF x >= half THEN half - 1 ELSE IF x < -half THEN -half ELSE x
=============================================================================
