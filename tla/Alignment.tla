------------------------------ MODULE Alignment ------------------------------
(***************************************************************************)
(* Rounding and shifting of sizes (include/gpc/utils.h): gp_round_to_      *)
(* aligned, on which every arena rests, and the powers of two that arrays  *)
(* and hash maps are allocated by. For a power of two, masking with        *)
(* boundary - 1 is the remainder.                                          *)
(***************************************************************************)
EXTENDS Integers

RoundToAligned(x, boundary) == x + (boundary - 1) - ((x - 1) % boundary)

\* 1 << n, of an integer wide enough
PowerOfTwo[n \in Nat] == IF n = 0 THEN 1 ELSE 2 * PowerOfTwo[n - 1]

==============================================================================
