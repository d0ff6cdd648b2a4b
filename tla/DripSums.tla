------------------------------ MODULE DripSums ------------------------------
(***************************************************************************)
(* The sum of an integer function over 1 .. n.  The vault never computes   *)
(* one: its drip_amount and the periods' dar are maintained incrementally, *)
(* and the sums over the positions say what they must be equal to.         *)
(*                                                                         *)
(* A recursive function and not a fold of the community modules, because   *)
(* DripSumsProofs proves facts about it.                                   *)
(***************************************************************************)
EXTENDS Integers

PartialSums(f, n) ==
    LET s[k \in 0 .. n] == IF k = 0 THEN 0 ELSE s[k - 1] + f[k]
    IN  s

SumTo(f, n) == PartialSums(f, n)[n]
=============================================================================
