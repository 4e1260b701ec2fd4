------------------------------ MODULE MCTrackers ------------------------------
(***************************************************************************)
(* Trackers for TLC: two series, one with two numbers and one with one,    *)
(* and two pushes at once.                                                 *)
(***************************************************************************)
EXTENDS Trackers, TLC

CONSTANTS Long, Short

MCTop == [s \in Series |-> IF s = Long THEN 2 ELSE 1]

AnyPush == Permutations(Pushes)
=============================================================================
