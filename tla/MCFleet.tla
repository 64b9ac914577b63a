------------------------------- MODULE MCFleet -------------------------------
(* Fleet with two interchangeable targets; symmetry is used for safety only. *)
EXTENDS Fleet, TLC

CONSTANTS t1, t2

TwoTargets == {t1, t2}
Symmetry == Permutations(TwoTargets)
=============================================================================
