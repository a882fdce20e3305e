-------------------------- MODULE MCFundingDossier --------------------------
(* A small instance of FundingDossier: three calls, and a cap of two        *)
(* searches; one price is below, one above the maximum.                     *)
EXTENDS FundingDossier, TLC

CONSTANTS p1, p2, p3, t1, t2, t3

Symmetry == Permutations(Payments) \cup Permutations(Tasks)
=============================================================================
