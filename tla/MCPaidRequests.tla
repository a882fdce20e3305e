---------------------------- MODULE MCPaidRequests ---------------------------
(* Small instances of PaidRequests: a prepared route of price 2, a procured *)
(* and a composed one of price 1, so that a cap of 3 admits every pair of   *)
(* calls but two of the dearer route.                                       *)
EXTENDS PaidRequests, TLC

CONSTANTS snapshot, python, dossier, c1, c2, p1, p2

MCKind == [r \in Requests |-> IF r = snapshot THEN "prepared"
                              ELSE IF r = python THEN "procured" ELSE "composed"]
MCPrice == [r \in Requests |-> IF r = snapshot THEN 2 ELSE 1]

Symmetry == Permutations(Calls) \cup Permutations(Payments)
=============================================================================
