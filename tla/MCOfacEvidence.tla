--------------------------- MODULE MCOfacEvidence ---------------------------
(* Small instances of OfacEvidence: a subject that is on the first version  *)
(* of a list only, asked about in the preflight's own words or in others.   *)
EXTENDS OfacEvidence

CONSTANTS sdn, consolidated, delisted, canonical, mixedCase, r1, r2

MCListed == [l \in Lists |-> [v \in Versions |-> IF v = 1 THEN {delisted} ELSE {}]]
MCSubject == [q \in Questions |-> delisted]
MCNames == [q \in Questions |-> Lists]
=============================================================================
