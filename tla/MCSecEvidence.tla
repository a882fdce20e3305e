---------------------------- MODULE MCSecEvidence ----------------------------
(* A small instance of SecEvidence: two interchangeable threads.            *)
EXTENDS SecEvidence, TLC

CONSTANTS t1, t2

Interchangeable == Permutations(Threads)
=============================================================================
