----------------------------- MODULE LedgerSum -----------------------------
(***************************************************************************)
(* The SUM(amount) of the repository's SQL ledgers.  Money is counted in   *)
(* atomic units, so the sum over a set of rows is the number of units the  *)
(* rows hold: one element per row and unit.  Stating it as a cardinality   *)
(* keeps it provable for every ledger (LedgerSum_proofs).                  *)
(***************************************************************************)
EXTENDS Naturals, FiniteSets

Units(amount, K) == UNION {{k} \X (1..amount[k]) : k \in K}

\* COALESCE(SUM(amount), 0) over the rows K of a ledger.
Total(amount, K) == Cardinality(Units(amount, K))

=============================================================================
