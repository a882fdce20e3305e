--------------------------- MODULE SupplierBudget ---------------------------
(***************************************************************************)
(* What a supplier ledger promises, whatever it buys and however it is     *)
(* used: a purchase is set aside at its maximum price before a supplier is *)
(* asked, only while it is set aside can a payment be signed, it is settled*)
(* at no less than was signed, and what one UTC day holds stays within the *)
(* cap.  A signed payment may be taken at any later time.                  *)
(* ProcurementBroker and FundingDossier implement it.                      *)
(***************************************************************************)
EXTENDS Naturals, FiniteSets, LedgerSum

CONSTANTS
    Purchases,   \* what may be bought, each once
    Maximum,     \* Maximum[k] is the most purchase k may cost
    Cap          \* what may be held under one day

VARIABLES
    held,        \* for each purchase, the amount held, since when, and if it is open
    signed,      \* the payment signed for it, 0 for none
    today

vars == <<held, signed, today>>

Nothing == [amount |-> 0, day |-> 0, open |-> FALSE]
HeldOn(d) == Total([k \in Purchases |-> held[k].amount], {k \in Purchases : held[k].day = d})

Init ==
    /\ held = [k \in Purchases |-> Nothing]
    /\ signed = [k \in Purchases |-> 0]
    /\ today = 1

\* Purchase k, never held before, is set aside at its maximum.
Hold(k) ==
    /\ held[k] = Nothing
    /\ HeldOn(today) + Maximum[k] <= Cap
    /\ held' = [held EXCEPT ![k] = [amount |-> Maximum[k], day |-> today, open |-> TRUE]]
    /\ UNCHANGED <<signed, today>>

\* A payment for its price is signed, once, while the purchase is open.
Sign(k) ==
    /\ held[k].open /\ signed[k] = 0
    /\ \E price \in 1..held[k].amount : signed' = [signed EXCEPT ![k] = price]
    /\ UNCHANGED <<held, today>>

\* The purchase is settled: what was signed stays held.
Settle(k) ==
    /\ held[k].open
    /\ \E amount \in signed[k]..held[k].amount :
           held' = [held EXCEPT ![k].amount = amount, ![k].open = FALSE]
    /\ UNCHANGED <<signed, today>>

NextDay == today' = today + 1 /\ UNCHANGED <<held, signed>>

Next == NextDay \/ \E k \in Purchases : Hold(k) \/ Sign(k) \/ Settle(k)

Spec == Init /\ [][Next]_vars

=============================================================================
