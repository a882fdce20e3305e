--------------------------- MODULE FundingDossier ---------------------------
(***************************************************************************)
(* suppliers.py: the funded-company dossier, which buys one search from one*)
(* supplier for each customer payment, under a daily cap and a ledger of   *)
(* its own.  Calls of build take turns under an asyncio lock; each         *)
(* transaction, the load of the official source and the search are steps.  *)
(*   The request of a call plays no part: a payment that was ever reserved *)
(* is refused, whatever is asked for.                                      *)
(***************************************************************************)
EXTENDS Naturals, FiniteSets, LedgerSum

CONSTANTS
    Payments,      \* inbound payment proofs
    Tasks,         \* calls of build
    Cost,          \* the one cent a search is booked at
    Prices,        \* the prices the supplier may ask
    DailyCap,      \* daily_cap_usd
    MaxDay,        \* bound: UTC days modelled
    MaxRestarts    \* bound: restarts modelled

NoTask == "unlocked"

ASSUME ConstantsAssumption ==
    /\ IsFiniteSet(Payments) /\ NoTask \notin Tasks
    /\ Cost \in Nat \ {0} /\ Prices \subseteq Nat \ {0} /\ DailyCap \in Nat
    /\ MaxDay \in Nat /\ MaxRestarts \in Nat

VARIABLES
    purchases,   \* supplier_purchases, by inbound payment
    tasks,       \* local variables of each call
    lock,        \* the asyncio lock: its holder or NoTask
    signed,      \* external: the payment the supplier was sent, 0 for none
    day,
    restarts

vars == <<purchases, tasks, lock, signed, day, restarts>>

Counted == {"RESERVED", "FULFILLED", "UNKNOWN"}
NoPurchase == [status |-> "ABSENT", day |-> 0]
IdleTask == [pc |-> "idle"]

Init ==
    /\ purchases = [p \in Payments |-> NoPurchase]
    /\ tasks = [t \in Tasks |-> IdleTask]
    /\ lock = NoTask
    /\ signed = [p \in Payments |-> 0]
    /\ day = 1
    /\ restarts = 0

-----------------------------------------------------------------------------
(* Helpers *)

At(t, pc) == tasks[t].pc = pc
Payment(t) == tasks[t].payment
Go(t, pc) == tasks' = [tasks EXCEPT ![t].pc = pc]

\* What a counted row is booked at, whatever the supplier asked.
Amounts == [p \in Payments |-> IF purchases[p].status \in Counted THEN Cost ELSE 0]

\* Leaving "async with self.lock" with an answer and the cost it reports.
LeaveLocked(t, reply, cost) ==                                        \* mutant
    tasks' = [tasks EXCEPT ![t].pc = "done", ![t].reply = reply, ![t].cost = cost]
    /\ UNCHANGED lock
Leave(t, reply, cost) ==
    /\ tasks' = [tasks EXCEPT ![t].pc = "done", ![t].reply = reply, ![t].cost = cost]
    /\ lock' = NoTask

\* The row is to be closed with status; then the call ends.
Close(t, status, reply, cost) ==
    tasks' = [tasks EXCEPT ![t].pc = "record", ![t].status = status,
                           ![t].reply = reply, ![t].cost = cost]

\* EvidenceError, a DossierSupplierError without or with a direct cost, and
\* any other exception after the supplier was attempted.
FailUnpaid(t) == Close(t, "FAILED_PRE_PAYMENT", "failed", 0)
FailPaid(t) == Close(t, "UNKNOWN", "failed", Cost)

UnexpectedCounted(t) == Close(t, "FAILED_PRE_PAYMENT", "failed", Cost)    \* mutant
UnexpectedFree(t) == Close(t, "UNKNOWN", "failed", 0)                     \* mutant
Unexpected(t) == Close(t, "UNKNOWN", "failed", Cost)

-----------------------------------------------------------------------------
(* Steps of a call *)

Call(t, p) ==
    /\ tasks[t] = IdleTask
    /\ tasks' = [tasks EXCEPT ![t] = [pc |-> "waiting", payment |-> p, status |-> "none",
                                      reply |-> "none", cost |-> 0]]
    /\ UNCHANGED <<purchases, lock, signed, day, restarts>>

UnusedOrClosed(t) == purchases[Payment(t)].status # "RESERVED"        \* mutant
Unused(t) == purchases[Payment(t)] = NoPurchase
FitsCap == Total(Amounts, {p \in Payments : purchases[p].day >= day}) + Cost <= DailyCap

\* The lock and _reserve, one immediate transaction: 409, 503, or a row.
Reserve(t) ==
    /\ At(t, "waiting") /\ lock = NoTask
    /\ IF Unused(t) /\ FitsCap
       THEN /\ purchases' = [purchases EXCEPT ![Payment(t)] = [status |-> "RESERVED", day |-> day]]
            /\ Go(t, "source") /\ lock' = t
       ELSE /\ Leave(t, "refused", 0)
            /\ UNCHANGED purchases
    /\ UNCHANGED <<signed, day, restarts>>

\* The official filing is loaded and names its issuer, or it does not.
LoadSource(t) ==
    /\ At(t, "source")
    /\ Go(t, "search") \/ FailUnpaid(t)
    /\ UNCHANGED <<purchases, lock, signed, day, restarts>>

\* _select_payment_requirement accepts no more than SUPPLIER_MAX_AMOUNT_ATOMIC.
AcceptableAnyway(price) == price \in Prices                           \* mutant
Acceptable(price) == price <= Cost
Sign(t) == \E price \in Prices :
    Acceptable(price) /\ signed' = [signed EXCEPT ![Payment(t)] = price]

\* _search, with a payment signed in it or not: a results array; an answer that
\* is too large, bad or unreadable; a time-out or another exception; or terms that
\* the selector refuses, which is the one failure that cannot follow a payment.
\* (The supplier may take a payment it was sent at any later time.)
Search(t) ==
    /\ At(t, "search")
    /\ \/ (Sign(t) \/ UNCHANGED signed) /\ (Go(t, "prepare") \/ FailPaid(t) \/ Unexpected(t))
       \/ UNCHANGED signed /\ FailUnpaid(t)
    /\ UNCHANGED <<purchases, lock, day, restarts>>

\* prepare_form_d_company_dossier stores the result, or raises.
Prepare(t) ==
    /\ At(t, "prepare")
    /\ Close(t, "FULFILLED", "prepared", Cost) \/ Unexpected(t)
    /\ UNCHANGED <<purchases, lock, signed, day, restarts>>

\* _complete, and the answer.  (The UPDATE leaves amount and reserved_at alone.)
Complete(t) ==
    /\ At(t, "record")
    /\ purchases' = [purchases EXCEPT ![Payment(t)].status = tasks[t].status]
    /\ Leave(t, tasks[t].reply, tasks[t].cost)
    /\ UNCHANGED <<signed, day, restarts>>

\* It fails.  A row that was to be FULFILLED is tried again as UNKNOWN by the
\* catch-all handler; any other error leaves the row RESERVED.
CompleteFails(t) ==
    /\ At(t, "record")
    /\ IF tasks[t].status = "FULFILLED" THEN Unexpected(t) /\ UNCHANGED lock
       ELSE Leave(t, "error", 0)
    /\ UNCHANGED <<purchases, signed, day, restarts>>

-----------------------------------------------------------------------------
(* The environment *)

\* _reserve fails: nothing is written.
ReserveFails(t) ==
    /\ At(t, "waiting") /\ lock = NoTask
    /\ Leave(t, "error", 0)
    /\ UNCHANGED <<purchases, signed, day, restarts>>

Midnight ==
    /\ day < MaxDay
    /\ day' = day + 1
    /\ UNCHANGED <<purchases, tasks, lock, signed, restarts>>

\* The process restarts, perhaps after a search had signed its payment.
Restart ==
    /\ restarts < MaxRestarts
    /\ restarts' = restarts + 1
    /\ UNCHANGED signed \/ \E t \in Tasks : At(t, "search") /\ Sign(t)
    /\ tasks' = [t \in Tasks |->
           IF tasks[t].pc \in {"idle", "done"} THEN tasks[t]
           ELSE [tasks[t] EXCEPT !.pc = "done", !.reply = "lost", !.cost = 0]]
    /\ lock' = NoTask
    /\ UNCHANGED <<purchases, day>>

Step(t) ==
    \/ Reserve(t) \/ ReserveFails(t) \/ LoadSource(t) \/ Search(t) \/ Prepare(t)
    \/ Complete(t) \/ CompleteFails(t)

Next ==
    \/ \E t \in Tasks, p \in Payments : Call(t, p)
    \/ \E t \in Tasks : Step(t)
    \/ Midnight \/ Restart

Spec == Init /\ [][Next]_vars

-----------------------------------------------------------------------------
(* Properties *)

Task == [pc : {"waiting", "source", "search", "prepare", "record", "done"},
         payment : Payments, status : {"none", "FAILED_PRE_PAYMENT"} \cup Counted,
         reply : {"none", "refused", "prepared", "failed", "error", "lost"}, cost : {0, Cost}]

Running(t) == tasks[t].pc \notin {"idle", "waiting", "done"}

\* Types; the lock is held by the one call that is past its reservation.
TypeOK ==
    /\ purchases \in [Payments -> [status : {"ABSENT", "FAILED_PRE_PAYMENT"} \cup Counted,
                                   day : Nat]]
    /\ tasks \in [Tasks -> {IdleTask} \cup Task]
    /\ lock \in Tasks \cup {NoTask}
    /\ \A t \in Tasks : (lock = t) <=> Running(t)
    /\ signed \in [Payments -> Nat]
    /\ day \in Nat /\ restarts \in Nat

\* autonomous_data_api/README.md: "at most one capped supplier purchase", and
\* "any uncertain supplier spend remains counted against the daily supplier
\* cap".  The ledger implements the budget of SupplierBudget.
Budget == INSTANCE SupplierBudget WITH
    Purchases <- Payments,
    Maximum <- [p \in Payments |-> Cost],
    Cap <- DailyCap,
    held <- [p \in Payments |-> [amount |-> Amounts[p], day |-> purchases[p].day,
                                 open |-> purchases[p].status = "RESERVED"]],
    signed <- signed,
    today <- day
WithinBudget == Budget!Spec

\* What the supplier was authorised to take, then or later, for the searches booked
\* under one UTC day stays within daily_cap_usd: _reserve checks what is booked, the
\* selector what is asked, and no error path of build frees what may have been spent.
SpendCapped ==
    \A d \in 1..MaxDay : Total(signed, {p \in Payments : purchases[p].day = d}) <= DailyCap

\* The direct cost an answer reports to the evidence ledger is what the supplier
\* ledger holds for its payment: build chooses the one, its except clauses the
\* other.
CostReported ==
    \A t \in Tasks : At(t, "done") /\ tasks[t].reply \in {"prepared", "failed"} =>
        /\ purchases[Payment(t)].status # "RESERVED"
        /\ tasks[t].cost = Amounts[Payment(t)]

\* One payment obtains one dossier, and only with a FULFILLED purchase.
DossierOnce ==
    \A t \in Tasks : At(t, "done") /\ tasks[t].reply = "prepared" =>
        /\ purchases[Payment(t)].status = "FULFILLED"
        /\ \A u \in Tasks \ {t} : At(u, "done") /\ tasks[u].reply = "prepared"
                                     => Payment(u) # Payment(t)

=============================================================================
