------------------------- MODULE ProcurementBroker -------------------------
(***************************************************************************)
(* procurement.py: the broker that turns one verified customer payment     *)
(* into a fixed plan of supplier purchases.  A call of build (product      *)
(* "profile") or build_python_run (product "python") is a task; tasks take *)
(* the broker's asyncio lock in FIFO order, and every database transaction *)
(* and every supplier call is a step of its own, so that midnight, a       *)
(* failed transaction or a restart of the process can fall between any two.*)
(***************************************************************************)
EXTENDS Naturals, Sequences, FiniteSets, LedgerSum

CONSTANTS
    Payments,      \* inbound payment proofs (their SHA-256 in the code)
    Requests,      \* validated customer requests (their canonical hash)
    Product,       \* Product[r] is the route that serves r
    Tasks,         \* calls of the broker
    MaxAmount,     \* SupplierSpec.max_amount_atomic
    Quotes,        \* the prices a supplier may ask
    DailyCap,      \* daily_cap_atomic
    MaxDay,        \* bound: number of UTC days modelled
    MaxCharges,    \* bound: number of signed payments taken
    MaxRestarts    \* bound: number of process restarts modelled

Suppliers == {"tavily", "blockrun", "create", "exec", "terminate"}

ASSUME ConstantsAssumption ==
    /\ IsFiniteSet(Payments)
    /\ Product \in [Requests -> {"profile", "python"}]
    /\ MaxAmount \in [Suppliers -> Nat \ {0}]
    /\ Quotes \subseteq Nat \ {0}
    /\ DailyCap \in Nat
    /\ MaxDay \in Nat /\ MaxCharges \in Nat /\ MaxRestarts \in Nat

\* The suppliers a product buys from, in the order of build and
\* build_python_run, and those it cannot do without.
Plan(product) == IF product = "profile" THEN <<"tavily", "blockrun">>
                 ELSE <<"create", "exec", "terminate">>

LastStage(r) == Len(Plan(Product[r]))

Opening == {"tavily", "create"}             \* their failure ends the run at once
Required == {"tavily", "create", "exec"}    \* their failure fails the request

VARIABLES
    requests,   \* procurement_requests, by inbound payment
    purchases,  \* procurement_supplier_purchases, by payment and supplier
    tasks,      \* local variables of each call
    queue,      \* the asyncio lock: its holder, then its waiters
    signed,     \* external: the authorisation each supplier was sent, 0 for none
    charged,    \* external: the day on which it took that money, 0 for not yet
    day,        \* the UTC day
    restarts

vars == <<requests, purchases, tasks, queue, signed, charged, day, restarts>>

Keys == Payments \X Suppliers
CertainOnly == {"RESERVED", "FULFILLED"}                              \* mutant
Counted == {"RESERVED", "FULFILLED", "UNKNOWN"}
Terminal == {"COMPLETED", "FAILED", "UNKNOWN"}
NoRequest == [status |-> "ABSENT"]
NoPurchase == [status |-> "ABSENT", amount |-> 0, day |-> 0]
IdleTask == [pc |-> "idle"]

\* amount_atomic of every row, and the rows a status and a day select.
Amounts == [k \in Keys |-> purchases[k].amount]
CountedOn(d) == {k \in Keys : purchases[k].status \in Counted /\ purchases[k].day = d}
CountedSince(d) == {k \in Keys : purchases[k].status \in Counted /\ purchases[k].day >= d}
RowsOf(p) == {k \in Keys : k[1] = p}

Init ==
    /\ requests = [p \in Payments |-> NoRequest]
    /\ purchases = [k \in Keys |-> NoPurchase]
    /\ tasks = [t \in Tasks |-> IdleTask]
    /\ queue = <<>>
    /\ signed = [k \in Keys |-> 0]
    /\ charged = [k \in Keys |-> 0]
    /\ day = 1
    /\ restarts = 0

-----------------------------------------------------------------------------
(* Helpers: the control flow of one call *)

Holds(t) == queue # <<>> /\ Head(queue) = t
At(t, pc) == tasks[t].pc = pc /\ Holds(t)
Supplier(t) == Plan(Product[tasks[t].request])[tasks[t].stage]
Key(t) == <<tasks[t].payment, Supplier(t)>>

\* The local variables of a call for request r paid by p.
Locals(p, r, pc, reply) ==
    [pc |-> pc, payment |-> p, request |-> r, stage |-> 1, lost |-> FALSE, cost |-> 0,
     outcome |-> "none", price |-> 0, reply |-> reply]

Ended(t, reply) == Locals(tasks[t].payment, tasks[t].request, "done", reply)

\* Leaving "async with self.lock", by return or by exception.
Leave(t, reply) ==
    /\ tasks' = [tasks EXCEPT ![t] = Ended(t, reply)]
    /\ queue' = Tail(queue)

\* The plan ends with its last stage, or at once if an opening supplier is lost.
PlanOverLate(t, outcome) ==                                           \* mutant
    Supplier(t) \in Opening /\ outcome # "FULFILLED"
PlanOverLast(t, outcome) ==                                           \* mutant
    tasks[t].stage = LastStage(tasks[t].request)
PlanOver(t, outcome) ==
    \/ Supplier(t) \in Opening /\ outcome # "FULFILLED"
    \/ tasks[t].stage = LastStage(tasks[t].request)

\* total_cost adds what every attempt reports, fulfilled or not.
CostOfFulfilled(outcome, amount) == IF outcome = "FULFILLED" THEN amount ELSE 0   \* mutant
CostOf(outcome, amount) == amount

\* What follows a supplier attempt that ended in outcome and amount.
AfterAttempt(t, outcome, amount) ==
    LET lost == tasks[t].lost \/ (Supplier(t) \in Required /\ outcome # "FULFILLED")
        over == PlanOver(t, outcome)
    IN tasks' = [tasks EXCEPT ![t] =
           [pc |-> IF ~over THEN "reserve" ELSE IF lost THEN "fail" ELSE "prepare",
            payment |-> tasks[t].payment, request |-> tasks[t].request,
            stage |-> IF over THEN tasks[t].stage ELSE tasks[t].stage + 1,
            lost |-> lost, cost |-> tasks[t].cost + CostOf(outcome, amount),
            outcome |-> "none", price |-> 0, reply |-> "none"]]

-----------------------------------------------------------------------------
(* Steps of a call *)

\* A request reaches build or build_python_run and queues for the lock.
Call(t, p, r) ==
    /\ tasks[t] = IdleTask
    /\ tasks' = [tasks EXCEPT ![t] = Locals(p, r, "begin", "none")]
    /\ queue' = Append(queue, t)
    /\ UNCHANGED <<requests, purchases, signed, charged, day, restarts>>

\* What _begin_or_replay reads of the row of a payment.
ResumableClaim(t) ==                                                  \* mutant
    requests[tasks[t].payment].status \in {"ABSENT", "IN_PROGRESS"}
Claimable(t) == requests[tasks[t].payment].status = "ABSENT"

ReplayableForAny(t) == requests[tasks[t].payment].status = "COMPLETED"   \* mutant
Replayable(t) ==
    /\ requests[tasks[t].payment].status = "COMPLETED"
    /\ requests[tasks[t].payment].request = tasks[t].request

\* _begin_or_replay: one immediate transaction that either claims the payment
\* or answers from the row that already claimed it.
Begin(t) ==
    /\ At(t, "begin")
    /\ \/ /\ Claimable(t)
          /\ requests' = [requests EXCEPT ![tasks[t].payment] =
                 [status |-> "IN_PROGRESS", request |-> tasks[t].request, cost |-> 0]]
          /\ tasks' = [tasks EXCEPT ![t].pc = "reserve"]
          /\ UNCHANGED queue
       \/ Replayable(t) /\ Leave(t, "replay") /\ UNCHANGED requests
       \/ ~Claimable(t) /\ ~Replayable(t) /\ Leave(t, "conflict") /\ UNCHANGED requests
    /\ UNCHANGED <<purchases, signed, charged, day, restarts>>

\* The check of the daily cap: room for the supplier's maximum price.
FitsCapNow(s) == Total(Amounts, CountedSince(day)) < DailyCap             \* mutant
FitsCap(s) == Total(Amounts, CountedSince(day)) + MaxAmount[s] <= DailyCap

\* _reserve_supplier: the cap is checked and the maximum price set aside in one
\* immediate transaction.  A denied attempt leaves no row.
Reserve(t) ==
    /\ At(t, "reserve")
    /\ \/ /\ FitsCap(Supplier(t)) /\ purchases[Key(t)].status = "ABSENT"
          /\ purchases' = [purchases EXCEPT ![Key(t)] =
                 [status |-> "RESERVED", amount |-> MaxAmount[Supplier(t)], day |-> day]]
          /\ tasks' = [tasks EXCEPT ![t].pc = "call"]
       \/ /\ ~(FitsCap(Supplier(t)) /\ purchases[Key(t)].status = "ABSENT")
          /\ AfterAttempt(t, "FAILED_PRE_PAYMENT", 0)
          /\ UNCHANGED purchases
    /\ UNCHANGED <<requests, queue, signed, charged, day, restarts>>

\* _select_payment_requirement accepts no price above the supplier's maximum.
Acceptable(s, quote) == quote <= MaxAmount[s]

\* The supplier asked for an acceptable price and is sent a payment signed for
\* it, which it may take at any later time, whatever becomes of the call.
Sign(t) ==
    \E quote \in Quotes :
        /\ At(t, "call")
        /\ Acceptable(Supplier(t), quote)
        /\ signed' = [signed EXCEPT ![Key(t)] = quote]
        /\ tasks' = [tasks EXCEPT ![t].pc = "paid", ![t].price = quote]
        /\ UNCHANGED <<requests, purchases, queue, charged, day, restarts>>

\* The end of operation(): the outcome and the amount that _attempt_supplier
\* will record.
EndCall(t, outcome, price) ==
    /\ tasks' = [tasks EXCEPT ![t].pc = "record", ![t].outcome = outcome, ![t].price = price]
    /\ UNCHANGED <<requests, purchases, queue, signed, charged, day, restarts>>

\* After the payment was signed.  Good answer: FULFILLED.  Bad answer, the
\* 60 second timeout, unreadable body: UNKNOWN.  Both at the price signed.
UnknownIsFree(t) ==                                                   \* mutant
    /\ At(t, "paid")
    /\ EndCall(t, "FULFILLED", tasks[t].price) \/ EndCall(t, "UNKNOWN", 0)
PaidCall(t) ==
    /\ At(t, "paid")
    /\ \E outcome \in {"FULFILLED", "UNKNOWN"} : EndCall(t, outcome, tasks[t].price)

\* No payment was signed: the supplier answered without asking for one, was
\* unreachable, answered badly, or asked for terms the selector refuses.
UnpaidCall(t) ==
    /\ At(t, "call")
    /\ \E outcome \in {"FULFILLED", "FAILED_PRE_PAYMENT"} : EndCall(t, outcome, 0)

\* An exception that carries no amount: the whole reservation is kept.
BrokenCall(t) ==
    /\ At(t, "call") \/ At(t, "paid")
    /\ EndCall(t, "UNKNOWN", MaxAmount[Supplier(t)])

\* _complete_supplier: the reservation becomes the outcome and its amount.
\* (The UPDATE leaves reserved_at alone.)
Complete(t) ==
    /\ At(t, "record")
    /\ purchases' = [purchases EXCEPT ![Key(t)].status = tasks[t].outcome,
                                      ![Key(t)].amount = tasks[t].price]
    /\ AfterAttempt(t, tasks[t].outcome, tasks[t].price)
    /\ UNCHANGED <<requests, queue, signed, charged, day, restarts>>

\* The UPDATE to FULFILLED fails: the catch-all handler records UNKNOWN at the
\* maximum price instead.
CompleteAsUnknown(t) ==
    /\ At(t, "record") /\ tasks[t].outcome = "FULFILLED"
    /\ purchases' = [purchases EXCEPT ![Key(t)].status = "UNKNOWN",
                                      ![Key(t)].amount = MaxAmount[Supplier(t)]]
    /\ AfterAttempt(t, "UNKNOWN", MaxAmount[Supplier(t)])
    /\ UNCHANGED <<requests, queue, signed, charged, day, restarts>>

\* The only writer of a started request: WHERE status = 'IN_PROGRESS'.
CloseRequest(t, status) ==
    requests' = [requests EXCEPT ![tasks[t].payment] =
        IF @.status = "IN_PROGRESS"
        THEN [status |-> status, request |-> @.request, cost |-> tasks[t].cost]
        ELSE @]

FailRequestUnreleased(t) ==                                           \* mutant
    /\ At(t, "fail")
    /\ CloseRequest(t, "FAILED")
    /\ tasks' = [tasks EXCEPT ![t] = Ended(t, "failed")]
    /\ UNCHANGED <<purchases, queue, signed, charged, day, restarts>>

\* _fail_request after a lost required supplier, then the 502.
FailRequest(t) ==
    /\ At(t, "fail")
    /\ CloseRequest(t, "FAILED")
    /\ Leave(t, "failed")
    /\ UNCHANGED <<purchases, signed, charged, day, restarts>>

\* evidence_service.prepare_..._procurement stores the result, or raises.
Prepare(t) ==
    /\ At(t, "prepare")
    /\ \E pc \in {"finish", "unprepared"} : tasks' = [tasks EXCEPT ![t].pc = pc]
    /\ UNCHANGED <<requests, purchases, queue, signed, charged, day, restarts>>

FailPreparation(t) ==
    /\ At(t, "unprepared")
    /\ CloseRequest(t, "UNKNOWN")
    /\ Leave(t, "failed")
    /\ UNCHANGED <<purchases, signed, charged, day, restarts>>

\* _finish_request, then the result is returned to the handler.
FinishRequest(t) ==
    /\ At(t, "finish")
    /\ CloseRequest(t, "COMPLETED")
    /\ Leave(t, "prepared")
    /\ UNCHANGED <<purchases, signed, charged, day, restarts>>

\* A transaction raises a database error: nothing is written, the exception
\* leaves the lock and the call, and the rows stay as they are.
DatabaseError(t) ==
    /\ \E pc \in {"begin", "reserve", "record", "fail", "unprepared", "finish"} : At(t, pc)
    /\ Leave(t, "error")
    /\ UNCHANGED <<requests, purchases, signed, charged, day, restarts>>

-----------------------------------------------------------------------------
(* The environment *)

Midnight ==
    /\ day < MaxDay
    /\ day' = day + 1
    /\ UNCHANGED <<requests, purchases, tasks, queue, signed, charged, restarts>>

\* A supplier takes the money it was authorised to take, once: while the call
\* waits for it, long after the call was closed as UNKNOWN, or after a restart.
Charge(k) ==
    /\ signed[k] > 0 /\ charged[k] = 0
    /\ Cardinality({j \in Keys : charged[j] > 0}) < MaxCharges
    /\ charged' = [charged EXCEPT ![k] = day]
    /\ UNCHANGED <<requests, purchases, tasks, queue, signed, day, restarts>>

\* The process restarts: calls and the lock are gone, the tables remain, and so
\* do the payments that were signed.
Restart ==
    /\ restarts < MaxRestarts
    /\ restarts' = restarts + 1
    /\ tasks' = [t \in Tasks |->
           IF tasks[t].pc \in {"idle", "done"} THEN tasks[t] ELSE Ended(t, "lost")]
    /\ queue' = <<>>
    /\ UNCHANGED <<requests, purchases, signed, charged, day>>

\* Every path of the code from one await to the next.
Step(t) ==
    \/ Begin(t) \/ Reserve(t)
    \/ Sign(t) \/ PaidCall(t) \/ UnpaidCall(t) \/ BrokenCall(t)
    \/ Complete(t) \/ CompleteAsUnknown(t)
    \/ FailRequest(t) \/ Prepare(t) \/ FailPreparation(t) \/ FinishRequest(t)
    \/ DatabaseError(t)

Next ==
    \/ \E t \in Tasks, p \in Payments, r \in Requests : Call(t, p, r)
    \/ \E t \in Tasks : Step(t)
    \/ \E k \in Keys : Charge(k)
    \/ Midnight
    \/ Restart

Spec == Init /\ [][Next]_vars

\* A step of the lock's holder is always eventually taken: its transactions
\* run on the thread pool, its supplier call times out after 60 seconds.
FairSpec == Spec /\ \A t \in Tasks : WF_vars(Step(t))

-----------------------------------------------------------------------------
(* Properties *)

RequestRow == [status : {"IN_PROGRESS"} \cup Terminal, request : Requests, cost : Nat]
PurchaseRow == [status : {"ABSENT", "FAILED_PRE_PAYMENT"} \cup Counted, amount : Nat, day : Nat]
Task == [pc : {"begin", "reserve", "call", "paid", "record", "fail", "prepare",
               "unprepared", "finish", "done"},
         payment : Payments, request : Requests, stage : 1..3, lost : BOOLEAN, cost : Nat,
         outcome : {"none", "FULFILLED", "UNKNOWN", "FAILED_PRE_PAYMENT"}, price : Nat,
         reply : {"none", "prepared", "replay", "conflict", "failed", "error", "lost"}]

\* Types, and the stage of a call stays inside the plan of its product.
TypeOK ==
    /\ requests \in [Payments -> {NoRequest} \cup RequestRow]
    /\ purchases \in [Keys -> PurchaseRow]
    /\ tasks \in [Tasks -> {IdleTask} \cup Task]
    /\ \A t \in Tasks :
           tasks[t] # IdleTask => tasks[t].stage <= LastStage(tasks[t].request)
    /\ queue \in Seq(Tasks)
    /\ signed \in [Keys -> Nat] /\ charged \in [Keys -> Nat]
    /\ day \in Nat /\ restarts \in Nat

\* What is reserved or spent under any one UTC day never exceeds the daily cap,
\* whatever calls, failures and restarts interleave (the check in
\* _reserve_supplier against the amounts _complete_supplier later writes).
DailyCapHeld == \A d \in 1..MaxDay : Total(Amounts, CountedOn(d)) <= DailyCap

\* The ledger never understates real money: a payment a supplier was sent and may
\* still take is on a row that counts towards the cap, at its full amount, through
\* every error path of _attempt_supplier and across a restart.
SpendCovered ==
    \A k \in Keys : signed[k] > 0 =>
        purchases[k].status \in Counted /\ signed[k] <= purchases[k].amount

\* The supplier ledger implements the budget of SupplierBudget: a payment is
\* signed only for a purchase set aside at its maximum under the cap, at most once,
\* and a purchase is settled once, at no less than was signed, through every error
\* path of _attempt_supplier and across a restart.
Budget == INSTANCE SupplierBudget WITH
    Purchases <- Keys,
    Maximum <- [k \in Keys |-> MaxAmount[k[2]]],
    Cap <- DailyCap,
    held <- [k \in Keys |-> [amount |-> purchases[k].amount, day |-> purchases[k].day,
                             open |-> purchases[k].status = "RESERVED"]],
    signed <- signed,
    today <- day
WithinBudget == Budget!Spec

\* However late suppliers take what they were authorised to take, up to the end of
\* any day they have never taken more than the caps of the days so far.  (On a single
\* day it can be more than its cap: payments signed before midnight and taken after.)
SpendOverDays ==
    \A d \in 1..day :
        Total(signed, {k \in Keys : charged[k] \in 1..d}) <= d * DailyCap

\* One customer payment buys one plan: what its rows hold never exceeds the maxima
\* of the product it was first used for, whatever it is retried with; and of that
\* plan only the opening purchase, unless the opening purchase was FULFILLED.
PaymentSpendBounded ==
    \A p \in Payments : Total(Amounts, RowsOf(p)) > 0 =>
        /\ requests[p].status # "ABSENT"
        /\ LET plan == Plan(Product[requests[p].request])
               bought == IF purchases[<<p, plan[1]>>].status = "FULFILLED"
                         THEN {plan[i] : i \in DOMAIN plan} ELSE {plan[1]}
           IN Total(Amounts, RowsOf(p)) <= Total(MaxAmount, bought)

\* The cost reported for a closed request (actual_direct_cost_atomic) is the sum
\* of its purchase rows: the two tables are written by different transactions.
CostAgrees ==
    \A p \in Payments :
        requests[p].status \in Terminal => requests[p].cost = Total(Amounts, RowsOf(p))

\* A result is only ever answered for the request its payment was claimed for,
\* and only once that request is stored as COMPLETED.
ReplayFaithful ==
    \A t \in Tasks : tasks[t].pc = "done" /\ tasks[t].reply \in {"prepared", "replay"} =>
        LET row == requests[tasks[t].payment]
        IN row.status = "COMPLETED" /\ row.request = tasks[t].request

\* A call that has claimed p and not yet ended.
Owned(p) == \E t \in Tasks :
    tasks[t].pc \notin {"idle", "begin", "done"} /\ tasks[t].payment = p

\* A claimed payment is worked on once: when its call has ended, however it
\* ended, no later call takes the claim up again, and neither its request nor
\* its purchases change.  (A claim left IN_PROGRESS by a restart is refused for
\* ever, and never bought for twice.)
ClaimedOnce ==
    [][\A p \in Payments : (requests[p].status # "ABSENT" /\ ~Owned(p)) =>
           /\ requests'[p] = requests[p] /\ ~Owned(p)'
           /\ \A s \in Suppliers : purchases'[<<p, s>>] = purchases[<<p, s>>]]_vars

\* Every call that reaches the broker is answered: an error on any path gives
\* the lock to the next call.
Answered == \A t \in Tasks : (tasks[t].pc = "begin") ~> (tasks[t].pc = "done")

=============================================================================
