---------------------- MODULE ProcurementBroker_proofs ----------------------
(***************************************************************************)
(* The daily cap and the coverage of real spending, for any payments,      *)
(* requests, calls, prices and cap.                                        *)
(***************************************************************************)
EXTENDS ProcurementBroker, LedgerSum_proofs

\* A call between its claim of the payment and its end.
Running(t) == tasks[t].pc \notin {"idle", "begin", "done"}

\* Only the holder of the lock runs.
RunningHolds == \A t \in Tasks : Running(t) => Holds(t)

\* No row is dated in the future or holds more than its supplier's maximum.
RowsBounded ==
    \A k \in Keys : purchases[k].day <= day /\ purchases[k].amount <= MaxAmount[k[2]]

\* While a supplier is called its row is the full reservation.
ReservationHeld ==
    \A t \in Tasks : tasks[t].pc \in {"call", "paid", "record"} =>
        /\ purchases[Key(t)].status = "RESERVED"
        /\ purchases[Key(t)].amount = MaxAmount[Supplier(t)]

\* A payment is signed only during a call, and the outcome accounts for it.
CallAccounted ==
    \A t \in Tasks :
        /\ tasks[t].pc = "call" => signed[Key(t)] = 0
        /\ tasks[t].pc = "paid" =>
              signed[Key(t)] = tasks[t].price /\ tasks[t].price <= MaxAmount[Supplier(t)]
        /\ tasks[t].pc = "record" =>
              /\ tasks[t].price <= MaxAmount[Supplier(t)]
              /\ signed[Key(t)] <= tasks[t].price
              /\ signed[Key(t)] > 0 => tasks[t].outcome \in {"FULFILLED", "UNKNOWN"}
              /\ tasks[t].outcome \in {"FULFILLED", "UNKNOWN", "FAILED_PRE_PAYMENT"}

CapOnEveryDay == \A d \in Nat : Total(Amounts, CountedOn(d)) <= DailyCap

IInv == /\ TypeOK
        /\ RunningHolds
        /\ RowsBounded
        /\ ReservationHeld
        /\ CallAccounted
        /\ SpendCovered
        /\ CapOnEveryDay
-----------------------------------------------------------------------------
(* Constants and ledgers *)

\* The plan of a product names suppliers only.
LEMMA PlanType ==
    ASSUME NEW t \in Tasks, TypeOK, tasks[t].pc # "idle"
    PROVE  /\ tasks[t] \in Task
           /\ Product[tasks[t].request] \in {"profile", "python"}
           /\ tasks[t].stage \in DOMAIN Plan(Product[tasks[t].request])
           /\ LastStage(tasks[t].request) \in {2, 3}
           /\ Supplier(t) \in Suppliers
           /\ Key(t) \in Keys
           /\ MaxAmount[Supplier(t)] \in Nat
<1>1. tasks[t] \in Task
  BY DEF TypeOK, IdleTask
<1>2. Product[tasks[t].request] \in {"profile", "python"}
  BY <1>1, ConstantsAssumption DEF Task
<1>3. tasks[t].stage \in 1..3 /\ tasks[t].stage <= LastStage(tasks[t].request)
  BY <1>1 DEF Task, TypeOK, IdleTask
<1>4. CASE Product[tasks[t].request] = "profile"
  <2>1. LastStage(tasks[t].request) = 2
    BY <1>4 DEF Plan, LastStage
  <2>2. tasks[t].stage \in {1, 2}
    BY <1>3, <2>1
  <2> QED
    BY <2>1, <2>2, <1>1, <1>4, ConstantsAssumption
    DEF Plan, Supplier, Suppliers, Key, Keys, Task
<1>5. CASE Product[tasks[t].request] = "python"
  <2>1. LastStage(tasks[t].request) = 3
    BY <1>5 DEF Plan, LastStage
  <2>2. tasks[t].stage \in {1, 2, 3}
    BY <1>3
  <2> QED
    BY <2>1, <2>2, <1>1, <1>5, ConstantsAssumption
    DEF Plan, Supplier, Suppliers, Key, Keys, Task
<1> QED
  BY <1>2, <1>4, <1>5

\* There are finitely many rows, and one bound for all maxima.
LEMMA KeysFinite ==
    /\ IsFiniteSet(Keys)
    /\ \E b \in Nat : \A s \in Suppliers : MaxAmount[s] \in 0..b
<1>1. IsFiniteSet(Suppliers)
  <2>1. IsFiniteSet({})
    BY FS_EmptySet, Zenon
  <2>2. IsFiniteSet({} \cup {"tavily"})
    BY <2>1, FS_AddElement, Zenon
  <2>3. IsFiniteSet({} \cup {"tavily"} \cup {"blockrun"})
    BY <2>2, FS_AddElement, Zenon
  <2>4. IsFiniteSet({} \cup {"tavily"} \cup {"blockrun"} \cup {"create"})
    BY <2>3, FS_AddElement, Zenon
  <2>5. IsFiniteSet({} \cup {"tavily"} \cup {"blockrun"} \cup {"create"} \cup {"exec"})
    BY <2>4, FS_AddElement, Zenon
  <2>6. IsFiniteSet({} \cup {"tavily"} \cup {"blockrun"} \cup {"create"} \cup {"exec"}
                       \cup {"terminate"})
    BY <2>5, FS_AddElement, Zenon
  <2>7. Suppliers = {} \cup {"tavily"} \cup {"blockrun"} \cup {"create"} \cup {"exec"}
                       \cup {"terminate"}
    BY DEF Suppliers
  <2> QED
    BY <2>6, <2>7
<1>2. IsFiniteSet(Payments)
  BY ConstantsAssumption
<1>3. IsFiniteSet(Keys)
  BY <1>1, <1>2, FS_Product, Zenon DEF Keys
<1>4. \E b \in Nat : \A s \in Suppliers : MaxAmount[s] \in 0..b
  <2> DEFINE b == MaxAmount["tavily"] + MaxAmount["blockrun"] + MaxAmount["create"]
                     + MaxAmount["exec"] + MaxAmount["terminate"]
  <2>1. \A s \in Suppliers : MaxAmount[s] \in Nat
    BY ConstantsAssumption
  <2>2. b \in Nat /\ \A s \in Suppliers : MaxAmount[s] \in 0..b
    BY <2>1 DEF Suppliers
  <2> QED
    BY <2>2
<1> QED
  BY <1>3, <1>4

\* The sums of the model range over finite sets of bounded rows.
LEMMA RowFacts ==
    ASSUME TypeOK, RowsBounded,
           NEW b \in Nat, \A s \in Suppliers : MaxAmount[s] \in 0..b
    PROVE  /\ \A k \in Keys : Amounts[k] \in 0..b
           /\ \A d \in Nat : IsFiniteSet(CountedOn(d)) /\ CountedOn(d) \in SUBSET Keys
<1>1. \A k \in Keys : Amounts[k] \in 0..b
  <2> TAKE k \in Keys
  <2>1. k[2] \in Suppliers
    BY DEF Keys
  <2>2. Amounts[k] \in Nat /\ Amounts[k] <= MaxAmount[k[2]] /\ MaxAmount[k[2]] \in 0..b
    BY <2>1 DEF TypeOK, RowsBounded, PurchaseRow, Amounts
  <2> QED
    BY <2>2
<1>2. \A d \in Nat : IsFiniteSet(CountedOn(d)) /\ CountedOn(d) \in SUBSET Keys
  <2> TAKE d \in Nat
  <2>1. CountedOn(d) \in SUBSET Keys
    BY DEF CountedOn
  <2> QED
    BY <2>1, KeysFinite, FS_Subset, Zenon
<1> QED
  BY <1>1, <1>2
-----------------------------------------------------------------------------
(* Type correctness *)

\* The part of TypeOK about the locals of a call.
TasksOK ==
    /\ tasks \in [Tasks -> {IdleTask} \cup Task]
    /\ \A t \in Tasks :
           tasks[t] # IdleTask => tasks[t].stage <= LastStage(tasks[t].request)

\* A call that ends keeps its types and returns the lock.
LEMMA LeaveType ==
    ASSUME TypeOK, NEW t \in Tasks, tasks[t].pc # "idle", Holds(t),
           NEW reply \in {"prepared", "replay", "conflict", "failed", "error"},
           Leave(t, reply)
    PROVE  TasksOK' /\ queue' \in Seq(Tasks)
<1>1. tasks[t] \in Task /\ LastStage(tasks[t].request) \in {2, 3}
  BY PlanType
<1>2. TasksOK /\ queue \in Seq(Tasks)
  BY DEF TypeOK, TasksOK
<1>3. /\ Ended(t, reply) \in Task
      /\ Ended(t, reply).stage <= LastStage(Ended(t, reply).request)
  BY <1>1 DEF Ended, Locals, Task
<1>4. tasks' = [tasks EXCEPT ![t] = Ended(t, reply)]
  BY DEF Leave
<1>5. queue' \in Seq(Tasks)
  BY <1>2 DEF Leave, Holds
<1> QED
  BY <1>2, <1>3, <1>4, <1>5 DEF TasksOK

\* So does a call that goes on to its next stage.
LEMMA AfterAttemptType ==
    ASSUME TypeOK, NEW t \in Tasks, tasks[t].pc # "idle",
           NEW outcome, NEW amount \in Nat,
           AfterAttempt(t, outcome, amount)
    PROVE  TasksOK'
<1>1. tasks[t] \in Task /\ LastStage(tasks[t].request) \in {2, 3}
  BY PlanType
<1>2. TasksOK
  BY DEF TypeOK, TasksOK
<1>3. tasks[t].stage \in 1..3 /\ tasks[t].stage <= LastStage(tasks[t].request)
  BY <1>1, <1>2 DEF TasksOK, Task, IdleTask
<1> DEFINE lost == tasks[t].lost \/ (Supplier(t) \in Required /\ outcome # "FULFILLED")
           over == PlanOver(t, outcome)
           stage == IF over THEN tasks[t].stage ELSE tasks[t].stage + 1
           pc == IF ~over THEN "reserve" ELSE IF lost THEN "fail" ELSE "prepare"
           next == [pc |-> pc, payment |-> tasks[t].payment, request |-> tasks[t].request,
                    stage |-> stage, lost |-> lost,
                    cost |-> tasks[t].cost + CostOf(outcome, amount),
                    outcome |-> "none", price |-> 0, reply |-> "none"]
<1>4. tasks' = [tasks EXCEPT ![t] = next]
  BY DEF AfterAttempt
<1>5. stage \in 1..3 /\ stage <= LastStage(tasks[t].request)
  BY <1>1, <1>3 DEF PlanOver
<1>6. lost \in BOOLEAN /\ pc \in {"reserve", "fail", "prepare"}
  BY <1>1 DEF Task
<1> HIDE DEF lost, over, stage, pc
<1>7. next \in Task /\ next.stage = stage /\ next.request = tasks[t].request
  BY <1>1, <1>5, <1>6 DEF Task, CostOf
<1> HIDE DEF next
<1> QED
  BY <1>2, <1>4, <1>5, <1>7 DEF TasksOK

\* A step inside a call changes its pc and what it remembers of an attempt.
LEMMA ProgressType ==
    ASSUME TypeOK, NEW t \in Tasks, tasks[t].pc # "idle",
           NEW pc \in {"reserve", "call", "paid", "record", "finish", "unprepared"},
           \/ tasks' = [tasks EXCEPT ![t].pc = pc]
           \/ \E price \in Nat : tasks' = [tasks EXCEPT ![t].pc = pc, ![t].price = price]
           \/ \E outcome \in {"FULFILLED", "UNKNOWN", "FAILED_PRE_PAYMENT"}, price \in Nat :
                 tasks' = [tasks EXCEPT ![t].pc = pc, ![t].outcome = outcome,
                                        ![t].price = price]
    PROVE  TasksOK'
<1>1. tasks[t] \in Task
  BY PlanType
<1>2. TasksOK
  BY DEF TypeOK, TasksOK
<1>3. /\ tasks'[t] \in Task
      /\ tasks'[t].stage = tasks[t].stage /\ tasks'[t].request = tasks[t].request
      /\ \A u \in Tasks \ {t} : tasks'[u] = tasks[u]
      /\ DOMAIN tasks' = Tasks /\ tasks' = [u \in Tasks |-> tasks'[u]]
  BY <1>1, <1>2 DEF TasksOK, Task
<1>4. tasks' \in [Tasks -> {IdleTask} \cup Task]
  BY <1>2, <1>3 DEF TasksOK
<1>5. tasks[t].stage <= LastStage(tasks[t].request)
  BY <1>1, <1>2 DEF TasksOK, Task, IdleTask
<1> QED
  BY <1>2, <1>3, <1>4, <1>5 DEF TasksOK

\* Closing a request writes a well-typed row.
LEMMA CloseRequestType ==
    ASSUME TypeOK, NEW t \in Tasks, tasks[t].pc # "idle",
           NEW status \in Terminal, CloseRequest(t, status)
    PROVE  requests' \in [Payments -> {NoRequest} \cup RequestRow]
<1>1. tasks[t] \in Task
  BY PlanType
<1> DEFINE p == tasks[t].payment
<1>2. p \in Payments /\ tasks[t].cost \in Nat
  BY <1>1 DEF Task
<1> DEFINE row == IF requests[p].status = "IN_PROGRESS"
                  THEN [status |-> status, request |-> requests[p].request,
                        cost |-> tasks[t].cost]
                  ELSE requests[p]
<1>3. row \in {NoRequest} \cup RequestRow
  BY <1>2 DEF TypeOK, NoRequest, RequestRow
<1>4. requests' = [requests EXCEPT ![p] = row]
  BY DEF CloseRequest
<1> HIDE DEF p, row
<1> QED
  BY <1>2, <1>3, <1>4 DEF TypeOK

\* A supplier call that ends records a price.
LEMMA EndCallType ==
    ASSUME TypeOK, NEW t \in Tasks, tasks[t].pc # "idle",
           NEW outcome \in {"FULFILLED", "UNKNOWN", "FAILED_PRE_PAYMENT"},
           NEW price \in Nat, EndCall(t, outcome, price)
    PROVE  TypeOK'
<1>1. TasksOK'
  BY ProgressType DEF EndCall
<1> QED
  BY <1>1 DEF EndCall, TypeOK, TasksOK

\* TypeOK is inductive: one case per action.
LEMMA TypeStep ==
    ASSUME TypeOK, CallAccounted, [Next]_vars
    PROVE  TypeOK'
<1>1. ASSUME NEW t \in Tasks, NEW p \in Payments, NEW r \in Requests, Call(t, p, r)
      PROVE  TypeOK'
  <2>1. /\ Locals(p, r, "begin", "none") \in Task
        /\ Locals(p, r, "begin", "none").stage <= LastStage(r)
        /\ Locals(p, r, "begin", "none").request = r
    BY ConstantsAssumption DEF Locals, Task, LastStage, Plan
  <2>2. TasksOK
    BY DEF TypeOK, TasksOK
  <2>3. TasksOK'
    BY <1>1, <2>1, <2>2 DEF TasksOK, Call
  <2> QED
    BY <1>1, <2>3 DEF Call, TypeOK, TasksOK
<1>2. ASSUME NEW t \in Tasks, Begin(t)
      PROVE  TypeOK'
  <2>1. tasks[t].pc # "idle" /\ Holds(t) /\ tasks[t] \in Task
    BY <1>2, PlanType DEF Begin, At
  <2> USE DEF Begin
  <2>2. CASE Leave(t, "replay") /\ UNCHANGED requests
    BY <1>2, <2>1, <2>2, LeaveType DEF TypeOK, TasksOK
  <2>3. CASE Leave(t, "conflict") /\ UNCHANGED requests
    BY <1>2, <2>1, <2>3, LeaveType DEF TypeOK, TasksOK
  <2>4. CASE /\ requests' = [requests EXCEPT ![tasks[t].payment] =
                 [status |-> "IN_PROGRESS", request |-> tasks[t].request, cost |-> 0]]
             /\ tasks' = [tasks EXCEPT ![t].pc = "reserve"]
             /\ UNCHANGED queue
    <3>1. TasksOK'
      BY <2>1, <2>4, ProgressType
    <3>2. requests' \in [Payments -> {NoRequest} \cup RequestRow]
      BY <2>1, <2>4 DEF TypeOK, RequestRow, Task
    <3> QED
      BY <1>2, <2>4, <3>1, <3>2 DEF TypeOK, TasksOK
  <2> QED
    BY <1>2, <2>2, <2>3, <2>4
<1>3. ASSUME NEW t \in Tasks, Reserve(t)
      PROVE  TypeOK'
  <2>1. tasks[t].pc # "idle"
    BY <1>3 DEF Reserve, At
  <2>2. Key(t) \in Keys /\ MaxAmount[Supplier(t)] \in Nat
    BY <2>1, PlanType
  <2>3. CASE /\ purchases' = [purchases EXCEPT ![Key(t)] =
                    [status |-> "RESERVED", amount |-> MaxAmount[Supplier(t)], day |-> day]]
             /\ tasks' = [tasks EXCEPT ![t].pc = "call"]
    <3>1. TasksOK'
      BY <2>1, <2>3, ProgressType
    <3>2. purchases' \in [Keys -> PurchaseRow]
      BY <2>2, <2>3 DEF TypeOK, PurchaseRow, Counted
    <3> QED
      BY <1>3, <3>1, <3>2 DEF Reserve, TypeOK, TasksOK
  <2>4. CASE AfterAttempt(t, "FAILED_PRE_PAYMENT", 0) /\ UNCHANGED purchases
    <3>1. TasksOK'
      BY <2>1, <2>4, AfterAttemptType
    <3> QED
      BY <1>3, <2>4, <3>1 DEF Reserve, TypeOK, TasksOK
  <2> QED
    BY <1>3, <2>3, <2>4 DEF Reserve
<1>4. ASSUME NEW t \in Tasks, PaidCall(t) \/ UnpaidCall(t) \/ BrokenCall(t)
      PROVE  TypeOK'
  <2>1. tasks[t].pc # "idle"
    BY <1>4 DEF PaidCall, UnpaidCall, BrokenCall, At
  <2>2. MaxAmount[Supplier(t)] \in Nat /\ Quotes \subseteq Nat
    BY <2>1, PlanType, ConstantsAssumption
  <2>3. tasks[t].price \in Nat
    BY <2>1, PlanType DEF Task
  <2>4. PICK outcome \in {"FULFILLED", "UNKNOWN", "FAILED_PRE_PAYMENT"},
             price \in Nat : EndCall(t, outcome, price)
    BY <1>4, <2>2, <2>3 DEF PaidCall, UnpaidCall, BrokenCall
  <2> QED
    BY <2>1, <2>4, EndCallType
<1>5. ASSUME NEW t \in Tasks, Complete(t) \/ CompleteAsUnknown(t)
      PROVE  TypeOK'
  <2>1. tasks[t].pc # "idle"
    BY <1>5 DEF Complete, CompleteAsUnknown, At
  <2>2. /\ tasks[t] \in Task /\ Key(t) \in Keys /\ MaxAmount[Supplier(t)] \in Nat
    BY <2>1, PlanType
  <2>3. tasks[t].outcome \in {"FULFILLED", "UNKNOWN", "FAILED_PRE_PAYMENT"}
    BY <1>5 DEF Complete, CompleteAsUnknown, At, CallAccounted
  <2>4. PICK outcome \in {"FULFILLED", "UNKNOWN", "FAILED_PRE_PAYMENT"}, amount \in Nat :
               /\ AfterAttempt(t, outcome, amount)
               /\ purchases' = [purchases EXCEPT ![Key(t)].status = outcome,
                                                 ![Key(t)].amount = amount]
    BY <1>5, <2>2, <2>3 DEF Complete, CompleteAsUnknown, Task
  <2>5. TasksOK'
    BY <2>1, <2>4, AfterAttemptType
  <2>6. purchases' \in [Keys -> PurchaseRow]
    BY <2>2, <2>4 DEF TypeOK, PurchaseRow, Counted
  <2> QED
    BY <1>5, <2>5, <2>6 DEF Complete, CompleteAsUnknown, TypeOK, TasksOK
<1>6. ASSUME NEW t \in Tasks, FailRequest(t) \/ FailPreparation(t) \/ FinishRequest(t)
      PROVE  TypeOK'
  <2>1. tasks[t].pc # "idle" /\ Holds(t)
    BY <1>6 DEF FailRequest, FailPreparation, FinishRequest, At
  <2>2. PICK status \in Terminal, reply \in {"failed", "prepared"} :
           CloseRequest(t, status) /\ Leave(t, reply)
    BY <1>6 DEF FailRequest, FailPreparation, FinishRequest, Terminal
  <2>3. requests' \in [Payments -> {NoRequest} \cup RequestRow]
    BY <2>1, <2>2, CloseRequestType
  <2>4. TasksOK' /\ queue' \in Seq(Tasks)
    BY <2>1, <2>2, LeaveType
  <2> QED
    BY <1>6, <2>3, <2>4 DEF FailRequest, FailPreparation, FinishRequest, TypeOK, TasksOK
<1>7. ASSUME NEW t \in Tasks, Prepare(t)
      PROVE  TypeOK'
  <2>1. tasks[t].pc # "idle"
    BY <1>7 DEF Prepare, At
  <2>2. TasksOK'
    BY <1>7, <2>1, ProgressType DEF Prepare
  <2> QED
    BY <1>7, <2>2 DEF Prepare, TypeOK, TasksOK
<1>8. ASSUME NEW t \in Tasks, DatabaseError(t)
      PROVE  TypeOK'
  <2>1. tasks[t].pc # "idle" /\ Holds(t) /\ Leave(t, "error")
    BY <1>8 DEF DatabaseError, At
  <2>2. TasksOK' /\ queue' \in Seq(Tasks)
    BY <2>1, LeaveType
  <2> QED
    BY <1>8, <2>2 DEF DatabaseError, TypeOK, TasksOK
<1>9. CASE Midnight
  BY <1>9 DEF Midnight, TypeOK
<1>10. CASE Restart
  <2>1. TasksOK'
    <3>1. \A t \in Tasks : tasks[t].pc \notin {"idle", "done"} =>
             /\ Ended(t, "lost") \in Task
             /\ Ended(t, "lost").stage <= LastStage(Ended(t, "lost").request)
      <4> SUFFICES ASSUME NEW t \in Tasks, tasks[t].pc \notin {"idle", "done"}
                   PROVE  /\ Ended(t, "lost") \in Task
                          /\ Ended(t, "lost").stage <= LastStage(Ended(t, "lost").request)
        OBVIOUS
      <4>1. tasks[t] \in Task /\ LastStage(tasks[t].request) \in {2, 3}
        BY PlanType
      <4> QED
        BY <4>1 DEF Ended, Locals, Task
    <3>2. TasksOK
      BY DEF TypeOK, TasksOK
    <3> QED
      BY <1>10, <3>1, <3>2 DEF Restart, TasksOK
  <2>2. queue' \in Seq(Tasks)
    BY <1>10 DEF Restart
  <2> QED
    BY <1>10, <2>1, <2>2 DEF Restart, TypeOK, TasksOK
<1>11. CASE UNCHANGED vars
  BY <1>11 DEF vars, TypeOK, Keys
<1>12. ASSUME NEW t \in Tasks, Sign(t)
       PROVE  TypeOK'
  <2>1. PICK quote \in Quotes :
           /\ signed' = [signed EXCEPT ![Key(t)] = quote]
           /\ tasks' = [tasks EXCEPT ![t].pc = "paid", ![t].price = quote]
    BY <1>12 DEF Sign
  <2>2. tasks[t].pc # "idle" /\ quote \in Nat
    BY <1>12, ConstantsAssumption DEF Sign, At
  <2>3. Key(t) \in Keys
    BY <2>2, PlanType
  <2>4. TasksOK'
    BY <2>1, <2>2, ProgressType
  <2>5. signed' \in [Keys -> Nat]
    BY <2>1, <2>2, <2>3 DEF TypeOK
  <2> QED
    BY <1>12, <2>4, <2>5 DEF Sign, TypeOK, TasksOK
<1>13. ASSUME NEW k \in Keys, Charge(k)
       PROVE  TypeOK'
  <2>1. charged' \in [Keys -> Nat]
    BY <1>13 DEF Charge, TypeOK
  <2> QED
    BY <1>13, <2>1 DEF Charge, TypeOK
<1> QED
  BY <1>1, <1>2, <1>3, <1>4, <1>5, <1>6, <1>7, <1>8, <1>9, <1>10, <1>11, <1>12, <1>13
  DEF Next, Step

-----------------------------------------------------------------------------
(* The inductive invariant *)

\* What a step of one call can do to pc: the other calls keep theirs.
LEMMA OthersKeep ==
    ASSUME TypeOK, NEW t \in Tasks, Step(t)
    PROVE  /\ Holds(t) /\ tasks[t].pc \notin {"idle", "done"}
           /\ \A u \in Tasks \ {t} : tasks'[u] = tasks[u]
<1>1. Holds(t) /\ tasks[t].pc \notin {"idle", "done"}
  BY DEF Step, Begin, Reserve, Sign, PaidCall, UnpaidCall, BrokenCall, Complete, CompleteAsUnknown,
         FailRequest, Prepare, FailPreparation, FinishRequest, DatabaseError, At
<1>2. \A u \in Tasks \ {t} : tasks'[u] = tasks[u]
  BY DEF Step, Begin, Reserve, Sign, PaidCall, UnpaidCall, BrokenCall, Complete, CompleteAsUnknown,
         FailRequest, Prepare, FailPreparation, FinishRequest, DatabaseError,
         EndCall, Leave, AfterAttempt, TypeOK
<1> QED
  BY <1>1, <1>2

\* A step either keeps the lock or ends the call.
LEMMA LockStep ==
    ASSUME TypeOK, NEW t \in Tasks, Step(t)
    PROVE  queue' = queue \/ tasks'[t].pc = "done"
BY DEF Step, Begin, Reserve, Sign, PaidCall, UnpaidCall, BrokenCall, Complete, CompleteAsUnknown,
       FailRequest, Prepare, FailPreparation, FinishRequest, DatabaseError,
       EndCall, Leave, TypeOK, Ended, Locals

LEMMA RunningHoldsStep ==
    ASSUME TypeOK, RunningHolds, [Next]_vars
    PROVE  RunningHolds'
<1>1. ASSUME NEW t \in Tasks, NEW p \in Payments, NEW r \in Requests, Call(t, p, r)
      PROVE  RunningHolds'
  <2> SUFFICES ASSUME NEW u \in Tasks, Running(u)'
               PROVE  Holds(u)'
    BY DEF RunningHolds
  <2>1. u # t /\ tasks'[u] = tasks[u]
    BY <1>1 DEF Call, TypeOK, Running, Locals
  <2>2. Holds(u)
    BY <2>1 DEF RunningHolds, Running
  <2>3. queue \in Seq(Tasks) /\ queue' = Append(queue, t) /\ queue # <<>> /\ Head(queue) = u
    BY <1>1, <2>2 DEF Call, Holds, TypeOK
  <2> QED
    BY <2>3 DEF Holds
<1>2. ASSUME NEW t \in Tasks, Step(t)
      PROVE  RunningHolds'
  <2> SUFFICES ASSUME NEW u \in Tasks, Running(u)'
               PROVE  Holds(u)'
    BY DEF RunningHolds
  <2>1. CASE u = t
    <3>1. Holds(t) /\ queue' = queue
      BY <1>2, <2>1, OthersKeep, LockStep DEF Running
    <3> QED
      BY <2>1, <3>1 DEF Holds
  <2>2. CASE u # t
    <3>1. Running(u) /\ Holds(t)
      BY <1>2, <2>2, OthersKeep DEF Running
    <3> QED
      BY <2>2, <3>1 DEF RunningHolds, Holds
  <2> QED
    BY <2>1, <2>2
<1>3. CASE Midnight
  BY <1>3 DEF Midnight, RunningHolds, Running, Holds
<1>4. CASE Restart
  BY <1>4 DEF Restart, RunningHolds, Running, TypeOK, IdleTask, Ended, Locals
<1>5. CASE UNCHANGED vars \/ \E k \in Keys : Charge(k)
  BY <1>5 DEF vars, Charge, RunningHolds, Running, Holds
<1> QED
  BY <1>1, <1>2, <1>3, <1>4, <1>5 DEF Next

\* A reservation that passed the check keeps every day within the cap.
LEMMA ReservationWithinCap ==
    ASSUME TypeOK, RowsBounded, CapOnEveryDay,
           NEW k \in Keys, NEW max \in Nat, max = MaxAmount[k[2]],
           purchases[k].status = "ABSENT",
           Total(Amounts, CountedSince(day)) + max <= DailyCap,
           purchases' = [purchases EXCEPT ![k] =
               [status |-> "RESERVED", amount |-> max, day |-> day]],
           RowsBounded', TypeOK'
    PROVE  CapOnEveryDay'
<1>1. PICK b \in Nat : \A s \in Suppliers : MaxAmount[s] \in 0..b
  BY KeysFinite
<1>2. /\ \A j \in Keys : Amounts[j] \in 0..b
      /\ \A d \in Nat : IsFiniteSet(CountedOn(d)) /\ CountedOn(d) \in SUBSET Keys
  BY <1>1, RowFacts
<1>3. \A j \in Keys : (Amounts')[j] = IF j = k THEN max ELSE Amounts[j]
  BY DEF Amounts, TypeOK
<1>4. CountedSince(day) = CountedOn(day)
  <2>1. \A j \in Keys : purchases[j].day >= day <=> purchases[j].day = day
    <3>1. \A j \in Keys : purchases[j].day \in Nat /\ purchases[j].day <= day /\ day \in Nat
      BY DEF RowsBounded, TypeOK, PurchaseRow
    <3> QED
      BY <3>1
  <2> QED
    BY <2>1 DEF CountedSince, CountedOn
<1> SUFFICES ASSUME NEW d \in Nat
             PROVE  Total(Amounts', CountedOn(d)') <= DailyCap
  BY DEF CapOnEveryDay
<1>5. CASE d = day
  <2>1. k \notin CountedOn(d)
    BY DEF CountedOn, Counted
  <2>2. CountedOn(d)' = CountedOn(d) \cup {k}
    BY <1>5 DEF CountedOn, Counted, TypeOK
  <2>3. \A j \in CountedOn(d) : (Amounts')[j] = Amounts[j]
    BY <1>2, <1>3, <2>1
  <2>4. Total(Amounts', CountedOn(d)) = Total(Amounts, CountedOn(d))
    BY <2>3, TotalAgree
  <2>5. \A j \in CountedOn(d) \cup {k} : (Amounts')[j] \in 0..b
    <3>1. max \in 0..b
      BY <1>1 DEF Keys
    <3> QED
      BY <1>2, <1>3, <3>1
  <2>6. Total(Amounts', CountedOn(d) \cup {k}) = Total(Amounts', CountedOn(d)) + (Amounts')[k]
    BY <1>2, <2>1, <2>5, TotalAdd
  <2> QED
    BY <1>3, <1>4, <1>5, <2>2, <2>4, <2>6
<1>6. CASE d # day
  <2>1. CountedOn(d)' = CountedOn(d)
    BY <1>6 DEF CountedOn, Counted, TypeOK
  <2>2. \A j \in CountedOn(d) : (Amounts')[j] = Amounts[j]
    BY <1>3, <1>2 DEF CountedOn, Counted
  <2>3. Total(Amounts', CountedOn(d)) = Total(Amounts, CountedOn(d))
    BY <2>2, TotalAgree
  <2> QED
    BY <2>1, <2>3 DEF CapOnEveryDay
<1> QED
  BY <1>5, <1>6

\* A reservation that is settled at no more than its amount does too.
LEMMA SettlementWithinCap ==
    ASSUME TypeOK, RowsBounded, CapOnEveryDay,
           NEW k \in Keys, purchases[k].status = "RESERVED",
           NEW outcome, NEW amount \in Nat, amount <= purchases[k].amount,
           purchases' = [purchases EXCEPT ![k].status = outcome, ![k].amount = amount]
    PROVE  CapOnEveryDay'
<1>1. PICK b \in Nat : \A s \in Suppliers : MaxAmount[s] \in 0..b
  BY KeysFinite
<1>2. /\ \A j \in Keys : Amounts[j] \in 0..b
      /\ \A d \in Nat : IsFiniteSet(CountedOn(d)) /\ CountedOn(d) \in SUBSET Keys
  BY <1>1, RowFacts
<1>3. \A j \in Keys : (Amounts')[j] = IF j = k THEN amount ELSE Amounts[j]
  BY DEF Amounts, TypeOK, PurchaseRow
<1> SUFFICES ASSUME NEW d \in Nat
             PROVE  Total(Amounts', CountedOn(d)') <= DailyCap
  BY DEF CapOnEveryDay
<1>4. CountedOn(d)' \in SUBSET CountedOn(d)
  BY DEF CountedOn, Counted, TypeOK, PurchaseRow
<1>5. \A j \in CountedOn(d) : (Amounts')[j] \in Nat /\ Amounts[j] \in 0..b
  BY <1>2, <1>3
<1>6. \A j \in CountedOn(d)' : (Amounts')[j] <= Amounts[j]
  <2>1. Amounts[k] = purchases[k].amount
    BY DEF Amounts
  <2>2. \A j \in Keys : Amounts[j] \in Nat /\ (Amounts')[j] <= Amounts[j]
    BY <1>2, <1>3, <2>1
  <2> QED
    BY <1>2, <1>4, <2>2
<1>7. Total(Amounts', CountedOn(d)') <= Total(Amounts, CountedOn(d))
  BY <1>2, <1>4, <1>5, <1>6, TotalMonotone
<1>8. Total(Amounts, CountedOn(d)) \in Nat /\ Total(Amounts', CountedOn(d)') \in Nat
  <2>1. Total(Amounts, CountedOn(d)) \in Nat
    BY <1>2, TotalType
  <2>2. IsFiniteSet(CountedOn(d)')
    BY <1>2, <1>4, FS_Subset
  <2>3. amount \in 0..b
    BY <1>2 DEF Amounts
  <2>4. \A j \in CountedOn(d)' : (Amounts')[j] \in 0..b
    BY <1>2, <1>3, <1>4, <2>3
  <2> QED
    BY <2>1, <2>2, <2>4, TotalType
<1> QED
  BY <1>7, <1>8, ConstantsAssumption DEF CapOnEveryDay

\* The invariant apart from its types and the lock.
LedgerInv == RowsBounded /\ ReservationHeld /\ CallAccounted /\ SpendCovered /\ CapOnEveryDay

\* A step of a call that touches neither ledger nor money and leads to none of
\* the pcs that speak of them preserves the ledger's invariant.
LEMMA LedgerUntouched ==
    ASSUME TypeOK, RunningHolds, LedgerInv, NEW t \in Tasks, Step(t),
           UNCHANGED <<purchases, signed, day>>,
           tasks'[t].pc \notin {"call", "paid", "record"}
    PROVE  LedgerInv'
<1>1. \A u \in Tasks : tasks'[u].pc \in {"call", "paid", "record"} => tasks'[u] = tasks[u]
  BY OthersKeep
<1>2. ReservationHeld'
  BY <1>1 DEF LedgerInv, ReservationHeld, Key, Supplier
<1>3. CallAccounted'
  BY <1>1 DEF LedgerInv, CallAccounted, Key, Supplier
<1>4. RowsBounded' /\ SpendCovered' /\ CapOnEveryDay'
  BY DEF LedgerInv, RowsBounded, SpendCovered, CapOnEveryDay, Amounts, CountedOn
<1> QED
  BY <1>2, <1>3, <1>4 DEF LedgerInv

\* A call in "call" or "record" runs, so the one that steps is the only one.
LEMMA OnlyOne ==
    ASSUME TypeOK, RunningHolds, NEW t \in Tasks, Step(t),
           NEW u \in Tasks, tasks'[u].pc \in {"call", "paid", "record"}
    PROVE  u = t
BY OthersKeep DEF RunningHolds, Running, Holds

LEMMA LedgerReserve ==
    ASSUME TypeOK, TypeOK', RunningHolds, LedgerInv, NEW t \in Tasks, Reserve(t)
    PROVE  LedgerInv'
<1>1. tasks[t].pc # "idle" /\ Step(t) /\ UNCHANGED <<requests, signed, day>>
  BY DEF Reserve, At, Step
<1>2. /\ Key(t) \in Keys /\ Supplier(t) \in Suppliers /\ Key(t)[2] = Supplier(t)
      /\ MaxAmount[Supplier(t)] \in Nat /\ tasks[t] \in Task
  BY <1>1, PlanType DEF Key
<1>3. CASE AfterAttempt(t, "FAILED_PRE_PAYMENT", 0) /\ UNCHANGED purchases
  <2>1. tasks'[t].pc \notin {"call", "paid", "record"}
    BY <1>3 DEF AfterAttempt, TypeOK
  <2> QED
    BY <1>1, <1>3, <2>1, LedgerUntouched
<1>4. CASE /\ Total(Amounts, CountedSince(day)) + MaxAmount[Supplier(t)] <= DailyCap
           /\ purchases[Key(t)].status = "ABSENT"
           /\ purchases' = [purchases EXCEPT ![Key(t)] =
                  [status |-> "RESERVED", amount |-> MaxAmount[Supplier(t)], day |-> day]]
           /\ tasks' = [tasks EXCEPT ![t].pc = "call"]
  <2>1. \A k \in Keys : k[2] \in Suppliers /\ MaxAmount[k[2]] \in Nat
    BY ConstantsAssumption DEF Keys
  <2>2. RowsBounded'
    <3>1. /\ purchases'[Key(t)].amount = MaxAmount[Supplier(t)] /\ Key(t)[2] = Supplier(t)
          /\ purchases'[Key(t)].day = day /\ day' = day /\ day \in Nat
          /\ \A k \in Keys \ {Key(t)} : purchases'[k] = purchases[k]
      BY <1>1, <1>2, <1>4 DEF TypeOK, Key
    <3>2. \A k \in Keys : purchases[k].day <= day /\ purchases[k].amount <= MaxAmount[k[2]]
      BY <1>1 DEF LedgerInv, RowsBounded
    <3> QED
      BY <1>2, <2>1, <3>1, <3>2 DEF RowsBounded
  <2>3. tasks'[t].pc = "call" /\ Key(t)' = Key(t) /\ Supplier(t)' = Supplier(t)
    BY <1>2, <1>4 DEF Key, Supplier, TypeOK, Task
  <2>4. ReservationHeld'
    BY <1>1, <1>2, <1>4, <2>3, OnlyOne DEF ReservationHeld, TypeOK
  <2>5. signed[Key(t)] = 0
    <3>1. signed[Key(t)] \in Nat
      BY <1>2 DEF TypeOK
    <3>2. ~(signed[Key(t)] > 0)
      BY <1>2, <1>4 DEF LedgerInv, SpendCovered, Counted
    <3> QED
      BY <3>1, <3>2
  <2>6. CallAccounted'
    BY <1>1, <2>3, <2>5, OnlyOne DEF CallAccounted
  <2>7. SpendCovered'
    BY <1>1, <1>2, <1>4, <2>5 DEF LedgerInv, SpendCovered, TypeOK
  <2>8. CapOnEveryDay'
    BY <1>2, <1>4, <2>2, ReservationWithinCap DEF LedgerInv
  <2> QED
    BY <2>2, <2>4, <2>6, <2>7, <2>8 DEF LedgerInv
<1> QED
  BY <1>3, <1>4 DEF Reserve, FitsCap

\* The step that signs leaves its price to the task and to the supplier.
LEMMA LedgerSign ==
    ASSUME TypeOK, TypeOK', RunningHolds, LedgerInv, NEW t \in Tasks, Sign(t)
    PROVE  LedgerInv'
<1>1. tasks[t].pc = "call" /\ Step(t) /\ UNCHANGED <<purchases, day>>
  BY DEF Sign, At, Step
<1>2. /\ Key(t) \in Keys /\ MaxAmount[Supplier(t)] \in Nat /\ tasks[t] \in Task
  BY <1>1, PlanType
<1>3. PICK quote \in Nat :
         /\ quote <= MaxAmount[Supplier(t)]
         /\ signed' = [signed EXCEPT ![Key(t)] = quote]
         /\ tasks' = [tasks EXCEPT ![t].pc = "paid", ![t].price = quote]
  BY ConstantsAssumption DEF Sign, Acceptable
<1>4. /\ tasks'[t].pc = "paid" /\ tasks'[t].price = quote
      /\ Key(t)' = Key(t) /\ Supplier(t)' = Supplier(t)
  BY <1>2, <1>3 DEF Key, Supplier, TypeOK, Task
<1>5. /\ purchases[Key(t)].status = "RESERVED"
      /\ purchases[Key(t)].amount = MaxAmount[Supplier(t)]
  BY <1>1 DEF LedgerInv, ReservationHeld
<1>6. signed'[Key(t)] = quote /\ \A k \in Keys \ {Key(t)} : signed'[k] = signed[k]
  BY <1>2, <1>3 DEF TypeOK
<1>7. RowsBounded' /\ CapOnEveryDay'
  BY <1>1 DEF LedgerInv, RowsBounded, CapOnEveryDay, Amounts, CountedOn
<1>8. ReservationHeld'
  BY <1>1, <1>4, <1>5, OnlyOne DEF ReservationHeld
<1>9. CallAccounted'
  BY <1>1, <1>3, <1>4, <1>6, OnlyOne DEF CallAccounted
<1>10. SpendCovered'
  BY <1>1, <1>2, <1>3, <1>5, <1>6 DEF LedgerInv, SpendCovered, Counted
<1> QED
  BY <1>7, <1>8, <1>9, <1>10 DEF LedgerInv

\* What a supplier call that ends will record covers what was signed in it.
LEMMA CallEnds ==
    ASSUME TypeOK, LedgerInv, NEW t \in Tasks, PaidCall(t) \/ UnpaidCall(t) \/ BrokenCall(t)
    PROVE  \E outcome \in {"FULFILLED", "UNKNOWN", "FAILED_PRE_PAYMENT"}, price \in Nat :
              /\ EndCall(t, outcome, price)
              /\ signed[Key(t)] <= price /\ price <= MaxAmount[Supplier(t)]
              /\ signed[Key(t)] > 0 => outcome # "FAILED_PRE_PAYMENT"
              /\ outcome = "FAILED_PRE_PAYMENT" => price = 0
<1>1. tasks[t].pc \in {"call", "paid"}
  BY DEF PaidCall, UnpaidCall, BrokenCall, At
<1>2. /\ MaxAmount[Supplier(t)] \in Nat /\ tasks[t].price \in Nat
      /\ signed[Key(t)] \in Nat
  BY <1>1, PlanType DEF Task, TypeOK
<1>3. /\ tasks[t].pc = "call" => signed[Key(t)] = 0
      /\ tasks[t].pc = "paid" =>
            signed[Key(t)] = tasks[t].price /\ tasks[t].price <= MaxAmount[Supplier(t)]
  BY DEF LedgerInv, CallAccounted
<1>4. CASE PaidCall(t)
  <2>1. /\ tasks[t].pc = "paid"
        /\ \E outcome \in {"FULFILLED", "UNKNOWN"} : EndCall(t, outcome, tasks[t].price)
    BY <1>4 DEF PaidCall, At
  <2> QED
    BY <1>2, <1>3, <2>1
<1>5. CASE UnpaidCall(t)
  <2>1. /\ tasks[t].pc = "call"
        /\ \E outcome \in {"FULFILLED", "FAILED_PRE_PAYMENT"} : EndCall(t, outcome, 0)
    BY <1>5 DEF UnpaidCall, At
  <2> QED
    BY <1>2, <1>3, <2>1
<1>6. CASE BrokenCall(t)
  <2>1. EndCall(t, "UNKNOWN", MaxAmount[Supplier(t)])
    BY <1>6 DEF BrokenCall
  <2> QED
    BY <1>1, <1>2, <1>3, <2>1
<1> QED
  BY <1>4, <1>5, <1>6

LEMMA LedgerSupplierCall ==
    ASSUME TypeOK, TypeOK', RunningHolds, LedgerInv, NEW t \in Tasks,
           PaidCall(t) \/ UnpaidCall(t) \/ BrokenCall(t)
    PROVE  LedgerInv'
<1>1. tasks[t].pc \in {"call", "paid"} /\ Step(t)
  BY DEF PaidCall, UnpaidCall, BrokenCall, At, Step
<1>2. /\ Key(t) \in Keys /\ MaxAmount[Supplier(t)] \in Nat /\ tasks[t] \in Task
  BY <1>1, PlanType
<1>3. PICK outcome \in {"FULFILLED", "UNKNOWN", "FAILED_PRE_PAYMENT"}, price \in Nat :
        /\ EndCall(t, outcome, price)
        /\ signed[Key(t)] <= price /\ price <= MaxAmount[Supplier(t)]
        /\ signed[Key(t)] > 0 => outcome # "FAILED_PRE_PAYMENT"
  BY CallEnds
<1>4. /\ tasks'[t].pc = "record" /\ tasks'[t].outcome = outcome /\ tasks'[t].price = price
      /\ Key(t)' = Key(t) /\ Supplier(t)' = Supplier(t)
  BY <1>2, <1>3 DEF EndCall, Key, Supplier, TypeOK, Task
<1>5. UNCHANGED <<purchases, signed, day>>
  BY <1>3 DEF EndCall
<1>6. /\ purchases[Key(t)].status = "RESERVED"
      /\ purchases[Key(t)].amount = MaxAmount[Supplier(t)]
  BY <1>1 DEF LedgerInv, ReservationHeld
<1>7. RowsBounded' /\ CapOnEveryDay' /\ SpendCovered'
  BY <1>5 DEF LedgerInv, RowsBounded, SpendCovered, CapOnEveryDay, Amounts, CountedOn
<1>8. ReservationHeld'
  BY <1>1, <1>4, <1>5, <1>6, OnlyOne DEF ReservationHeld
<1>9. CallAccounted'
  BY <1>1, <1>3, <1>4, <1>5, OnlyOne DEF CallAccounted
<1> QED
  BY <1>7, <1>8, <1>9 DEF LedgerInv

LEMMA LedgerComplete ==
    ASSUME TypeOK, TypeOK', RunningHolds, LedgerInv, NEW t \in Tasks,
           Complete(t) \/ CompleteAsUnknown(t)
    PROVE  LedgerInv'
<1>1. tasks[t].pc = "record" /\ Step(t) /\ UNCHANGED <<signed, day>>
  BY DEF Complete, CompleteAsUnknown, At, Step
<1>2. /\ Key(t) \in Keys /\ Supplier(t) \in Suppliers /\ Key(t)[2] = Supplier(t)
      /\ MaxAmount[Supplier(t)] \in Nat /\ tasks[t] \in Task
  BY <1>1, PlanType DEF Key
<1>3. /\ purchases[Key(t)].status = "RESERVED"
      /\ purchases[Key(t)].amount = MaxAmount[Supplier(t)]
      /\ tasks[t].price \in Nat /\ tasks[t].price <= MaxAmount[Supplier(t)]
      /\ signed[Key(t)] \in Nat /\ signed[Key(t)] <= tasks[t].price
      /\ signed[Key(t)] > 0 => tasks[t].outcome \in {"FULFILLED", "UNKNOWN"}
  BY <1>1, <1>2 DEF LedgerInv, ReservationHeld, CallAccounted, Task, TypeOK
<1>4. PICK outcome \in {"none", "FULFILLED", "UNKNOWN", "FAILED_PRE_PAYMENT"}, amount \in Nat :
        /\ AfterAttempt(t, outcome, amount)
        /\ purchases' = [purchases EXCEPT ![Key(t)].status = outcome,
                                          ![Key(t)].amount = amount]
        /\ signed[Key(t)] <= amount /\ amount <= MaxAmount[Supplier(t)]
        /\ signed[Key(t)] > 0 => outcome \in {"FULFILLED", "UNKNOWN"}
  <2>1. CASE Complete(t)
    <3>1. /\ AfterAttempt(t, tasks[t].outcome, tasks[t].price)
          /\ purchases' = [purchases EXCEPT ![Key(t)].status = tasks[t].outcome,
                                            ![Key(t)].amount = tasks[t].price]
      BY <2>1 DEF Complete
    <3>2. tasks[t].outcome \in {"none", "FULFILLED", "UNKNOWN", "FAILED_PRE_PAYMENT"}
      BY <1>2 DEF Task
    <3> QED
      BY <1>3, <3>1, <3>2
  <2>2. CASE CompleteAsUnknown(t)
    <3>1. /\ AfterAttempt(t, "UNKNOWN", MaxAmount[Supplier(t)])
          /\ purchases' = [purchases EXCEPT ![Key(t)].status = "UNKNOWN",
                                            ![Key(t)].amount = MaxAmount[Supplier(t)]]
      BY <2>2 DEF CompleteAsUnknown
    <3>2. /\ signed[Key(t)] <= MaxAmount[Supplier(t)]
          /\ MaxAmount[Supplier(t)] <= MaxAmount[Supplier(t)]
      BY <1>2, <1>3
    <3> QED
      BY <1>2, <3>1, <3>2
  <2> QED
    BY <2>1, <2>2
<1>5. tasks'[t].pc \notin {"call", "paid", "record"}
  BY <1>4 DEF AfterAttempt, TypeOK
<1>6. \A u \in Tasks : tasks'[u].pc \notin {"call", "paid", "record"}
  BY <1>1, <1>5, OnlyOne
<1>7. ReservationHeld' /\ CallAccounted'
  BY <1>6 DEF ReservationHeld, CallAccounted
<1>8. RowsBounded'
  BY <1>1, <1>2, <1>4 DEF LedgerInv, RowsBounded, TypeOK, PurchaseRow
<1>9. SpendCovered'
  <2> SUFFICES ASSUME NEW k \in Keys, signed[k] > 0
               PROVE  purchases'[k].status \in Counted /\ signed[k] <= purchases'[k].amount
    BY <1>1 DEF SpendCovered
  <2>1. CASE k = Key(t)
    <3>1. purchases'[k].status = outcome /\ purchases'[k].amount = amount
      BY <1>2, <1>4, <2>1 DEF TypeOK, PurchaseRow
    <3> QED
      BY <1>4, <2>1, <3>1 DEF Counted
  <2>2. CASE k # Key(t)
    <3>1. purchases'[k] = purchases[k]
      BY <1>4, <2>2 DEF TypeOK
    <3> QED
      BY <3>1 DEF LedgerInv, SpendCovered
  <2> QED
    BY <2>1, <2>2
<1>10. CapOnEveryDay'
  BY <1>2, <1>3, <1>4, SettlementWithinCap DEF LedgerInv
<1> QED
  BY <1>7, <1>8, <1>9, <1>10 DEF LedgerInv

\* Every other step of a call.
LEMMA LedgerStep ==
    ASSUME TypeOK, TypeOK', RunningHolds, LedgerInv, NEW t \in Tasks, Step(t)
    PROVE  LedgerInv'
<1>1. CASE Reserve(t)
  BY <1>1, LedgerReserve
<1>2. CASE Sign(t) \/ PaidCall(t) \/ UnpaidCall(t) \/ BrokenCall(t)
  BY <1>2, LedgerSign, LedgerSupplierCall
<1>3. CASE Complete(t) \/ CompleteAsUnknown(t)
  BY <1>3, LedgerComplete
<1>4. CASE \/ Begin(t) \/ FailRequest(t) \/ Prepare(t) \/ FailPreparation(t)
           \/ FinishRequest(t) \/ DatabaseError(t)
  <2>1. UNCHANGED <<purchases, signed, day>>
    BY <1>4 DEF Begin, FailRequest, Prepare, FailPreparation, FinishRequest, DatabaseError
  <2>2. tasks'[t].pc \notin {"call", "paid", "record"}
    <3>1. tasks[t] \in Task
      BY OthersKeep, PlanType
    <3> QED
      BY <1>4, <3>1 DEF Begin, FailRequest, Prepare, FailPreparation, FinishRequest,
                     DatabaseError, Leave, Ended, Locals, TypeOK, Task
  <2> QED
    BY <2>1, <2>2, LedgerUntouched
<1> QED
  BY <1>1, <1>2, <1>3, <1>4 DEF Step

-----------------------------------------------------------------------------
(* The theorems *)

LEMMA InitIInv == Init => IInv
<1> SUFFICES ASSUME Init
             PROVE  IInv
  OBVIOUS
<1>1. TypeOK
  <2>1. \A t \in Tasks : tasks[t] = IdleTask
    BY DEF Init
  <2>2. NoPurchase \in PurchaseRow
    BY DEF NoPurchase, PurchaseRow
  <2>3. <<>> \in Seq(Tasks)
    OBVIOUS
  <2> QED
    BY <2>1, <2>2, <2>3 DEF Init, TypeOK
<1>2. \A t \in Tasks : tasks[t].pc = "idle"
  BY DEF Init, IdleTask
<1>3. RunningHolds /\ ReservationHeld /\ CallAccounted
  BY <1>2 DEF RunningHolds, Running, ReservationHeld, CallAccounted
<1>4. RowsBounded /\ SpendCovered
  <2>1. \A k \in Keys : MaxAmount[k[2]] \in Nat
    BY ConstantsAssumption DEF Keys
  <2> QED
    BY <2>1 DEF Init, RowsBounded, SpendCovered, NoPurchase
<1>5. CapOnEveryDay
  <2> SUFFICES ASSUME NEW d \in Nat
               PROVE  Total(Amounts, CountedOn(d)) <= DailyCap
    BY DEF CapOnEveryDay
  <2>1. CountedOn(d) = {}
    BY DEF Init, CountedOn, Counted, NoPurchase
  <2>2. Units(Amounts, {}) = {}
    BY DEF Units
  <2>3. Total(Amounts, {}) = 0
    BY <2>2, FS_EmptySet DEF Total
  <2> QED
    BY <2>1, <2>3, ConstantsAssumption
<1> QED
  BY <1>1, <1>3, <1>4, <1>5 DEF IInv

LEMMA NextIInv == IInv /\ [Next]_vars => IInv'
<1> SUFFICES ASSUME IInv, [Next]_vars
             PROVE  IInv'
  OBVIOUS
<1>1. TypeOK' /\ RunningHolds'
  BY TypeStep, RunningHoldsStep DEF IInv
<1>2. LedgerInv
  BY DEF IInv, LedgerInv
<1>3. LedgerInv'
  <2>1. CASE \E t \in Tasks : Step(t)
    BY <1>1, <1>2, <2>1, LedgerStep DEF IInv
  <2>2. CASE \E t \in Tasks, p \in Payments, r \in Requests : Call(t, p, r)
    <3>1. \A u \in Tasks : tasks'[u].pc \in {"call", "paid", "record"} => tasks'[u] = tasks[u]
      BY <2>2 DEF Call, Locals, IInv, TypeOK
    <3>2. UNCHANGED <<purchases, signed, day>>
      BY <2>2 DEF Call
    <3> QED
      BY <1>2, <3>1, <3>2 DEF LedgerInv, ReservationHeld, CallAccounted, Key, Supplier,
           RowsBounded, SpendCovered, CapOnEveryDay, Amounts, CountedOn
  <2>3. CASE Midnight
    <3>1. RowsBounded'
      BY <1>2, <2>3 DEF Midnight, LedgerInv, RowsBounded, IInv, TypeOK, PurchaseRow
    <3> QED
      BY <1>2, <2>3, <3>1 DEF Midnight, LedgerInv, ReservationHeld, CallAccounted, Key, Supplier,
           SpendCovered, CapOnEveryDay, Amounts, CountedOn
  <2>4. CASE Restart
    <3>1. \A u \in Tasks : tasks'[u].pc \notin {"call", "paid", "record"}
      BY <2>4 DEF Restart, Ended, Locals, IInv, TypeOK
    <3>2. ReservationHeld' /\ CallAccounted'
      BY <3>1 DEF ReservationHeld, CallAccounted
    <3>3. UNCHANGED <<purchases, signed, day>>
      BY <2>4 DEF Restart
    <3>4. RowsBounded' /\ CapOnEveryDay' /\ SpendCovered'
      BY <1>2, <3>3 DEF LedgerInv, RowsBounded, SpendCovered, CapOnEveryDay, Amounts, CountedOn
    <3> QED
      BY <3>2, <3>4 DEF LedgerInv
  <2>5. CASE UNCHANGED vars \/ \E k \in Keys : Charge(k)
    BY <1>2, <2>5 DEF vars, Charge, LedgerInv, ReservationHeld, CallAccounted, Key, Supplier,
         RowsBounded, SpendCovered, CapOnEveryDay, Amounts, CountedOn
  <2> QED
    BY <2>1, <2>2, <2>3, <2>4, <2>5 DEF Next
<1> QED
  BY <1>1, <1>3 DEF IInv, LedgerInv

\* Every reachable state satisfies the inductive invariant.
THEOREM Invariance == Spec => []IInv
<1> QED
  BY InitIInv, NextIInv, PTL DEF Spec

\* The broker's tables, locks and calls keep their types, and a call never
\* leaves the plan of its product.
THEOREM TypeCorrect == Spec => []TypeOK
<1>1. IInv => TypeOK
  BY DEF IInv
<1> QED
  BY <1>1, Invariance, PTL

\* On no UTC day do reservations and recorded spending exceed the daily cap, for
\* any number of payments and calls, any prices, and any failures and restarts.
THEOREM DailyCapTheorem == Spec => []DailyCapHeld
<1>1. IInv => DailyCapHeld
  BY ConstantsAssumption DEF IInv, CapOnEveryDay, DailyCapHeld
<1> QED
  BY <1>1, Invariance, PTL

\* No supplier ever holds a payment that the ledger does not hold, at its full
\* amount, on a row that counts towards the cap.
THEOREM SpendCoveredTheorem == Spec => []SpendCovered
<1>1. IInv => SpendCovered
  BY DEF IInv
<1> QED
  BY <1>1, Invariance, PTL

-----------------------------------------------------------------------------
(***************************************************************************)
(* The broker's ledger implements the abstract budget of SupplierBudget,   *)
(* for any payments, requests, calls, prices and cap.                      *)
(***************************************************************************)

\* What the refinement needs beyond IInv: a row that does not count holds
\* nothing, one that is absent was never dated, and a failure before payment
\* will be recorded at no cost.
RowsPlain ==
    /\ \A k \in Keys :
          /\ purchases[k].status \notin Counted => purchases[k].amount = 0
          /\ purchases[k].status = "ABSENT" => purchases[k].day = 0
    /\ \A t \in Tasks :
          tasks[t].pc = "record" /\ tasks[t].outcome = "FAILED_PRE_PAYMENT"
              => tasks[t].price = 0

\* The refinement mapping.
Held == [k \in Keys |-> [amount |-> purchases[k].amount, day |-> purchases[k].day,
                         open |-> purchases[k].status = "RESERVED"]]
MappedUnchanged == UNCHANGED <<Held, signed, day>>
-----------------------------------------------------------------------------
(* RowsPlain is an invariant *)

LEMMA RowsPlainInit == Init => RowsPlain
BY DEF Init, RowsPlain, NoPurchase, IdleTask

\* A step that writes no row and enters no "record" preserves it.
LEMMA RowsPlainUntouched ==
    ASSUME RowsPlain, UNCHANGED purchases,
           \A u \in Tasks : tasks'[u].pc = "record" => tasks'[u] = tasks[u]
    PROVE  RowsPlain'
BY DEF RowsPlain

LEMMA RowsPlainStep ==
    ASSUME IInv, RowsPlain, NEW t \in Tasks, Step(t)
    PROVE  RowsPlain'
<1>1. TypeOK /\ tasks[t].pc # "idle" /\ tasks[t] \in Task /\ Key(t) \in Keys
  BY OthersKeep, PlanType DEF IInv
<1>2. \A u \in Tasks \ {t} : tasks'[u] = tasks[u]
  BY <1>1, OthersKeep
<1>3. CASE Reserve(t)
  <2>1. tasks'[t].pc # "record"
    BY <1>1, <1>3 DEF Reserve, AfterAttempt, TypeOK, Task
  <2>2. \/ UNCHANGED purchases
        \/ \E row \in [status : {"RESERVED"}, amount : Nat, day : Nat] :
              purchases' = [purchases EXCEPT ![Key(t)] = row]
    BY <1>1, <1>3, PlanType DEF Reserve, TypeOK
  <2> QED
    BY <1>1, <1>2, <2>1, <2>2 DEF RowsPlain, Counted, TypeOK
<1>4. CASE PaidCall(t) \/ UnpaidCall(t) \/ BrokenCall(t)
  <2>1. PICK outcome \in {"FULFILLED", "UNKNOWN", "FAILED_PRE_PAYMENT"}, price \in Nat :
           /\ EndCall(t, outcome, price)
           /\ outcome = "FAILED_PRE_PAYMENT" => price = 0
    BY <1>1, <1>4, CallEnds DEF IInv, LedgerInv
  <2>2. /\ tasks'[t].outcome = outcome /\ tasks'[t].price = price /\ UNCHANGED purchases
    BY <1>1, <2>1 DEF EndCall, TypeOK, Task
  <2> QED
    BY <1>2, <2>1, <2>2 DEF RowsPlain
<1>5. CASE Complete(t) \/ CompleteAsUnknown(t)
  <2>1. tasks'[t].pc # "record"
    BY <1>1, <1>5 DEF Complete, CompleteAsUnknown, AfterAttempt, TypeOK
  <2>2. tasks[t].pc = "record" /\ tasks[t].outcome \in Counted \cup {"FAILED_PRE_PAYMENT"}
    BY <1>5 DEF Complete, CompleteAsUnknown, At, IInv, CallAccounted, Counted
  <2>3. PICK outcome \in Counted \cup {"FAILED_PRE_PAYMENT"}, amount \in Nat :
           /\ purchases' = [purchases EXCEPT ![Key(t)].status = outcome,
                                             ![Key(t)].amount = amount]
           /\ outcome = "FAILED_PRE_PAYMENT" => amount = 0
    <3>1. /\ tasks[t].outcome \in Counted \cup {"FAILED_PRE_PAYMENT"}
          /\ tasks[t].price \in Nat /\ MaxAmount[Supplier(t)] \in Nat
          /\ "UNKNOWN" \in Counted \cup {"FAILED_PRE_PAYMENT"}
      BY <1>1, <2>2, PlanType DEF Task, Counted
    <3>2. tasks[t].outcome = "FAILED_PRE_PAYMENT" => tasks[t].price = 0
      BY <2>2 DEF RowsPlain
    <3>3. CASE Complete(t)
      BY <3>1, <3>2, <3>3, Zenon DEF Complete
    <3>4. CASE CompleteAsUnknown(t)
      BY <3>1, <3>4 DEF CompleteAsUnknown
    <3> QED
      BY <1>5, <3>3, <3>4
  <2>4. /\ purchases'[Key(t)].status = outcome /\ purchases'[Key(t)].amount = amount
        /\ \A k \in Keys \ {Key(t)} : purchases'[k] = purchases[k]
    BY <1>1, <2>3 DEF TypeOK, PurchaseRow
  <2> QED
    BY <1>2, <2>1, <2>3, <2>4 DEF RowsPlain, Counted
<1>6. CASE \/ Begin(t) \/ Sign(t) \/ FailRequest(t) \/ Prepare(t) \/ FailPreparation(t)
           \/ FinishRequest(t) \/ DatabaseError(t)
  <2>1. UNCHANGED purchases /\ tasks'[t].pc # "record"
    BY <1>1, <1>6 DEF Begin, Sign, FailRequest, Prepare, FailPreparation, FinishRequest,
                   DatabaseError, Leave, Ended, Locals, TypeOK, Task
  <2> QED
    BY <1>2, <2>1, RowsPlainUntouched
<1> QED
  BY <1>3, <1>4, <1>5, <1>6 DEF Step

LEMMA RowsPlainNext == IInv /\ RowsPlain /\ [Next]_vars => RowsPlain'
<1> SUFFICES ASSUME IInv, RowsPlain, [Next]_vars
             PROVE  RowsPlain'
  OBVIOUS
<1>1. CASE \E t \in Tasks : Step(t)
  BY <1>1, RowsPlainStep
<1>2. CASE \/ \E t \in Tasks, p \in Payments, r \in Requests : Call(t, p, r)
           \/ (\E k \in Keys : Charge(k)) \/ Midnight \/ Restart \/ UNCHANGED vars
  <2>1. UNCHANGED purchases
    BY <1>2 DEF Call, Charge, Midnight, Restart, vars
  <2>2. \A u \in Tasks : tasks'[u].pc = "record" => tasks'[u] = tasks[u]
    <3>1. CASE \E t \in Tasks, p \in Payments, r \in Requests : Call(t, p, r)
      BY <3>1 DEF Call, Locals, IInv, TypeOK
    <3>2. CASE (\E k \in Keys : Charge(k)) \/ Midnight \/ UNCHANGED vars
      BY <3>2 DEF Charge, Midnight, vars
    <3>3. CASE Restart
      BY <3>3 DEF Restart, Locals, Ended
    <3> QED
      BY <1>2, <3>1, <3>2, <3>3
  <2> QED
    BY <2>1, <2>2, RowsPlainUntouched
<1> QED
  BY <1>1, <1>2 DEF Next
-----------------------------------------------------------------------------
(* The steps *)

\* The budget counts as the broker does.
LEMMA BudgetCardinality == \A S : Budget!Cardinality(S) = Cardinality(S)
BY DEF Budget!Cardinality, Cardinality

\* What the abstract budget holds today is what _reserve_supplier adds up.
LEMMA HeldToday ==
    ASSUME TypeOK, RowsBounded, RowsPlain
    PROVE  Budget!HeldOn(day) = Total(Amounts, CountedSince(day))
<1> DEFINE Today == {k \in Keys : purchases[k].day = day}
<1>1. CountedSince(day) = {k \in Today : purchases[k].status \in Counted}
  <2>1. \A k \in Keys : purchases[k].day \in Nat /\ purchases[k].day <= day /\ day \in Nat
    BY DEF RowsBounded, TypeOK, PurchaseRow
  <2>2. \A k \in Keys : purchases[k].day >= day <=> purchases[k].day = day
    BY <2>1
  <2> QED
    BY <2>2 DEF CountedSince
<1>2. \A k \in Keys : purchases[k].status \notin Counted => 1..Amounts[k] = {}
  BY DEF RowsPlain, Amounts
<1>3. Units(Amounts, Today) = Units(Amounts, CountedSince(day))
  <2>1. \A k \in Today : k \notin CountedSince(day) => {k} \X (1..Amounts[k]) = {}
    BY <1>1, <1>2
  <2>2. CountedSince(day) \subseteq Today
    BY <1>1
  <2> HIDE DEF Today
  <2> QED
    BY <2>1, <2>2 DEF Units
<1>4. Budget!HeldOn(day) = Cardinality(Units(Amounts, Today))
  <2>1. [k \in Keys |-> Held[k].amount] = Amounts
    BY DEF Held, Amounts
  <2>2. {k \in Keys : Held[k].day = day} = Today
    BY DEF Held
  <2>3. Budget!HeldOn(day) = Cardinality(Units([k \in Keys |-> Held[k].amount],
                                               {k \in Keys : Held[k].day = day}))
    BY BudgetCardinality DEF Budget!HeldOn, Budget!Total, Budget!Units, Units, Held
  <2> QED
    BY <2>1, <2>2, <2>3
<1> QED
  BY <1>3, <1>4 DEF Total

\* A reservation is Hold.
LEMMA ReserveHolds ==
    ASSUME IInv, RowsPlain, NEW t \in Tasks, Reserve(t)
    PROVE  (\E k \in Keys : Budget!Hold(k)) \/ MappedUnchanged
<1>1. /\ TypeOK /\ tasks[t].pc # "idle" /\ Key(t) \in Keys /\ Key(t)[2] = Supplier(t)
      /\ UNCHANGED <<signed, day>>
  BY PlanType DEF IInv, Reserve, At, Key
<1>2. CASE UNCHANGED purchases
  BY <1>1, <1>2 DEF MappedUnchanged, Held
<1>3. CASE /\ FitsCap(Supplier(t)) /\ purchases[Key(t)].status = "ABSENT"
           /\ purchases' = [purchases EXCEPT ![Key(t)] =
                  [status |-> "RESERVED", amount |-> MaxAmount[Supplier(t)], day |-> day]]
  <2>1. Held[Key(t)] = [amount |-> 0, day |-> 0, open |-> FALSE]
    BY <1>1, <1>3 DEF Held, RowsPlain, Counted
  <2>2. Budget!HeldOn(day) + MaxAmount[Key(t)[2]] <= DailyCap
    BY <1>1, <1>3, HeldToday DEF IInv, FitsCap
  <2>3. Held' = [Held EXCEPT ![Key(t)] =
                    [amount |-> MaxAmount[Key(t)[2]], day |-> day, open |-> TRUE]]
    BY <1>1, <1>3 DEF Held, TypeOK
  <2> QED
    BY <1>1, <2>1, <2>2, <2>3 DEF Budget!Hold, Budget!Nothing, Held
<1> QED
  BY <1>2, <1>3 DEF Reserve

\* A payment that is signed is Sign.
LEMMA SignSigns ==
    ASSUME IInv, NEW t \in Tasks, Sign(t)
    PROVE  \E k \in Keys : Budget!Sign(k)
<1>1. TypeOK /\ tasks[t].pc = "call" /\ Key(t) \in Keys /\ UNCHANGED <<purchases, day>>
  BY PlanType DEF IInv, Sign, At
<1>2. PICK price \in Nat \ {0} : /\ price <= MaxAmount[Supplier(t)]
                               /\ signed' = [signed EXCEPT ![Key(t)] = price]
  BY ConstantsAssumption DEF Sign, Acceptable
<1>3. /\ Held[Key(t)].open = TRUE /\ Held[Key(t)].amount = MaxAmount[Supplier(t)]
      /\ signed[Key(t)] = 0
  BY <1>1 DEF IInv, ReservationHeld, CallAccounted, Held
<1>4. Held' = Held
  BY <1>1 DEF Held
<1>5. price \in 1..Held[Key(t)].amount
  <2>1. MaxAmount[Supplier(t)] \in Nat
    BY <1>1, PlanType
  <2> QED
    BY <1>2, <1>3, <2>1
<1> QED
  BY <1>1, <1>2, <1>3, <1>4, <1>5 DEF Budget!Sign, Held

\* Recording an outcome is Settle.
LEMMA CompleteSettles ==
    ASSUME IInv, NEW t \in Tasks, Complete(t) \/ CompleteAsUnknown(t)
    PROVE  \E k \in Keys : Budget!Settle(k)
<1>1. /\ TypeOK /\ tasks[t].pc = "record" /\ Key(t) \in Keys /\ tasks[t] \in Task
      /\ MaxAmount[Supplier(t)] \in Nat /\ UNCHANGED <<signed, day>>
  BY PlanType DEF IInv, Complete, CompleteAsUnknown, At
<1>2. /\ purchases[Key(t)].status = "RESERVED"
      /\ purchases[Key(t)].amount = MaxAmount[Supplier(t)]
      /\ tasks[t].price \in Nat /\ tasks[t].price <= MaxAmount[Supplier(t)]
      /\ signed[Key(t)] \in Nat /\ signed[Key(t)] <= tasks[t].price
      /\ tasks[t].outcome # "RESERVED"
  BY <1>1 DEF IInv, ReservationHeld, CallAccounted, TypeOK, Task
<1>3. PICK outcome \in {"FULFILLED", "UNKNOWN", "FAILED_PRE_PAYMENT"},
            amount \in signed[Key(t)]..Held[Key(t)].amount :
         /\ purchases' = [purchases EXCEPT ![Key(t)].status = outcome,
                                           ![Key(t)].amount = amount]
         /\ outcome # "RESERVED"
  <2>1. Held[Key(t)].amount = MaxAmount[Supplier(t)]
    BY <1>1, <1>2 DEF Held
  <2>2. /\ tasks[t].price \in signed[Key(t)]..Held[Key(t)].amount
        /\ MaxAmount[Supplier(t)] \in signed[Key(t)]..Held[Key(t)].amount
    BY <1>1, <1>2, <2>1
  <2>3. /\ tasks[t].outcome \in {"FULFILLED", "UNKNOWN", "FAILED_PRE_PAYMENT"}
        /\ "UNKNOWN" # "RESERVED"
    BY <1>1 DEF IInv, CallAccounted
  <2>4. CASE Complete(t)
    BY <1>2, <2>2, <2>3, <2>4 DEF Complete
  <2>5. CASE CompleteAsUnknown(t)
    BY <2>2, <2>3, <2>5 DEF CompleteAsUnknown
  <2> QED
    BY <2>4, <2>5
<1>4. Held' = [Held EXCEPT ![Key(t)].amount = amount, ![Key(t)].open = FALSE]
  <2>1. purchases'[Key(t)] =
           [status |-> outcome, amount |-> amount, day |-> purchases[Key(t)].day]
    BY <1>1, <1>3 DEF TypeOK, PurchaseRow
  <2>2. \A k \in Keys \ {Key(t)} : purchases'[k] = purchases[k]
    BY <1>1, <1>3 DEF TypeOK
  <2>3. Held'[Key(t)] =
           [amount |-> amount, day |-> Held[Key(t)].day, open |-> FALSE]
    <3>1. /\ purchases'[Key(t)].amount = amount
          /\ purchases'[Key(t)].day = purchases[Key(t)].day
          /\ (purchases'[Key(t)].status = "RESERVED") = FALSE
      BY <1>3, <2>1
    <3> QED
      BY <1>1, <3>1 DEF Held
  <2>4. \A k \in Keys \ {Key(t)} : Held'[k] = Held[k]
    BY <2>2 DEF Held
  <2>5. DOMAIN Held = Keys /\ DOMAIN Held' = Keys /\ Held = [k \in Keys |-> Held[k]]
        /\ Held' = [k \in Keys |-> Held'[k]]
        /\ Held[Key(t)] = [amount |-> Held[Key(t)].amount, day |-> Held[Key(t)].day,
                           open |-> Held[Key(t)].open]
    BY <1>1 DEF Held
  <2> HIDE DEF Held
  <2> QED
    BY <1>1, <2>3, <2>4, <2>5
<1>5. Held[Key(t)].open = TRUE
  BY <1>1, <1>2 DEF Held
<1> QED
  BY <1>1, <1>3, <1>4, <1>5 DEF Budget!Settle, Held

\* Every step of the broker is a step of the budget, or leaves it as it is.
LEMMA StepSimulates ==
    ASSUME IInv, RowsPlain, [Next]_vars
    PROVE  [Budget!Next]_(Budget!vars)
<1>1. ASSUME MappedUnchanged
      PROVE  UNCHANGED Budget!vars
  BY <1>1 DEF MappedUnchanged, Held, Budget!vars
<1>2. ASSUME NEW k \in Keys, Budget!Hold(k) \/ Budget!Sign(k) \/ Budget!Settle(k)
      PROVE  Budget!Next
  BY <1>2 DEF Budget!Next
<1>3. CASE \E t \in Tasks : Step(t)
  <2>1. PICK t \in Tasks : Step(t)
    BY <1>3
  <2>2. CASE Reserve(t)
    BY <1>1, <1>2, <2>2, ReserveHolds
  <2>3. CASE Sign(t)
    BY <1>2, <2>3, SignSigns
  <2>4. CASE Complete(t) \/ CompleteAsUnknown(t)
    BY <1>2, <2>4, CompleteSettles
  <2>5. CASE \/ Begin(t) \/ FailRequest(t) \/ Prepare(t) \/ FailPreparation(t)
             \/ FinishRequest(t) \/ DatabaseError(t)
             \/ PaidCall(t) \/ UnpaidCall(t) \/ BrokenCall(t)
    <3>1. MappedUnchanged
      BY <2>5 DEF Begin, FailRequest, Prepare, FailPreparation, FinishRequest,
           DatabaseError, PaidCall, UnpaidCall, BrokenCall, EndCall, MappedUnchanged, Held
    <3> QED
      BY <1>1, <3>1
  <2> QED
    BY <2>1, <2>2, <2>3, <2>4, <2>5 DEF Step
<1>4. CASE \E t \in Tasks, p \in Payments, r \in Requests : Call(t, p, r)
  <2>1. MappedUnchanged
    BY <1>4 DEF Call, MappedUnchanged, Held
  <2> QED
    BY <1>1, <2>1
<1>5. CASE Midnight
  <2>1. Budget!NextDay
    BY <1>5 DEF Midnight, Budget!NextDay
  <2> QED
    BY <2>1 DEF Budget!Next
<1>6. CASE Restart \/ (\E k \in Keys : Charge(k)) \/ UNCHANGED vars
  <2>1. MappedUnchanged
    BY <1>6 DEF Restart, Charge, vars, MappedUnchanged, Held
  <2> QED
    BY <1>1, <2>1
<1> QED
  BY <1>3, <1>4, <1>5, <1>6 DEF Next

LEMMA InitSimulates == Init => Budget!Init
<1> SUFFICES ASSUME Init
             PROVE  Budget!Init
  OBVIOUS
<1>1. \A k \in Keys : /\ purchases[k].amount = 0 /\ purchases[k].day = 0
                      /\ (purchases[k].status = "RESERVED") = FALSE
                      /\ signed[k] = 0
  BY DEF Init, NoPurchase
<1> QED
  BY <1>1 DEF Init, Budget!Init, Budget!Nothing

\* The broker's supplier ledger implements the abstract budget: a payment is signed
\* only for what was set aside under the cap, once, and settled at no less.
THEOREM ImplementsBudget == Spec => WithinBudget
<1>1. Spec => []RowsPlain
  BY RowsPlainInit, RowsPlainNext, Invariance, PTL DEF Spec
<1>2. IInv /\ RowsPlain /\ [Next]_vars => [Budget!Next]_(Budget!vars)
  BY StepSimulates
<1> QED
  BY <1>1, <1>2, InitSimulates, Invariance, PTL DEF Spec, WithinBudget, Budget!Spec
-----------------------------------------------------------------------------
(***************************************************************************)
(* The two tables of one payment: what its request says and what its       *)
(* supplier rows hold, for any payments, requests, calls and prices.       *)
(***************************************************************************)

\* A call under way holds the claim of its payment, for its own request.
ClaimHeld ==
    \A t \in Tasks : Running(t) =>
        /\ requests[tasks[t].payment].status = "IN_PROGRESS"
        /\ requests[tasks[t].payment].request = tasks[t].request

\* The row of the opening purchase of a plan.
OpeningRow(p, r) == purchases[<<p, Plan(Product[r])[1]>>]

\* A call goes beyond its first stage only once the opening purchase is FULFILLED.
Opened ==
    \A t \in Tasks :
        /\ tasks[t].pc = "begin" => tasks[t].stage = 1
        /\ Running(t) /\ tasks[t].stage > 1 =>
              OpeningRow(tasks[t].payment, tasks[t].request).status = "FULFILLED"

\* A row that holds money belongs to the plan its payment was claimed for, and is
\* the opening one unless that one is FULFILLED.
Bought(p) ==
    LET plan == Plan(Product[requests[p].request])
    IN IF OpeningRow(p, requests[p].request).status = "FULFILLED"
       THEN {plan[i] : i \in DOMAIN plan} ELSE {plan[1]}
RowsBought ==
    \A k \in Keys : purchases[k].amount > 0 =>
        requests[k[1]].status # "ABSENT" /\ k[2] \in Bought(k[1])

\* The cost a call has added up is what its rows hold, the open one excepted.
OpenRow(t) == IF tasks[t].pc \in {"call", "paid", "record"} THEN {Key(t)} ELSE {}
CostTracked ==
    \A t \in Tasks :
        /\ tasks[t].pc = "begin" => tasks[t].cost = 0
        /\ Running(t) =>
              tasks[t].cost = Total(Amounts, RowsOf(tasks[t].payment) \ OpenRow(t))

\* Money is taken only on a payment that was signed, no earlier than its row was
\* reserved.
ChargeDays ==
    \A k \in Keys : charged[k] > 0 => signed[k] > 0 /\ purchases[k].day <= charged[k]

\* Rows count from day 1 on, and the rows of the first d days hold at most d caps.
Dated == day > 0 /\ \A k \in Keys : purchases[k].status \in Counted => purchases[k].day > 0
CountedUpTo(d) == {k \in Keys : purchases[k].status \in Counted /\ purchases[k].day <= d}
BookedBy == \A d \in 0..day : Total(Amounts, CountedUpTo(d)) <= d * DailyCap

-----------------------------------------------------------------------------
(* What a step of a call touches *)

\* Nobody else runs when a call steps.
LEMMA OneRuns ==
    ASSUME TypeOK, RunningHolds, NEW t \in Tasks, Step(t),
           NEW u \in Tasks, Running(u) \/ Running(u)'
    PROVE  u = t
BY OthersKeep DEF RunningHolds, Running, Holds

\* A call keeps its payment and its request, and touches only their rows.
LEMMA StepShape ==
    ASSUME TypeOK, NEW t \in Tasks, Step(t)
    PROVE  /\ tasks[t] \in Task /\ Key(t) \in Keys
           /\ tasks'[t].payment = tasks[t].payment /\ tasks'[t].request = tasks[t].request
           /\ \A k \in Keys \ {Key(t)} : purchases'[k] = purchases[k]
           /\ \A p \in Payments \ {tasks[t].payment} : requests'[p] = requests[p]
           /\ ~Running(t) => UNCHANGED purchases
           /\ UNCHANGED day
<1>1. tasks[t].pc # "idle" /\ tasks[t] \in Task /\ Key(t) \in Keys
  BY OthersKeep, PlanType
<1>2. tasks'[t].payment = tasks[t].payment /\ tasks'[t].request = tasks[t].request
  BY <1>1 DEF Step, Begin, Reserve, Sign, PaidCall, UnpaidCall, BrokenCall, Complete,
       CompleteAsUnknown, FailRequest, Prepare, FailPreparation, FinishRequest, DatabaseError,
       EndCall, Leave, Ended, Locals, AfterAttempt, TypeOK, Task
<1>3. \A k \in Keys \ {Key(t)} : purchases'[k] = purchases[k]
  BY <1>1 DEF Step, Begin, Reserve, Sign, PaidCall, UnpaidCall, BrokenCall, Complete,
       CompleteAsUnknown, FailRequest, Prepare, FailPreparation, FinishRequest, DatabaseError,
       EndCall, TypeOK
<1>4. \A p \in Payments \ {tasks[t].payment} : requests'[p] = requests[p]
  BY DEF Step, Begin, Reserve, Sign, PaidCall, UnpaidCall, BrokenCall, Complete,
       CompleteAsUnknown, FailRequest, Prepare, FailPreparation, FinishRequest, DatabaseError,
       EndCall, CloseRequest, TypeOK
<1>5. ~Running(t) => UNCHANGED purchases
  BY <1>1 DEF Step, Begin, Reserve, Sign, PaidCall, UnpaidCall, BrokenCall, Complete,
       CompleteAsUnknown, FailRequest, Prepare, FailPreparation, FinishRequest, DatabaseError,
       EndCall, At, Running
<1>6. UNCHANGED day
  BY DEF Step, Begin, Reserve, Sign, PaidCall, UnpaidCall, BrokenCall, Complete,
       CompleteAsUnknown, FailRequest, Prepare, FailPreparation, FinishRequest, DatabaseError,
       EndCall
<1> QED
  BY <1>1, <1>2, <1>3, <1>4, <1>5, <1>6

\* The claim of a payment, and the close of its request.
Claims(t) ==
    /\ tasks[t].pc = "begin" /\ tasks'[t].pc = "reserve" /\ tasks'[t].cost = tasks[t].cost
    /\ tasks'[t].stage = tasks[t].stage
    /\ requests[tasks[t].payment].status = "ABSENT"
    /\ requests'[tasks[t].payment] =
           [status |-> "IN_PROGRESS", request |-> tasks[t].request, cost |-> 0]
    /\ UNCHANGED purchases
Closes(t, status) ==
    /\ tasks[t].pc \in {"fail", "unprepared", "finish"} /\ tasks'[t].pc = "done"
    /\ CloseRequest(t, status)
    /\ tasks'[t].reply = "prepared" => status = "COMPLETED"
    /\ tasks'[t].reply # "replay"
    /\ UNCHANGED purchases
Refuses(t) ==
    /\ tasks[t].pc = "begin" /\ tasks'[t].pc = "done"
    /\ tasks'[t].reply # "prepared"
    /\ tasks'[t].reply = "replay" => Replayable(t)
    /\ UNCHANGED <<requests, purchases>>
Breaks(t) ==
    /\ tasks'[t].pc = "done" /\ tasks'[t].reply = "error"
    /\ UNCHANGED <<requests, purchases>>
Attempts(t) == Running(t) /\ Running(t)' /\ UNCHANGED requests

\* Every step of a call claims, closes, is refused, breaks off, or goes on.
LEMMA StepKinds ==
    ASSUME TypeOK, NEW t \in Tasks, Step(t)
    PROVE  \/ Claims(t) \/ Refuses(t) \/ Breaks(t) \/ Attempts(t)
           \/ \E status \in Terminal : Closes(t, status)
<1>1. tasks[t] \in Task /\ tasks[t].payment \in Payments /\ t \in DOMAIN tasks
  BY OthersKeep, PlanType DEF Task, TypeOK
<1>2. CASE Begin(t)
  <2>1. CASE /\ Claimable(t)
             /\ requests' = [requests EXCEPT ![tasks[t].payment] =
                    [status |-> "IN_PROGRESS", request |-> tasks[t].request, cost |-> 0]]
             /\ tasks' = [tasks EXCEPT ![t].pc = "reserve"]
    BY <1>1, <1>2, <2>1 DEF Begin, At, Claimable, Claims, TypeOK, Task
  <2>2. CASE Replayable(t) /\ Leave(t, "replay") /\ UNCHANGED requests
    BY <1>1, <1>2, <2>2 DEF Begin, At, Leave, Ended, Locals, Refuses, TypeOK
  <2>3. CASE ~Claimable(t) /\ ~Replayable(t) /\ Leave(t, "conflict") /\ UNCHANGED requests
    BY <1>1, <1>2, <2>3 DEF Begin, At, Leave, Ended, Locals, Refuses, TypeOK
  <2> QED
    BY <1>2, <2>1, <2>2, <2>3 DEF Begin
<1>3. CASE FailRequest(t) \/ FailPreparation(t) \/ FinishRequest(t)
  <2>1. PICK status \in Terminal, reply \in {"failed", "prepared"} :
           /\ CloseRequest(t, status) /\ Leave(t, reply)
           /\ reply = "prepared" => status = "COMPLETED"
    BY <1>3 DEF FailRequest, FailPreparation, FinishRequest, Terminal
  <2>2. tasks[t].pc \in {"fail", "unprepared", "finish"} /\ UNCHANGED purchases
    BY <1>3 DEF FailRequest, FailPreparation, FinishRequest, At
  <2>3. tasks'[t].pc = "done" /\ tasks'[t].reply = reply
    BY <1>1, <2>1 DEF Leave, Ended, Locals, TypeOK
  <2> QED
    BY <2>1, <2>2, <2>3 DEF Closes
<1>4. CASE DatabaseError(t)
  BY <1>1, <1>4 DEF DatabaseError, Leave, Ended, Locals, Breaks, TypeOK
<1>5. CASE \/ Reserve(t) \/ Sign(t) \/ PaidCall(t) \/ UnpaidCall(t) \/ BrokenCall(t)
           \/ Complete(t) \/ CompleteAsUnknown(t) \/ Prepare(t)
  <2>1. UNCHANGED requests /\ tasks[t].pc \notin {"idle", "begin", "done"}
    BY <1>5 DEF Reserve, Sign, PaidCall, UnpaidCall, BrokenCall, Complete, CompleteAsUnknown,
         Prepare, EndCall, At
  <2>2. CASE \E outcome, amount : AfterAttempt(t, outcome, amount)
    <3>1. tasks'[t].pc \in {"reserve", "fail", "prepare"}
      BY <1>1, <2>2 DEF AfterAttempt, TypeOK
    <3> QED
      BY <2>1, <3>1 DEF Attempts, Running
  <2>3. CASE \E pc \in {"call", "finish", "unprepared"} : tasks' = [tasks EXCEPT ![t].pc = pc]
    <3>1. tasks'[t].pc \in {"call", "finish", "unprepared"}
      BY <1>1, <2>3 DEF TypeOK, Task
    <3> QED
      BY <2>1, <3>1 DEF Attempts, Running
  <2>4. CASE \E outcome, price : EndCall(t, outcome, price)
    <3>1. PICK outcome, price : EndCall(t, outcome, price)
      BY <2>4
    <3>2. tasks'[t].pc = "record"
      BY <1>1, <3>1 DEF EndCall, TypeOK, Task
    <3> QED
      BY <2>1, <3>2 DEF Attempts, Running
  <2>5. CASE Sign(t)
    <3>1. tasks'[t].pc = "paid"
      BY <1>1, <2>5 DEF Sign, TypeOK, Task
    <3> QED
      BY <2>1, <3>1 DEF Attempts, Running
  <2> QED
    BY <1>5, <2>2, <2>3, <2>4, <2>5 DEF Reserve, PaidCall, UnpaidCall, BrokenCall, Complete,
         CompleteAsUnknown, Prepare
<1> QED
  BY <1>2, <1>3, <1>4, <1>5 DEF Step

\* Once closed, a request and the rows of its payment never change.
LEMMA ClosedIsFixed ==
    ASSUME TypeOK, ClaimHeld, NEW t \in Tasks, Step(t),
           NEW p \in Payments, requests[p].status \in Terminal
    PROVE  /\ requests'[p] = requests[p]
           /\ \A k \in RowsOf(p) : purchases'[k] = purchases[k]
<1>1. /\ \A k \in Keys \ {Key(t)} : purchases'[k] = purchases[k]
      /\ \A q \in Payments \ {tasks[t].payment} : requests'[q] = requests[q]
      /\ ~Running(t) => UNCHANGED purchases
  BY StepShape
<1>2. CASE tasks[t].payment # p
  BY <1>1, <1>2 DEF RowsOf, Key
<1>3. CASE tasks[t].payment = p
  <2>1. ~Running(t)
    BY <1>3 DEF ClaimHeld, Terminal
  <2>2. requests'[p] = requests[p]
    BY <1>3, <2>1, StepKinds DEF Claims, Refuses, Breaks, Attempts, Closes, Running, Terminal
  <2> QED
    BY <1>1, <2>1, <2>2
<1> QED
  BY <1>2, <1>3

-----------------------------------------------------------------------------
(* Claims and answers *)

LEMMA ClaimHeldStep ==
    ASSUME TypeOK, RunningHolds, ClaimHeld, NEW t \in Tasks, Step(t)
    PROVE  ClaimHeld'
<1> SUFFICES ASSUME Running(t)'
             PROVE  /\ requests'[tasks[t].payment].status = "IN_PROGRESS"
                    /\ requests'[tasks[t].payment].request = tasks[t].request
  BY OneRuns, StepShape DEF ClaimHeld
<1>1. Claims(t) \/ Attempts(t)
  BY StepKinds DEF Refuses, Breaks, Closes, Running
<1>2. CASE Claims(t)
  BY <1>2 DEF Claims
<1>3. CASE Attempts(t)
  BY <1>3 DEF Attempts, ClaimHeld
<1> QED
  BY <1>1, <1>2, <1>3

LEMMA ReplayFaithfulStep ==
    ASSUME TypeOK, ClaimHeld, ReplayFaithful, NEW t \in Tasks, Step(t)
    PROVE  ReplayFaithful'
<1> SUFFICES ASSUME NEW u \in Tasks, tasks'[u].pc = "done",
                    tasks'[u].reply \in {"prepared", "replay"}
             PROVE  /\ requests'[tasks'[u].payment].status = "COMPLETED"
                    /\ requests'[tasks'[u].payment].request = tasks'[u].request
  BY DEF ReplayFaithful
<1>1. CASE u # t
  <2>1. tasks'[u] = tasks[u]
    BY <1>1, OthersKeep
  <2>2. tasks[u] \in Task
    BY <2>1, PlanType
  <2>3. /\ requests[tasks[u].payment].status = "COMPLETED"
        /\ requests[tasks[u].payment].request = tasks[u].request
        /\ tasks[u].payment \in Payments
    BY <2>1, <2>2 DEF ReplayFaithful, Task
  <2> QED
    BY <2>1, <2>3, ClosedIsFixed DEF Terminal
<1>2. CASE u = t
  <2>1. /\ tasks'[t].payment = tasks[t].payment /\ tasks'[t].request = tasks[t].request
        /\ tasks[t].payment \in Payments
    BY StepShape DEF Task
  <2>2. Refuses(t) \/ \E status \in Terminal : Closes(t, status)
    BY <1>2, StepKinds DEF Claims, Breaks, Attempts, Running
  <2>3. CASE Refuses(t)
    BY <1>2, <2>1, <2>3 DEF Refuses, Replayable
  <2>4. CASE \E status \in Terminal : Closes(t, status)
    <3>1. Running(t) /\ CloseRequest(t, "COMPLETED")
      BY <1>2, <2>4 DEF Closes, Running
    <3>2. /\ requests[tasks[t].payment].status = "IN_PROGRESS"
          /\ requests[tasks[t].payment].request = tasks[t].request
      BY <3>1 DEF ClaimHeld
    <3> QED
      BY <1>2, <2>1, <3>1, <3>2 DEF CloseRequest, TypeOK
  <2> QED
    BY <2>2, <2>3, <2>4
<1> QED
  BY <1>1, <1>2

\* A FULFILLED row never changes: a call writes only rows it has reserved.
LEMMA FulfilledStays ==
    ASSUME IInv, NEW t \in Tasks, Step(t), NEW k \in Keys, purchases[k].status = "FULFILLED"
    PROVE  purchases'[k] = purchases[k]
<1>1. CASE k # Key(t)
  BY <1>1, StepShape DEF IInv
<1>2. CASE k = Key(t)
  <2>1. ~Complete(t) /\ ~CompleteAsUnknown(t)
    BY <1>2 DEF Complete, CompleteAsUnknown, At, IInv, ReservationHeld
  <2>2. Reserve(t) => UNCHANGED purchases
    BY <1>2 DEF Reserve
  <2> QED
    BY <2>1, <2>2 DEF Step, Begin, Sign, PaidCall, UnpaidCall, BrokenCall, FailRequest,
         Prepare, FailPreparation, FinishRequest, DatabaseError, EndCall
<1> QED
  BY <1>1, <1>2

\* A call that goes on to another stage has ended an attempt that let it.
LEMMA StageMoves ==
    ASSUME TypeOK, NEW t \in Tasks, Step(t), Running(t)',
           tasks'[t].stage # tasks[t].stage
    PROVE  \/ Complete(t) /\ ~PlanOver(t, tasks[t].outcome)
           \/ ~PlanOver(t, "FAILED_PRE_PAYMENT")
           \/ ~PlanOver(t, "UNKNOWN")
<1>1. tasks[t] \in Task /\ t \in DOMAIN tasks
  BY OthersKeep, PlanType DEF TypeOK
<1>2. ASSUME NEW outcome, NEW amount, AfterAttempt(t, outcome, amount)
      PROVE  ~PlanOver(t, outcome)
  BY <1>1, <1>2 DEF AfterAttempt
<1>3. CASE Reserve(t)
  <2>1. ~\E pc : tasks' = [tasks EXCEPT ![t].pc = pc]
    BY <1>1 DEF Task
  <2> QED
    BY <1>2, <1>3, <2>1 DEF Reserve
<1>4. CASE Complete(t)
  BY <1>2, <1>4 DEF Complete
<1>5. CASE CompleteAsUnknown(t)
  BY <1>2, <1>5 DEF CompleteAsUnknown
<1>6. ~Begin(t)
  <2>1. SUFFICES ASSUME Begin(t)
                 PROVE  FALSE
    OBVIOUS
  <2>2. \A reply : ~Leave(t, reply)
    BY <1>1 DEF Leave, Ended, Locals, Running
  <2>3. tasks' = [tasks EXCEPT ![t].pc = "reserve"]
    BY <2>1, <2>2 DEF Begin
  <2> QED
    BY <1>1, <2>3 DEF Task
<1>7. ~Sign(t) /\ ~PaidCall(t) /\ ~UnpaidCall(t) /\ ~BrokenCall(t) /\ ~Prepare(t)
  <2>1. \A quote : tasks' # [tasks EXCEPT ![t].pc = "paid", ![t].price = quote]
    BY <1>1 DEF Task
  <2>2. \A outcome, price : ~EndCall(t, outcome, price)
    BY <1>1 DEF EndCall, Task
  <2>3. \A pc : tasks' # [tasks EXCEPT ![t].pc = pc]
    BY <1>1 DEF Task
  <2> QED
    BY <2>1, <2>2, <2>3 DEF Sign, PaidCall, UnpaidCall, BrokenCall, Prepare
<1>8. ~FailRequest(t) /\ ~FailPreparation(t) /\ ~FinishRequest(t) /\ ~DatabaseError(t)
  BY <1>1 DEF FailRequest, FailPreparation, FinishRequest, DatabaseError, Leave, Ended,
       Locals, Running
<1> QED
  BY <1>3, <1>4, <1>5, <1>6, <1>7, <1>8 DEF Step

LEMMA OpenedStep ==
    ASSUME IInv, IInv', Opened, NEW t \in Tasks, Step(t)
    PROVE  Opened'
<1>1. /\ TypeOK /\ RunningHolds /\ tasks[t] \in Task /\ tasks[t].payment \in Payments
      /\ tasks'[t].payment = tasks[t].payment /\ tasks'[t].request = tasks[t].request
      /\ tasks'[t].stage \in 1..3
  <2>1. Step(t) /\ TypeOK /\ RunningHolds /\ TypeOK'
    BY DEF IInv
  <2>2. tasks'[t] \in Task
    <3>1. tasks'[t].pc # "idle"
      <4>1. t \in DOMAIN tasks
        BY <2>1 DEF TypeOK
      <4> QED
        BY <2>1, <4>1, StepKinds DEF Claims, Refuses, Breaks, Attempts, Closes, Running
    <3> QED
      BY <2>1, <3>1 DEF TypeOK, IdleTask
  <2> QED
    BY <2>1, <2>2, StepShape DEF Task
<1> DEFINE open == <<tasks[t].payment, Plan(Product[tasks[t].request])[1]>>
<1>2. open \in Keys /\ open[2] \in Opening
  <2>1. Product[tasks[t].request] \in {"profile", "python"}
    BY <1>1, PlanType, OthersKeep
  <2> QED
    BY <1>1, <2>1 DEF Plan, Keys, Suppliers, Opening
<1>3. \A u \in Tasks : tasks'[u].pc = "begin" => tasks'[u].stage = 1
  <2>1. tasks'[t].pc # "begin"
    BY <1>1, StepKinds DEF Claims, Refuses, Breaks, Attempts, Closes, Running
  <2> QED
    BY <1>1, <2>1, OthersKeep DEF Opened
<1>4. ASSUME Running(t)', tasks'[t].stage > 1
      PROVE  purchases'[open].status = "FULFILLED"
  <2>1. CASE tasks[t].stage > 1
    <3>1. Running(t)
      BY <1>1, <1>4, <2>1, OthersKeep DEF Opened, Running, Task
    <3>2. purchases[open].status = "FULFILLED"
      BY <2>1, <3>1 DEF Opened, OpeningRow
    <3> QED
      BY <1>2, <3>2, FulfilledStays
  <2>2. CASE ~(tasks[t].stage > 1)
    <3>1. tasks[t].stage = 1 /\ tasks'[t].stage # tasks[t].stage
      BY <1>1, <1>4, <2>2 DEF Task
    <3>2. Key(t) = open /\ Supplier(t) \in Opening
      BY <1>2, <3>1 DEF Key, Supplier
    <3>3. Complete(t) /\ tasks[t].outcome = "FULFILLED"
      BY <1>1, <1>4, <3>1, <3>2, StageMoves DEF PlanOver
    <3> QED
      BY <1>1, <1>2, <3>2, <3>3 DEF Complete, TypeOK, PurchaseRow
  <2> QED
    BY <2>1, <2>2
<1>5. ASSUME NEW u \in Tasks, Running(u)', tasks'[u].stage > 1
      PROVE  OpeningRow(tasks[u].payment, tasks[u].request)'.status = "FULFILLED"
  <2>1. u = t
    BY <1>1, <1>5, OneRuns
  <2> QED
    BY <1>1, <1>4, <1>5, <2>1 DEF OpeningRow
<1> QED
  BY <1>3, <1>5 DEF Opened

LEMMA RowsBoughtStep ==
    ASSUME IInv, ClaimHeld, Opened, RowsBought, NEW t \in Tasks, Step(t)
    PROVE  RowsBought'
<1> SUFFICES ASSUME NEW k \in Keys, purchases'[k].amount > 0
             PROVE  requests'[k[1]].status # "ABSENT" /\ k[2] \in Bought(k[1])'
  BY DEF RowsBought
<1>1. /\ TypeOK /\ tasks[t] \in Task /\ Key(t) \in Keys /\ k[1] \in Payments
      /\ \A j \in Keys \ {Key(t)} : purchases'[j] = purchases[j]
      /\ \A p \in Payments \ {tasks[t].payment} : requests'[p] = requests[p]
      /\ ~Running(t) => UNCHANGED purchases
  BY StepShape DEF Keys, IInv
<1>2. CASE k = Key(t) /\ Running(t)
  <2>1. k[1] = tasks[t].payment /\ k[2] = Supplier(t)
    BY <1>2 DEF Key
  <2>2. /\ requests[k[1]].status = "IN_PROGRESS"
        /\ requests[k[1]].request = tasks[t].request
    BY <1>2, <2>1 DEF ClaimHeld
  <2>3. requests'[k[1]].request = tasks[t].request /\ requests'[k[1]].status # "ABSENT"
    <3>1. CASE requests' = requests
      BY <2>2, <3>1
    <3>2. CASE \E status \in Terminal : Closes(t, status)
      BY <1>1, <2>1, <2>2, <3>2 DEF Closes, CloseRequest, TypeOK, Terminal
    <3>3. \/ Claims(t) \/ Refuses(t) \/ Breaks(t) \/ Attempts(t)
          \/ \E status \in Terminal : Closes(t, status)
      BY <1>1, StepKinds
    <3>4. ~Claims(t)
      BY <1>2 DEF Claims, Running
    <3> QED
      BY <3>1, <3>2, <3>3, <3>4 DEF Refuses, Breaks, Attempts
  <2>4. /\ tasks[t].stage \in DOMAIN Plan(Product[tasks[t].request])
        /\ tasks[t].stage \in 1..3
        /\ Product[tasks[t].request] \in {"profile", "python"}
    BY <1>1, PlanType, OthersKeep DEF Task
  <2>5. k[2] = Plan(Product[tasks[t].request])[tasks[t].stage]
    BY <2>1 DEF Supplier
  <2>6. 1 \in DOMAIN Plan(Product[tasks[t].request])
    BY <2>4 DEF Plan
  <2>7. CASE tasks[t].stage = 1
    BY <2>3, <2>5, <2>6, <2>7 DEF Bought
  <2>8. CASE tasks[t].stage # 1
    <3>1. <<k[1], Plan(Product[tasks[t].request])[1]>> \in Keys
      BY <1>1, <2>4 DEF Keys, Plan, Suppliers
    <3>2. OpeningRow(k[1], tasks[t].request).status = "FULFILLED"
      <4>1. tasks[t].stage > 1
        BY <2>4, <2>8
      <4> QED
        BY <1>2, <2>1, <4>1 DEF Opened
    <3>3. purchases'[<<k[1], Plan(Product[tasks[t].request])[1]>>].status = "FULFILLED"
      BY <3>1, <3>2, FulfilledStays DEF OpeningRow
    <3> QED
      BY <2>3, <2>4, <2>5, <3>3 DEF Bought, OpeningRow
  <2> QED
    BY <2>7, <2>8
<1>3. CASE ~(k = Key(t) /\ Running(t))
  <2>1. purchases'[k] = purchases[k]
    BY <1>1, <1>3
  <2>2. requests[k[1]].status # "ABSENT" /\ k[2] \in Bought(k[1])
    BY <2>1 DEF RowsBought
  <2>3. requests'[k[1]].request = requests[k[1]].request /\ requests'[k[1]].status # "ABSENT"
    <3>1. CASE requests'[k[1]] = requests[k[1]]
      BY <2>2, <3>1
    <3>2. CASE (\E status \in Terminal : Closes(t, status)) /\ k[1] = tasks[t].payment
      BY <1>1, <2>2, <3>2 DEF Closes, CloseRequest, TypeOK, Terminal
    <3> QED
      BY <1>1, <2>2, <3>1, <3>2, StepKinds DEF Claims, Refuses, Breaks, Attempts
  <2>4. Product[requests[k[1]].request] \in {"profile", "python"}
    BY <1>1, <2>2, ConstantsAssumption DEF TypeOK, RequestRow, NoRequest
  <2>5. /\ <<k[1], Plan(Product[requests[k[1]].request])[1]>> \in Keys
        /\ 1 \in DOMAIN Plan(Product[requests[k[1]].request])
    BY <1>1, <2>4 DEF Keys, Plan, Suppliers
  <2>6. OpeningRow(k[1], requests[k[1]].request).status = "FULFILLED" =>
            OpeningRow(k[1], requests[k[1]].request)'.status = "FULFILLED"
    <3>1. purchases[<<k[1], Plan(Product[requests[k[1]].request])[1]>>].status = "FULFILLED" =>
            purchases'[<<k[1], Plan(Product[requests[k[1]].request])[1]>>].status = "FULFILLED"
      BY <2>5, FulfilledStays
    <3> QED
      BY <2>3, <3>1 DEF OpeningRow
  <2> QED
    BY <2>2, <2>3, <2>5, <2>6 DEF Bought, OpeningRow
<1> QED
  BY <1>2, <1>3

-----------------------------------------------------------------------------
(* Costs *)

\* The rows of a payment are finitely many bounded rows.
LEMMA PaymentRows ==
    ASSUME TypeOK, RowsBounded, NEW p, NEW b \in Nat, \A s \in Suppliers : MaxAmount[s] \in 0..b
    PROVE  /\ IsFiniteSet(RowsOf(p)) /\ RowsOf(p) \in SUBSET Keys
           /\ \A k \in RowsOf(p) : Amounts[k] \in 0..b
<1>1. RowsOf(p) \in SUBSET Keys
  BY DEF RowsOf
<1>2. IsFiniteSet(RowsOf(p))
  BY <1>1, KeysFinite, FS_Subset, Zenon
<1> QED
  BY <1>1, <1>2, RowFacts

\* A claim is made at no cost, and its payment has no money on its rows.
LEMMA CostOfClaim ==
    ASSUME TypeOK, RowsBought, CostTracked, NEW t \in Tasks, Step(t), Claims(t)
    PROVE  tasks'[t].cost = Total(Amounts', RowsOf(tasks[t].payment) \ {})
<1> DEFINE p == tasks[t].payment
<1>1. tasks'[t].cost = 0 /\ Amounts' = Amounts
  BY DEF Claims, CostTracked, Amounts
<1>2. \A k \in RowsOf(p) \ {} : Amounts[k] = 0
  <2> TAKE k \in RowsOf(p) \ {}
  <2>1. k \in Keys /\ k[1] = p
    BY DEF RowsOf
  <2>2. purchases[k].amount \in Nat /\ ~(purchases[k].amount > 0)
    BY <2>1 DEF Claims, RowsBought, TypeOK, PurchaseRow
  <2> QED
    BY <2>1, <2>2 DEF Amounts
<1>3. Total(Amounts, RowsOf(p) \ {}) = Total(Amounts, {})
  BY <1>2, TotalDrop
<1> QED
  BY <1>1, <1>3, TotalEmpty

\* A reservation opens an empty row: what the other rows hold is the cost.
LEMMA CostOfReserve ==
    ASSUME IInv, RowsPlain, CostTracked, NEW t \in Tasks, Reserve(t)
    PROVE  tasks'[t].cost = Total(Amounts', RowsOf(tasks[t].payment) \ OpenRow(t)')
<1> DEFINE p == tasks[t].payment
<1>1. TypeOK /\ tasks[t] \in Task /\ Key(t) \in Keys /\ tasks[t].pc = "reserve"
  BY PlanType DEF IInv, Reserve, At
<1>2. tasks[t].cost = Total(Amounts, RowsOf(p) \ {})
  BY <1>1 DEF CostTracked, OpenRow, Running
<1>3. CASE /\ purchases[Key(t)].status = "ABSENT"
           /\ purchases' = [purchases EXCEPT ![Key(t)] =
                  [status |-> "RESERVED", amount |-> MaxAmount[Supplier(t)], day |-> day]]
           /\ tasks' = [tasks EXCEPT ![t].pc = "call"]
  <2>1. tasks'[t].pc = "call" /\ tasks'[t].cost = tasks[t].cost /\ Key(t)' = Key(t)
    BY <1>1, <1>3 DEF Key, Supplier, TypeOK, Task
  <2>2. OpenRow(t)' = {Key(t)}
    BY <2>1 DEF OpenRow
  <2>3. \A k \in RowsOf(p) \ {Key(t)} : (Amounts')[k] = Amounts[k]
    BY <1>1, <1>3 DEF Amounts, RowsOf, TypeOK
  <2>4. Total(Amounts', RowsOf(p) \ {Key(t)}) = Total(Amounts, RowsOf(p) \ {Key(t)})
    BY <2>3, TotalAgree
  <2>5. Amounts[Key(t)] = 0
    BY <1>1, <1>3 DEF RowsPlain, Counted, Amounts
  <2>6. Total(Amounts, RowsOf(p) \ {}) = Total(Amounts, RowsOf(p) \ {Key(t)})
    <3>1. \A k \in (RowsOf(p) \ {}) \ (RowsOf(p) \ {Key(t)}) : Amounts[k] = 0
      BY <2>5
    <3>2. RowsOf(p) \ {Key(t)} \in SUBSET (RowsOf(p) \ {})
      OBVIOUS
    <3> QED
      BY <3>1, <3>2, TotalDrop
  <2> QED
    BY <1>2, <2>1, <2>2, <2>4, <2>6
<1>4. CASE AfterAttempt(t, "FAILED_PRE_PAYMENT", 0) /\ UNCHANGED purchases
  <2>1. /\ tasks'[t].pc \in {"reserve", "fail", "prepare"}
        /\ tasks'[t].cost = tasks[t].cost + 0
    BY <1>1, <1>4 DEF AfterAttempt, CostOf, TypeOK
  <2>2. OpenRow(t)' = {} /\ Amounts' = Amounts
    BY <1>4, <2>1 DEF OpenRow, Amounts
  <2>3. tasks[t].cost \in Nat
    BY <1>1 DEF Task
  <2> QED
    BY <1>2, <2>1, <2>2, <2>3
<1> QED
  BY <1>3, <1>4 DEF Reserve

\* An outcome adds to the cost what it leaves on the open row.
LEMMA CostOfComplete ==
    ASSUME IInv, (RowsBounded /\ TypeOK)', CostTracked, NEW t \in Tasks,
           Complete(t) \/ CompleteAsUnknown(t)
    PROVE  tasks'[t].cost = Total(Amounts', RowsOf(tasks[t].payment) \ OpenRow(t)')
<1> DEFINE p == tasks[t].payment
<1>1. /\ TypeOK /\ tasks[t] \in Task /\ Key(t) \in Keys /\ tasks[t].pc = "record"
      /\ MaxAmount[Supplier(t)] \in Nat
  BY PlanType DEF IInv, Complete, CompleteAsUnknown, At
<1>2. tasks[t].cost = Total(Amounts, RowsOf(p) \ {Key(t)})
  BY <1>1 DEF CostTracked, OpenRow, Running
<1>3. PICK outcome \in {"none", "FULFILLED", "UNKNOWN", "FAILED_PRE_PAYMENT"},
            amount \in Nat :
         /\ AfterAttempt(t, outcome, amount)
         /\ purchases' = [purchases EXCEPT ![Key(t)].status = outcome,
                                           ![Key(t)].amount = amount]
  <2>1. /\ tasks[t].price \in Nat
        /\ tasks[t].outcome \in {"none", "FULFILLED", "UNKNOWN", "FAILED_PRE_PAYMENT"}
    BY <1>1 DEF Task
  <2>2. CASE Complete(t)
    BY <2>1, <2>2 DEF Complete
  <2>3. CASE CompleteAsUnknown(t)
    BY <1>1, <2>3 DEF CompleteAsUnknown
  <2> QED
    BY <2>2, <2>3
<1>4. /\ tasks'[t].pc \in {"reserve", "fail", "prepare"}
      /\ tasks'[t].cost = tasks[t].cost + amount
  BY <1>1, <1>3 DEF AfterAttempt, CostOf, TypeOK
<1>5. /\ (Amounts')[Key(t)] = amount
      /\ \A k \in RowsOf(p) \ {Key(t)} : (Amounts')[k] = Amounts[k]
  BY <1>1, <1>3 DEF Amounts, RowsOf, TypeOK, PurchaseRow
<1>6. Total(Amounts', RowsOf(p) \ {Key(t)}) = Total(Amounts, RowsOf(p) \ {Key(t)})
  BY <1>5, TotalAgree
<1>7. PICK b \in Nat : \A s \in Suppliers : MaxAmount[s] \in 0..b
  BY KeysFinite
<1>8. IsFiniteSet(RowsOf(p)) /\ \A k \in RowsOf(p) : (Amounts')[k] \in 0..b
  <2>1. IsFiniteSet(RowsOf(p)) /\ RowsOf(p) \in SUBSET Keys
    BY <1>1, <1>7, PaymentRows DEF IInv
  <2>2. \A k \in Keys : (Amounts')[k] \in 0..b
    <3> TAKE k \in Keys
    <3>1. k[2] \in Suppliers
      BY DEF Keys
    <3>2. (Amounts')[k] \in Nat /\ (Amounts')[k] <= MaxAmount[k[2]] /\ MaxAmount[k[2]] \in 0..b
      BY <1>7, <3>1 DEF TypeOK, RowsBounded, PurchaseRow, Amounts
    <3> QED
      BY <3>2
  <2> QED
    BY <2>1, <2>2
<1>9. Key(t) \in RowsOf(p)
  BY <1>1 DEF RowsOf, Key
<1>10. Total(Amounts', RowsOf(p)) = Total(Amounts', RowsOf(p) \ {Key(t)}) + amount
  BY <1>5, <1>8, <1>9, TotalSplit
<1>11. RowsOf(p) \ OpenRow(t)' = RowsOf(p)
  BY <1>4 DEF OpenRow
<1> QED
  BY <1>2, <1>4, <1>6, <1>10, <1>11

\* The other steps of a call that goes on leave rows and cost as they are.
LEMMA CostOfOthers ==
    ASSUME TypeOK, CostTracked, NEW t \in Tasks,
           Sign(t) \/ PaidCall(t) \/ UnpaidCall(t) \/ BrokenCall(t) \/ Prepare(t)
    PROVE  tasks'[t].cost = Total(Amounts', RowsOf(tasks[t].payment) \ OpenRow(t)')
<1>1. /\ tasks[t] \in Task /\ tasks[t].pc \in {"call", "paid", "prepare"}
      /\ t \in DOMAIN tasks /\ UNCHANGED purchases
  BY PlanType DEF Sign, PaidCall, UnpaidCall, BrokenCall, Prepare, At, EndCall, TypeOK
<1>2. tasks[t].cost = Total(Amounts, RowsOf(tasks[t].payment) \ OpenRow(t))
  BY <1>1 DEF CostTracked, Running
<1>3. tasks'[t].cost = tasks[t].cost /\ OpenRow(t)' = OpenRow(t)
  <2>1. CASE Prepare(t)
    BY <1>1, <2>1 DEF Prepare, At, OpenRow, Task
  <2>2. CASE PaidCall(t) \/ UnpaidCall(t) \/ BrokenCall(t)
    <3>1. PICK outcome, price : EndCall(t, outcome, price)
      BY <2>2 DEF PaidCall, UnpaidCall, BrokenCall
    <3>2. /\ tasks'[t].pc = "record" /\ tasks'[t].cost = tasks[t].cost
          /\ Key(t)' = Key(t) /\ tasks[t].pc \in {"call", "paid"}
      BY <1>1, <2>2, <3>1 DEF EndCall, Key, Supplier, Task, PaidCall, UnpaidCall, BrokenCall, At
    <3> QED
      BY <3>2 DEF OpenRow
  <2>3. CASE Sign(t)
    <3>1. /\ tasks'[t].pc = "paid" /\ tasks'[t].cost = tasks[t].cost
          /\ Key(t)' = Key(t) /\ tasks[t].pc = "call"
      <4>1. PICK quote : tasks' = [tasks EXCEPT ![t].pc = "paid", ![t].price = quote]
        BY <2>3 DEF Sign
      <4>2. tasks[t].pc = "call"
        BY <2>3 DEF Sign, At
      <4> QED
        BY <1>1, <4>1, <4>2 DEF Key, Supplier, Task
    <3> QED
      BY <3>1 DEF OpenRow
  <2> QED
    BY <1>1, <2>1, <2>2, <2>3
<1>4. Amounts' = Amounts
  BY <1>1 DEF Amounts
<1> QED
  BY <1>2, <1>3, <1>4

LEMMA CostTrackedStep ==
    ASSUME IInv, IInv', RowsPlain, RowsBought, CostTracked, NEW t \in Tasks, Step(t)
    PROVE  CostTracked'
<1>1. /\ TypeOK /\ RunningHolds
      /\ tasks'[t].payment = tasks[t].payment
      /\ \A u \in Tasks \ {t} : tasks'[u] = tasks[u]
  BY StepShape, OthersKeep DEF IInv
<1>2. \A u \in Tasks : tasks'[u].pc = "begin" => tasks'[u].cost = 0
  <2>1. tasks'[t].pc # "begin"
    BY <1>1, StepKinds DEF Claims, Refuses, Breaks, Attempts, Closes, Running
  <2> QED
    BY <1>1, <2>1 DEF CostTracked
<1>3. ASSUME Running(t)'
      PROVE  tasks'[t].cost = Total(Amounts', RowsOf(tasks[t].payment) \ OpenRow(t)')
  <2>1. Claims(t) \/ Attempts(t)
    BY <1>1, <1>3, StepKinds DEF Refuses, Breaks, Closes, Running
  <2>2. CASE Claims(t)
    <3>1. OpenRow(t)' = {}
      BY <2>2 DEF Claims, OpenRow
    <3> QED
      BY <1>1, <2>2, <3>1, CostOfClaim
  <2>3. CASE Attempts(t)
    <3>1. \/ Reserve(t) \/ Complete(t) \/ CompleteAsUnknown(t)
          \/ Sign(t) \/ PaidCall(t) \/ UnpaidCall(t) \/ BrokenCall(t) \/ Prepare(t)
      <4>1. t \in DOMAIN tasks
        BY <1>1 DEF TypeOK
      <4>2. tasks[t].pc # "begin" /\ tasks'[t].pc # "done"
        BY <2>3 DEF Attempts, Running
      <4> QED
        BY <4>1, <4>2 DEF Step, Begin, FailRequest, FailPreparation, FinishRequest,
             DatabaseError, At, Leave, Ended, Locals
    <3> QED
      BY <1>1, <3>1, CostOfReserve, CostOfComplete, CostOfOthers DEF IInv
  <2> QED
    BY <2>1, <2>2, <2>3
<1>4. ASSUME NEW u \in Tasks, Running(u)'
      PROVE  tasks'[u].cost = Total(Amounts', RowsOf(tasks'[u].payment) \ OpenRow(u)')
  <2>1. u = t
    BY <1>1, <1>4, OneRuns
  <2> QED
    BY <1>1, <1>3, <1>4, <2>1
<1> QED
  BY <1>2, <1>4 DEF CostTracked, RowsOf, Keys

LEMMA CostAgreesStep ==
    ASSUME TypeOK, ClaimHeld, CostTracked, CostAgrees, NEW t \in Tasks, Step(t)
    PROVE  CostAgrees'
<1> SUFFICES ASSUME NEW p \in Payments, requests'[p].status \in Terminal
             PROVE  requests'[p].cost = Total(Amounts', RowsOf(p))
  BY DEF CostAgrees, RowsOf, Keys
<1>1. CASE requests[p].status \in Terminal
  <2>1. requests'[p] = requests[p] /\ \A k \in RowsOf(p) : purchases'[k] = purchases[k]
    BY <1>1, ClosedIsFixed
  <2>2. \A k \in RowsOf(p) : (Amounts')[k] = Amounts[k]
    BY <2>1 DEF Amounts, RowsOf
  <2> QED
    BY <1>1, <2>1, <2>2, TotalAgree DEF CostAgrees
<1>2. CASE requests[p].status \notin Terminal
  <2>1. p = tasks[t].payment
    BY <1>2, StepShape
  <2>2. PICK status \in Terminal : Closes(t, status)
    <3>1. requests'[p] # requests[p] /\ ~Claims(t)
      BY <1>2, <2>1 DEF Claims, Terminal
    <3> QED
      BY <3>1, StepKinds DEF Refuses, Breaks, Attempts
  <2>3. Running(t) /\ OpenRow(t) = {} /\ Amounts' = Amounts
    BY <2>2 DEF Closes, Running, OpenRow, Amounts
  <2>4. tasks[t].cost = Total(Amounts, RowsOf(p))
    <3>1. RowsOf(p) \ {} = RowsOf(p)
      OBVIOUS
    <3> QED
      BY <2>1, <2>3, <3>1 DEF CostTracked
  <2>5. requests'[p].cost = tasks[t].cost
    BY <2>1, <2>2, <2>3 DEF Closes, CloseRequest, ClaimHeld, TypeOK
  <2> QED
    BY <2>3, <2>4, <2>5
<1> QED
  BY <1>1, <1>2

-----------------------------------------------------------------------------
(* Charges *)

\* The multiples of the cap are counted in, one day at a time.
LEMMA CapsAdd ==
    ASSUME NEW d \in Nat
    PROVE  d * DailyCap \in Nat /\ (d + 1) * DailyCap = d * DailyCap + DailyCap
BY ConstantsAssumption

\* The sums over the rows of the first days are sums of bounded finite ledgers.
LEMMA UpToFacts ==
    ASSUME TypeOK, RowsBounded, NEW b \in Nat, \A s \in Suppliers : MaxAmount[s] \in 0..b
    PROVE  /\ \A k \in Keys : Amounts[k] \in 0..b
           /\ \A d \in Nat : /\ IsFiniteSet(CountedUpTo(d)) /\ CountedUpTo(d) \in SUBSET Keys
                             /\ Total(Amounts, CountedUpTo(d)) \in Nat
<1>1. \A k \in Keys : Amounts[k] \in 0..b
  BY RowFacts
<1> SUFFICES ASSUME NEW d \in Nat
             PROVE  /\ IsFiniteSet(CountedUpTo(d)) /\ CountedUpTo(d) \in SUBSET Keys
                    /\ Total(Amounts, CountedUpTo(d)) \in Nat
  BY <1>1
<1>2. CountedUpTo(d) \in SUBSET Keys
  BY DEF CountedUpTo
<1>3. IsFiniteSet(CountedUpTo(d))
  BY <1>2, KeysFinite, FS_Subset, Zenon
<1>4. Total(Amounts, CountedUpTo(d)) \in Nat
  BY <1>1, <1>2, <1>3, TotalType
<1> QED
  BY <1>2, <1>3, <1>4

\* Rows that at most shrink stay within the caps of their days.
LEMMA BookedByShrinks ==
    ASSUME IInv, TypeOK', Dated, BookedBy, UNCHANGED day,
           \A k \in Keys : purchases'[k].status \in Counted =>
               /\ purchases[k].status \in Counted /\ purchases'[k].day = purchases[k].day
               /\ purchases'[k].amount <= purchases[k].amount
    PROVE  Dated' /\ BookedBy'
<1>1. TypeOK /\ RowsBounded /\ day \in Nat
  BY DEF IInv, TypeOK
<1>2. PICK b \in Nat : \A s \in Suppliers : MaxAmount[s] \in 0..b
  BY KeysFinite
<1>3. Dated'
  BY DEF Dated
<1> SUFFICES ASSUME NEW d \in 0..day
             PROVE  Total(Amounts', CountedUpTo(d)') <= d * DailyCap
  BY <1>3 DEF BookedBy
<1> DEFINE old == CountedUpTo(d)
           new == CountedUpTo(d)'
<1>4. /\ d \in Nat /\ IsFiniteSet(old) /\ old \in SUBSET Keys /\ Total(Amounts, old) \in Nat
      /\ \A k \in Keys : Amounts[k] \in 0..b
  BY <1>1, <1>2, UpToFacts
<1>5. new \in SUBSET old
  BY DEF CountedUpTo
<1>6. \A k \in Keys : (Amounts')[k] \in Nat
  BY DEF Amounts, TypeOK, PurchaseRow
<1>7. \A k \in new : (Amounts')[k] <= Amounts[k]
  BY DEF Amounts, CountedUpTo
<1>8. Total(Amounts, old) <= d * DailyCap
  BY DEF BookedBy
<1> HIDE DEF old, new
<1>9. \A k \in old : (Amounts')[k] \in Nat /\ Amounts[k] \in 0..b
  BY <1>4, <1>6
<1>10. Total(Amounts', new) <= Total(Amounts, old)
  BY <1>4, <1>5, <1>7, <1>9, TotalMonotone
<1>11. Total(Amounts', new) \in Nat
  <2>1. IsFiniteSet(new)
    BY <1>4, <1>5, FS_Subset, Zenon
  <2>2. \A k \in new : (Amounts')[k] \in 0..b
    BY <1>4, <1>5, <1>6, <1>7
  <2> QED
    BY <2>1, <2>2, TotalType
<1>12. Total(Amounts', new) <= d * DailyCap
  BY <1>4, <1>8, <1>10, <1>11, CapsAdd
<1> QED
  BY <1>12 DEF new

\* A new day adds its cap before anything is reserved under it.
LEMMA BookedByMidnight ==
    ASSUME IInv, Dated, BookedBy, Midnight
    PROVE  Dated' /\ BookedBy'
<1>1. TypeOK /\ RowsBounded /\ day \in Nat /\ day' = day + 1 /\ purchases' = purchases
  BY DEF IInv, TypeOK, Midnight
<1>2. PICK b \in Nat : \A s \in Suppliers : MaxAmount[s] \in 0..b
  BY KeysFinite
<1>3. Dated' /\ Amounts' = Amounts
  BY <1>1 DEF Dated, Amounts
<1>4. \A d : CountedUpTo(d)' = CountedUpTo(d)
  BY <1>1 DEF CountedUpTo
<1>5. ASSUME NEW d \in 0..day
      PROVE  Total(Amounts', CountedUpTo(d)') <= d * DailyCap
  BY <1>3, <1>4 DEF BookedBy
<1>6. ASSUME NEW d \in Nat, d = day + 1
      PROVE  Total(Amounts', CountedUpTo(d)') <= d * DailyCap
  <2>1. CountedUpTo(day + 1) = CountedUpTo(day)
    <3>1. \A k \in Keys : purchases[k].day \in Nat /\ purchases[k].day <= day
      BY <1>1 DEF RowsBounded, TypeOK, PurchaseRow
    <3> QED
      BY <1>1, <3>1 DEF CountedUpTo
  <2>2. Total(Amounts, CountedUpTo(day)) \in Nat
    BY <1>1, <1>2, UpToFacts
  <2>3. Total(Amounts, CountedUpTo(day)) <= day * DailyCap
    BY <1>1 DEF BookedBy
  <2>4. /\ day * DailyCap \in Nat /\ (day + 1) * DailyCap = day * DailyCap + DailyCap
        /\ DailyCap \in Nat
    BY <1>1, CapsAdd, ConstantsAssumption
  <2>5. Total(Amounts, CountedUpTo(day)) <= (day + 1) * DailyCap
    BY <2>2, <2>3, <2>4
  <2> QED
    BY <1>3, <1>4, <1>6, <2>1, <2>5
<1>7. BookedBy'
  <2> SUFFICES ASSUME NEW d \in 0..day'
               PROVE  Total(Amounts', CountedUpTo(d)') <= d * DailyCap
    BY DEF BookedBy
  <2>1. d \in 0..day \/ (d \in Nat /\ d = day + 1)
    BY <1>1
  <2> QED
    BY <2>1, <1>5, <1>6
<1> QED
  BY <1>3, <1>7

\* A reservation is booked under today, whose cap it was checked against.
LEMMA BookedByReserve ==
    ASSUME IInv, IInv', Dated, BookedBy, NEW t \in Tasks, Reserve(t)
    PROVE  Dated' /\ BookedBy'
<1>1. TypeOK /\ TypeOK' /\ RowsBounded /\ RowsBounded' /\ CapOnEveryDay'
  BY DEF IInv
<1>2. Key(t) \in Keys /\ day \in Nat /\ day > 0 /\ day' = day
  BY <1>1, PlanType DEF Reserve, At, TypeOK, Dated
<1>3. CASE UNCHANGED purchases
  BY <1>1, <1>2, <1>3, BookedByShrinks DEF TypeOK, PurchaseRow
<1>4. CASE /\ purchases[Key(t)].status = "ABSENT"
           /\ purchases' = [purchases EXCEPT ![Key(t)] =
                  [status |-> "RESERVED", amount |-> MaxAmount[Supplier(t)], day |-> day]]
  <2>1. /\ purchases'[Key(t)].day = day
        /\ \A k \in Keys \ {Key(t)} : purchases'[k] = purchases[k]
    BY <1>1, <1>2, <1>4 DEF TypeOK
  <2>2. Dated'
    BY <1>2, <2>1 DEF Dated
  <2>3. PICK b \in Nat : \A s \in Suppliers : MaxAmount[s] \in 0..b
    BY KeysFinite
  <2>4. \A k \in Keys : (Amounts')[k] \in 0..b
    <3> TAKE k \in Keys
    <3>1. k[2] \in Suppliers
      BY DEF Keys
    <3>2. (Amounts')[k] \in Nat /\ (Amounts')[k] <= MaxAmount[k[2]] /\ MaxAmount[k[2]] \in 0..b
      BY <1>1, <2>3, <3>1 DEF RowsBounded, TypeOK, PurchaseRow, Amounts
    <3> QED
      BY <3>2
  <2>5. \A k \in Keys : purchases'[k].day \in Nat
    BY <1>1 DEF TypeOK, PurchaseRow
  <2>6. ASSUME NEW d \in 0..day, d # day
        PROVE  Total(Amounts', CountedUpTo(d)') <= d * DailyCap
    <3>1. CountedUpTo(d)' = CountedUpTo(d)
      BY <1>2, <1>4, <2>1, <2>6 DEF CountedUpTo, Counted
    <3>2. \A k \in CountedUpTo(d) : (Amounts')[k] = Amounts[k]
      BY <1>4, <2>1 DEF CountedUpTo, Counted, Amounts
    <3>3. Total(Amounts', CountedUpTo(d)) = Total(Amounts, CountedUpTo(d))
      BY <3>2, TotalAgree
    <3> QED
      BY <3>1, <3>3 DEF BookedBy
  <2>7. Total(Amounts', CountedUpTo(day)') <= day * DailyCap
    <3> DEFINE d == day - 1
               before == CountedUpTo(d)'
               today == CountedOn(day)'
    <3>1. d \in 0..day /\ d \in Nat /\ d # day /\ d + 1 = day
      BY <1>2
    <3>2. before = {k \in Keys : purchases'[k].status \in Counted /\ purchases'[k].day <= d}
      BY <1>2 DEF CountedUpTo
    <3>3. today = {k \in Keys : purchases'[k].status \in Counted /\ purchases'[k].day = day}
      BY <1>2 DEF CountedOn
    <3>4. CountedUpTo(day)' = before \cup today /\ before \cap today = {}
      BY <1>2, <2>5, <3>2, <3>3 DEF CountedUpTo
    <3>5. Total(Amounts', before) <= d * DailyCap
      <4>1. before = CountedUpTo(day - 1)
        BY <1>2, <1>4, <2>1, <2>5, <3>2 DEF CountedUpTo, Counted
      <4>2. \A k \in before : (Amounts')[k] = Amounts[k]
        BY <1>4, <2>1, <4>1 DEF CountedUpTo, Counted, Amounts
      <4>3. Total(Amounts', before) = Total(Amounts, before)
        BY <4>2, TotalAgree
      <4> QED
        BY <3>1, <4>1, <4>3 DEF BookedBy
    <3>6. Total(Amounts', today) <= DailyCap
      BY <1>1, <1>2 DEF CapOnEveryDay
    <3>7. IsFiniteSet(before) /\ IsFiniteSet(today)
      BY <3>2, <3>3, KeysFinite, FS_Subset
    <3>8. \A k \in before \cup today : (Amounts')[k] \in 0..b
      BY <2>4, <3>2, <3>3
    <3> HIDE DEF before, today
    <3>9. Total(Amounts', before) \in Nat /\ Total(Amounts', today) \in Nat
      BY <3>7, <3>8, TotalType
    <3>10. Total(Amounts', before \cup today) = Total(Amounts', before) + Total(Amounts', today)
      BY <3>4, <3>7, <3>8, TotalUnion
    <3>11. d * DailyCap \in Nat /\ day * DailyCap = d * DailyCap + DailyCap /\ DailyCap \in Nat
      BY <3>1, CapsAdd, ConstantsAssumption
    <3> HIDE DEF d
    <3> QED
      BY <3>4, <3>5, <3>6, <3>9, <3>10, <3>11
  <2> QED
    BY <1>2, <2>2, <2>6, <2>7 DEF BookedBy
<1> QED
  BY <1>3, <1>4 DEF Reserve

\* Every step of a call keeps the days of what is booked and taken.
LEMMA ChargesStep ==
    ASSUME IInv, IInv', ChargeDays, Dated, BookedBy, NEW t \in Tasks, Step(t)
    PROVE  ChargeDays' /\ Dated' /\ BookedBy'
<1>1. TypeOK /\ TypeOK' /\ Key(t) \in Keys /\ UNCHANGED <<charged, day>>
      /\ \A k \in Keys \ {Key(t)} : purchases'[k] = purchases[k]
  BY StepShape DEF IInv, Step, Begin, Reserve, Sign, PaidCall, UnpaidCall, BrokenCall,
       Complete, CompleteAsUnknown, FailRequest, Prepare, FailPreparation, FinishRequest,
       DatabaseError, EndCall
<1>2. ASSUME NEW k \in Keys, signed[k] > 0
      PROVE  signed'[k] > 0 /\ purchases'[k].day = purchases[k].day
  <2>1. purchases[k].status \in Counted
    BY <1>2 DEF IInv, SpendCovered
  <2>2. CASE Sign(t)
    <3>1. tasks[t].pc = "call" /\ UNCHANGED purchases
      BY <2>2 DEF Sign, At
    <3>2. signed[Key(t)] = 0
      BY <3>1 DEF IInv, CallAccounted
    <3>3. k # Key(t)
      BY <1>2, <3>2
    <3>4. PICK quote : signed' = [signed EXCEPT ![Key(t)] = quote]
      BY <2>2 DEF Sign
    <3> QED
      BY <1>1, <1>2, <3>1, <3>3, <3>4 DEF TypeOK
  <2>3. CASE ~Sign(t)
    <3>1. UNCHANGED signed
      BY <2>3 DEF Step, Begin, Reserve, PaidCall, UnpaidCall, BrokenCall, Complete,
           CompleteAsUnknown, FailRequest, Prepare, FailPreparation, FinishRequest,
           DatabaseError, EndCall
    <3>2. CASE Reserve(t)
      <4>1. purchases[Key(t)].status # "ABSENT" => UNCHANGED purchases
        BY <3>2 DEF Reserve
      <4>2. k = Key(t) => purchases[Key(t)].status # "ABSENT"
        BY <2>1 DEF Counted
      <4> QED
        BY <1>1, <1>2, <3>1, <4>1, <4>2
    <3>3. CASE Complete(t) \/ CompleteAsUnknown(t)
      <4>1. CASE k = Key(t)
        BY <1>1, <1>2, <3>1, <3>3, <4>1 DEF Complete, CompleteAsUnknown, TypeOK, PurchaseRow
      <4>2. CASE k # Key(t)
        BY <1>1, <1>2, <3>1, <4>2
      <4> QED
        BY <4>1, <4>2
    <3>4. CASE ~Reserve(t) /\ ~Complete(t) /\ ~CompleteAsUnknown(t)
      <4>1. UNCHANGED purchases
        BY <2>3, <3>4 DEF Step, Begin, PaidCall, UnpaidCall, BrokenCall, FailRequest, Prepare,
             FailPreparation, FinishRequest, DatabaseError, EndCall
      <4> QED
        BY <1>2, <3>1, <4>1
    <3> QED
      BY <3>2, <3>3, <3>4
  <2> QED
    BY <2>2, <2>3
<1>3. ChargeDays'
  BY <1>1, <1>2 DEF ChargeDays
<1>4. CASE Reserve(t)
  BY <1>3, <1>4, BookedByReserve
<1>5. CASE Complete(t) \/ CompleteAsUnknown(t)
  <2>1. /\ tasks[t].pc = "record" /\ tasks[t] \in Task
        /\ MaxAmount[Supplier(t)] \in Nat
    BY <1>1, <1>5, PlanType DEF Complete, CompleteAsUnknown, At
  <2>2. /\ purchases[Key(t)].status = "RESERVED"
        /\ purchases[Key(t)].amount = MaxAmount[Supplier(t)]
        /\ tasks[t].price <= MaxAmount[Supplier(t)]
    BY <2>1 DEF IInv, ReservationHeld, CallAccounted
  <2>3. /\ purchases'[Key(t)].amount \in {tasks[t].price, MaxAmount[Supplier(t)]}
        /\ purchases'[Key(t)].day = purchases[Key(t)].day
    BY <1>1, <1>5 DEF Complete, CompleteAsUnknown, TypeOK, PurchaseRow
  <2>4. \A k \in Keys : purchases'[k].status \in Counted =>
            /\ purchases[k].status \in Counted /\ purchases'[k].day = purchases[k].day
            /\ purchases'[k].amount <= purchases[k].amount
    <3> TAKE k \in Keys
    <3>1. CASE k = Key(t)
      BY <2>1, <2>2, <2>3, <3>1 DEF Counted
    <3>2. CASE k # Key(t)
      <4>1. purchases'[k] = purchases[k] /\ purchases[k].amount \in Nat
        BY <1>1, <3>2 DEF TypeOK, PurchaseRow
      <4> QED
        BY <4>1
    <3> QED
      BY <3>1, <3>2
  <2> QED
    BY <1>1, <1>3, <2>4, BookedByShrinks
<1>6. CASE ~Reserve(t) /\ ~Complete(t) /\ ~CompleteAsUnknown(t)
  <2>1. UNCHANGED purchases
    BY <1>6 DEF Step, Begin, Sign, PaidCall, UnpaidCall, BrokenCall, FailRequest, Prepare,
         FailPreparation, FinishRequest, DatabaseError, EndCall
  <2>2. \A k \in Keys : purchases[k].amount <= purchases[k].amount
    BY <1>1 DEF TypeOK, PurchaseRow
  <2> QED
    BY <1>1, <1>3, <2>1, <2>2, BookedByShrinks
<1> QED
  BY <1>4, <1>5, <1>6

-----------------------------------------------------------------------------
(* The invariant of the two tables *)

BookInv ==
    /\ IInv
    /\ RowsPlain
    /\ ClaimHeld
    /\ Opened
    /\ RowsBought
    /\ CostTracked
    /\ CostAgrees
    /\ ReplayFaithful
    /\ ChargeDays
    /\ Dated
    /\ BookedBy

LEMMA BookInvInit == Init => BookInv
<1> SUFFICES ASSUME Init
             PROVE  BookInv
  OBVIOUS
<1>1. \A t \in Tasks : tasks[t].pc = "idle"
  BY DEF Init, IdleTask
<1>2. \A p \in Payments : requests[p].status = "ABSENT"
  BY DEF Init, NoRequest
<1>3. \A k \in Keys : /\ purchases[k].amount = 0 /\ purchases[k].status = "ABSENT"
                      /\ charged[k] = 0
  BY DEF Init, NoPurchase
<1>4. day = 1
  BY DEF Init
<1>5. ClaimHeld /\ Opened /\ CostTracked /\ ReplayFaithful
  BY <1>1 DEF ClaimHeld, Opened, CostTracked, ReplayFaithful, Running
<1>6. CostAgrees
  BY <1>2 DEF CostAgrees, Terminal
<1>7. RowsBought /\ ChargeDays /\ Dated /\ BookedBy
  <2>1. \A d : CountedUpTo(d) = {}
    BY <1>3 DEF CountedUpTo, Counted
  <2>2. \A d \in 0..day : d * DailyCap \in Nat
    BY <1>4, ConstantsAssumption
  <2>3. BookedBy
    BY <2>1, <2>2, TotalEmpty DEF BookedBy
  <2> QED
    BY <1>3, <1>4, <2>3 DEF RowsBought, ChargeDays, Dated, Counted
<1> QED
  BY <1>5, <1>6, <1>7, InitIInv, RowsPlainInit DEF BookInv

\* The steps that are not of a call under way.
LEMMA BookInvOthers ==
    ASSUME BookInv, IInv', RowsPlain', UNCHANGED <<requests, purchases>>,
           \A u \in Tasks : \/ tasks'[u] = tasks[u]
                            \/ /\ tasks'[u].pc = "begin" /\ tasks'[u].cost = 0
                               /\ tasks'[u].stage = 1
                            \/ tasks'[u].pc = "done" /\ tasks'[u].reply = "lost"
    PROVE  (ClaimHeld /\ Opened /\ RowsBought /\ CostTracked /\ CostAgrees /\ ReplayFaithful)'
<1>1. \A u \in Tasks : Running(u)' => tasks'[u] = tasks[u]
  BY DEF Running
<1>2. ClaimHeld'
  BY <1>1 DEF BookInv, ClaimHeld, Running
<1>3. Opened' /\ RowsBought'
  <2>1. RowsBought'
    BY DEF BookInv, RowsBought, Bought, OpeningRow
  <2>2. Opened'
    BY <1>1 DEF BookInv, Opened, OpeningRow, Running
  <2> QED
    BY <2>1, <2>2
<1>4. CostTracked'
  <2>1. Amounts' = Amounts
    BY DEF Amounts
  <2>2. ASSUME NEW u \in Tasks, Running(u)'
        PROVE  tasks'[u].cost = Total(Amounts', RowsOf(tasks'[u].payment) \ OpenRow(u)')
    <3>1. tasks'[u] = tasks[u] /\ Running(u) /\ OpenRow(u)' = OpenRow(u)
      BY <1>1, <2>2 DEF Running, OpenRow, Key, Supplier
    <3> QED
      BY <2>1, <3>1 DEF BookInv, CostTracked
  <2>3. \A u \in Tasks : tasks'[u].pc = "begin" => tasks'[u].cost = 0
    BY DEF BookInv, CostTracked
  <2> QED
    BY <2>2, <2>3 DEF CostTracked, RowsOf, Keys
<1>5. CostAgrees'
  BY DEF BookInv, CostAgrees, Amounts, RowsOf, Keys
<1>6. ReplayFaithful'
  BY DEF BookInv, ReplayFaithful
<1> QED
  BY <1>2, <1>3, <1>4, <1>5, <1>6

LEMMA BookInvNext == BookInv /\ [Next]_vars => BookInv'
<1> SUFFICES ASSUME BookInv, [Next]_vars
             PROVE  BookInv'
  OBVIOUS
<1>1. IInv /\ IInv' /\ RowsPlain /\ RowsPlain' /\ TypeOK /\ TypeOK' /\ RunningHolds
  BY NextIInv, RowsPlainNext DEF BookInv, IInv
<1>2. \A k \in Keys : purchases[k].amount <= purchases[k].amount
  BY <1>1 DEF TypeOK, PurchaseRow
<1>3. CASE \E t \in Tasks : Step(t)
  <2>1. PICK t \in Tasks : Step(t)
    BY <1>3
  <2>2. ClaimHeld' /\ Opened' /\ RowsBought'
    BY <1>1, <2>1, ClaimHeldStep, OpenedStep, RowsBoughtStep DEF BookInv
  <2>3. CostTracked' /\ CostAgrees' /\ ReplayFaithful'
    BY <1>1, <2>1, CostTrackedStep, CostAgreesStep, ReplayFaithfulStep DEF BookInv
  <2>4. ChargeDays' /\ Dated' /\ BookedBy'
    BY <1>1, <2>1, ChargesStep DEF BookInv
  <2> QED
    BY <1>1, <2>2, <2>3, <2>4 DEF BookInv
<1>4. CASE \E t \in Tasks, p \in Payments, r \in Requests : Call(t, p, r)
  <2>1. PICK t \in Tasks, p \in Payments, r \in Requests : Call(t, p, r)
    BY <1>4
  <2>2. /\ tasks'[t].pc = "begin" /\ tasks'[t].cost = 0 /\ tasks'[t].stage = 1
        /\ \A u \in Tasks \ {t} : tasks'[u] = tasks[u]
    BY <1>1, <2>1 DEF Call, Locals, TypeOK
  <2>3. UNCHANGED <<requests, purchases, signed, charged, day>>
    BY <2>1 DEF Call
  <2>4. ChargeDays' /\ Dated' /\ BookedBy'
    BY <1>1, <1>2, <2>3, BookedByShrinks DEF BookInv, ChargeDays
  <2>5. (ClaimHeld /\ Opened /\ RowsBought /\ CostTracked /\ CostAgrees /\ ReplayFaithful)'
    BY <1>1, <2>2, <2>3, BookInvOthers
  <2> QED
    BY <1>1, <2>4, <2>5 DEF BookInv
<1>5. CASE Midnight
  <2>1. UNCHANGED <<requests, purchases, signed, charged, tasks>>
    BY <1>5 DEF Midnight
  <2>2. ChargeDays' /\ Dated' /\ BookedBy'
    BY <1>1, <1>5, <2>1, BookedByMidnight DEF BookInv, ChargeDays
  <2>3. (ClaimHeld /\ Opened /\ RowsBought /\ CostTracked /\ CostAgrees /\ ReplayFaithful)'
    BY <1>1, <2>1, BookInvOthers
  <2> QED
    BY <1>1, <2>2, <2>3 DEF BookInv
<1>6. CASE Restart \/ UNCHANGED vars
  <2>1. UNCHANGED <<requests, purchases, signed, charged, day>>
    BY <1>6 DEF Restart, vars
  <2>2. \A u \in Tasks : \/ tasks'[u] = tasks[u]
                         \/ tasks'[u].pc = "done" /\ tasks'[u].reply = "lost"
    BY <1>6 DEF Restart, Ended, Locals, vars
  <2>3. (ClaimHeld /\ Opened /\ RowsBought /\ CostTracked /\ CostAgrees /\ ReplayFaithful)'
    BY <1>1, <2>1, <2>2, BookInvOthers
  <2>4. ChargeDays' /\ Dated' /\ BookedBy'
    BY <1>1, <1>2, <2>1, BookedByShrinks DEF BookInv, ChargeDays
  <2> QED
    BY <1>1, <2>3, <2>4 DEF BookInv
<1>7. CASE \E k \in Keys : Charge(k)
  <2>1. PICK k \in Keys : Charge(k)
    BY <1>7
  <2>2. UNCHANGED <<requests, purchases, tasks, signed, day>>
    BY <2>1 DEF Charge
  <2>3. (ClaimHeld /\ Opened /\ RowsBought /\ CostTracked /\ CostAgrees /\ ReplayFaithful)'
    BY <1>1, <2>2, BookInvOthers
  <2>4. ChargeDays'
    <3>1. signed[k] > 0 /\ charged' = [charged EXCEPT ![k] = day]
      BY <2>1 DEF Charge
    <3>2. purchases[k].day <= day
      BY <1>1 DEF IInv, RowsBounded
    <3> QED
      BY <1>1, <2>2, <3>1, <3>2 DEF BookInv, ChargeDays, TypeOK
  <2>5. Dated' /\ BookedBy'
    BY <1>1, <1>2, <2>2, BookedByShrinks DEF BookInv
  <2> QED
    BY <1>1, <2>3, <2>4, <2>5 DEF BookInv
<1> QED
  BY <1>3, <1>4, <1>5, <1>6, <1>7 DEF Next

LEMMA BookInvariance == Spec => []BookInv
<1> QED
  BY BookInvInit, BookInvNext, PTL DEF Spec

-----------------------------------------------------------------------------
(* The theorems *)

\* A customer is only ever answered with the result of the very request the
\* payment was claimed for, stored as COMPLETED, through retries and restarts.
THEOREM ReplayFaithfulTheorem == Spec => []ReplayFaithful
<1>1. BookInv => ReplayFaithful
  BY DEF BookInv
<1> QED
  BY <1>1, BookInvariance, PTL

\* The cost stored with a closed request is the sum of the supplier rows of its
\* payment, for any prices, outcomes, failures and restarts.
THEOREM CostAgreesTheorem == Spec => []CostAgrees
<1>1. BookInv => CostAgrees
  BY DEF BookInv
<1> QED
  BY <1>1, BookInvariance, PTL

\* A payment never buys more than one plan: what its rows hold is at most the
\* maxima of the plan's suppliers, one row to each.
LEMMA BookBoundsSpend ==
    ASSUME BookInv
    PROVE  PaymentSpendBounded
<1> SUFFICES ASSUME NEW p \in Payments, Total(Amounts, RowsOf(p)) > 0
             PROVE  /\ requests[p].status # "ABSENT"
                    /\ Total(Amounts, RowsOf(p)) <= Total(MaxAmount, Bought(p))
  BY DEF PaymentSpendBounded, Bought, OpeningRow
<1> DEFINE Full == {k \in RowsOf(p) : Amounts[k] > 0}
           supplier == [k \in Full |-> k[2]]
<1>1. PICK b \in Nat : \A s \in Suppliers : MaxAmount[s] \in 0..b
  BY KeysFinite
<1>2. TypeOK /\ RowsBounded
  BY DEF BookInv, IInv
<1>3. /\ RowsOf(p) \in SUBSET Keys
      /\ \A k \in RowsOf(p) : Amounts[k] \in 0..b
  BY <1>1, <1>2, PaymentRows
<1>4. Total(Amounts, RowsOf(p)) = Total(Amounts, Full)
  <2>1. \A k \in RowsOf(p) \ Full : Amounts[k] = 0
    BY <1>3
  <2> QED
    BY <2>1, TotalDrop
<1>5. Full # {}
  <2>1. Total(Amounts, {}) = 0
    BY TotalEmpty
  <2> QED
    BY <1>4, <2>1
<1>6. \A k \in Full : /\ requests[p].status # "ABSENT" /\ k[2] \in Bought(p)
                      /\ Amounts[k] \in Nat /\ Amounts[k] <= MaxAmount[k[2]]
  <2> TAKE k \in Full
  <2>1. k \in Keys /\ k[1] = p /\ Amounts[k] = purchases[k].amount
    BY <1>3 DEF RowsOf, Amounts
  <2>2. purchases[k].amount > 0 /\ purchases[k].amount <= MaxAmount[k[2]]
    BY <2>1, <1>2 DEF RowsBounded
  <2> QED
    BY <1>3, <2>1, <2>2 DEF BookInv, RowsBought
<1>7. requests[p].status # "ABSENT"
  BY <1>5, <1>6
<1>8. IsFiniteSet(Bought(p)) /\ \A s \in Bought(p) : MaxAmount[s] \in 0..b
  <2>1. Product[requests[p].request] \in {"profile", "python"}
    BY <1>2, <1>7, ConstantsAssumption DEF TypeOK, RequestRow, NoRequest
  <2>2. Bought(p) \in SUBSET Suppliers
    BY <2>1 DEF Bought, Plan, Suppliers
  <2>3. IsFiniteSet(Suppliers)
    <3>1. {p} \X Suppliers \in SUBSET Keys
      BY DEF Keys
    <3>2. IsFiniteSet({p} \X Suppliers)
      BY <3>1, KeysFinite, FS_Subset, Zenon
    <3> DEFINE f == [k \in {p} \X Suppliers |-> k[2]]
    <3>3. f \in Surjection({p} \X Suppliers, Suppliers)
      <4>1. \A s \in Suppliers : f[<<p, s>>] = s /\ <<p, s>> \in {p} \X Suppliers
        OBVIOUS
      <4> QED
        BY <4>1 DEF Surjection
    <3> QED
      BY <3>2, <3>3, FS_Surjection
  <2> QED
    BY <1>1, <2>2, <2>3, FS_Subset
<1>9. \A j, k \in Full : supplier[j] = supplier[k] => j = k
  BY DEF RowsOf, Keys
<1>10. \A k \in Full : /\ supplier[k] \in Bought(p) /\ Amounts[k] \in Nat
                       /\ Amounts[k] <= MaxAmount[supplier[k]]
  BY <1>6
<1> HIDE DEF Full, supplier
<1>11. Total(Amounts, Full) <= Total(MaxAmount, Bought(p))
  BY <1>8, <1>9, <1>10, TotalInject
<1> QED
  BY <1>4, <1>7, <1>11

\* One customer payment buys one plan, and beyond its opening purchase only when
\* that one was FULFILLED, whatever it is retried with and however calls, failures
\* and restarts interleave.
THEOREM PaymentSpendTheorem == Spec => []PaymentSpendBounded
<1>1. BookInv => PaymentSpendBounded
  BY BookBoundsSpend
<1> QED
  BY <1>1, BookInvariance, PTL

\* What was taken by the end of a day is held by rows of the days so far.
LEMMA BookBoundsTaken ==
    ASSUME BookInv
    PROVE  SpendOverDays
<1> SUFFICES ASSUME NEW d \in 1..day
             PROVE  Total(signed, {k \in Keys : charged[k] \in 1..d}) <= d * DailyCap
  BY DEF SpendOverDays
<1> DEFINE taken == {k \in Keys : charged[k] \in 1..d}
           booked == CountedUpTo(d)
           id == [k \in taken |-> k]
<1>1. PICK b \in Nat : \A s \in Suppliers : MaxAmount[s] \in 0..b
  BY KeysFinite
<1>2. TypeOK /\ RowsBounded /\ SpendCovered /\ ChargeDays /\ day \in Nat /\ d \in Nat
  BY DEF BookInv, IInv, TypeOK
<1>3. /\ \A k \in Keys : Amounts[k] \in 0..b
      /\ IsFiniteSet(booked) /\ booked \in SUBSET Keys /\ Total(Amounts, booked) \in Nat
  BY <1>1, <1>2, UpToFacts
<1>4. \A k \in taken : /\ k \in booked /\ signed[k] \in Nat /\ signed[k] <= Amounts[k]
  <2> TAKE k \in taken
  <2>1. k \in Keys /\ charged[k] \in Nat /\ charged[k] > 0 /\ charged[k] <= d
    BY <1>2 DEF TypeOK
  <2>2. /\ signed[k] > 0 /\ signed[k] \in Nat
        /\ purchases[k].day <= charged[k] /\ purchases[k].day \in Nat
    BY <1>2, <2>1 DEF ChargeDays, TypeOK, PurchaseRow
  <2>3. purchases[k].status \in Counted /\ signed[k] <= purchases[k].amount
    BY <1>2, <2>1, <2>2 DEF SpendCovered
  <2> QED
    BY <1>2, <2>1, <2>2, <2>3 DEF CountedUpTo, Amounts
<1>5. \A k \in taken : id[k] \in booked /\ signed[k] \in Nat /\ signed[k] <= Amounts[id[k]]
  BY <1>4
<1>6. \A j, k \in taken : id[j] = id[k] => j = k
  OBVIOUS
<1>7. \A k \in booked : Amounts[k] \in 0..b
  BY <1>3
<1>8. Total(Amounts, booked) <= d * DailyCap
  BY <1>2 DEF BookInv, BookedBy
<1> HIDE DEF taken, booked, id
<1>9. Total(signed, taken) <= Total(Amounts, booked)
  BY <1>3, <1>5, <1>6, <1>7, TotalInject
<1>10. Total(signed, taken) \in Nat
  <2>1. IsFiniteSet(taken)
    BY KeysFinite, FS_Subset DEF taken
  <2>2. \A k \in taken : signed[k] \in 0..b
    <3> TAKE k \in taken
    <3>1. signed[k] \in Nat /\ signed[k] <= Amounts[k] /\ Amounts[k] \in 0..b
      BY <1>3, <1>4
    <3> QED
      BY <3>1
  <2> QED
    BY <2>1, <2>2, TotalType
<1>11. Total(signed, taken) <= d * DailyCap
  BY <1>2, <1>3, <1>8, <1>9, <1>10, CapsAdd
<1> QED
  BY <1>11 DEF taken

\* However late a supplier takes the money of a payment it was sent, over midnights,
\* closed calls and restarts: up to the end of any day no more was taken than the
\* caps of the days so far.
THEOREM SpendOverDaysTheorem == Spec => []SpendOverDays
<1>1. BookInv => SpendOverDays
  BY BookBoundsTaken
<1> QED
  BY <1>1, BookInvariance, PTL

-----------------------------------------------------------------------------
(* What is claimed once *)

LEMMA ClaimedOnceStep ==
    ASSUME TypeOK, [Next]_vars, NEW p \in Payments,
           requests[p].status # "ABSENT", ~Owned(p)
    PROVE  /\ requests'[p] = requests[p] /\ ~Owned(p)'
           /\ \A s \in Suppliers : purchases'[<<p, s>>] = purchases[<<p, s>>]
<1> SUFFICES /\ requests'[p] = requests[p]
             /\ \A k \in RowsOf(p) : purchases'[k] = purchases[k]
             /\ \A u \in Tasks : Running(u)' => tasks'[u].payment # p
  BY DEF Owned, Running, RowsOf, Keys
<1>1. \A u \in Tasks : Running(u) => tasks[u].payment # p
  BY DEF Owned, Running
<1>2. CASE \E t \in Tasks : Step(t)
  <2>1. PICK t \in Tasks : Step(t)
    BY <1>2
  <2>2. /\ tasks'[t].payment = tasks[t].payment
        /\ \A k \in Keys \ {Key(t)} : purchases'[k] = purchases[k]
        /\ \A q \in Payments \ {tasks[t].payment} : requests'[q] = requests[q]
        /\ ~Running(t) => UNCHANGED purchases
        /\ \A u \in Tasks \ {t} : tasks'[u] = tasks[u]
    BY <2>1, StepShape, OthersKeep
  <2>3. CASE tasks[t].payment # p
    BY <1>1, <2>2, <2>3 DEF RowsOf, Key, Running
  <2>4. CASE tasks[t].payment = p
    <3>1. ~Running(t)
      BY <1>1, <2>4
    <3>2. Refuses(t) \/ Breaks(t)
      BY <2>1, <2>4, <3>1, StepKinds DEF Claims, Attempts, Closes, Running
    <3>3. requests' = requests /\ tasks'[t].pc = "done"
      BY <3>2 DEF Refuses, Breaks
    <3> QED
      BY <1>1, <2>2, <3>1, <3>3 DEF Running
  <2> QED
    BY <2>3, <2>4
<1>3. CASE \/ \E t \in Tasks, q \in Payments, r \in Requests : Call(t, q, r)
           \/ (\E k \in Keys : Charge(k)) \/ Midnight \/ Restart \/ UNCHANGED vars
  <2>1. UNCHANGED <<requests, purchases>>
    BY <1>3 DEF Call, Charge, Midnight, Restart, vars
  <2>2. \A u \in Tasks : Running(u)' => tasks'[u] = tasks[u]
    <3>1. CASE \E t \in Tasks, q \in Payments, r \in Requests : Call(t, q, r)
      BY <3>1 DEF Call, Locals, TypeOK, Running
    <3>2. CASE (\E k \in Keys : Charge(k)) \/ Midnight \/ UNCHANGED vars
      BY <3>2 DEF Charge, Midnight, vars
    <3>3. CASE Restart
      BY <3>3 DEF Restart, Locals, Ended, Running
    <3> QED
      BY <1>3, <3>1, <3>2, <3>3
  <2> QED
    BY <1>1, <2>1, <2>2 DEF Running
<1> QED
  BY <1>2, <1>3 DEF Next

\* A claim whose call has ended is never taken up again: no later call changes
\* its request or buys anything for it.
THEOREM ClaimedOnceTheorem == Spec => ClaimedOnce
<1>1. IInv /\ [Next]_vars =>
        [\A p \in Payments : (requests[p].status # "ABSENT" /\ ~Owned(p)) =>
             /\ requests'[p] = requests[p] /\ ~Owned(p)'
             /\ \A s \in Suppliers : purchases'[<<p, s>>] = purchases[<<p, s>>]]_vars
  BY ClaimedOnceStep DEF IInv
<1> QED
  BY <1>1, Invariance, PTL DEF Spec, ClaimedOnce
=============================================================================
