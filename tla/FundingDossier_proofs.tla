------------------------ MODULE FundingDossier_proofs ------------------------
(***************************************************************************)
(* The dossier keeps its types, sells one dossier for one payment, reports *)
(* the cost its ledger holds, and implements the budget of SupplierBudget: *)
(* for any payments, calls, prices and cap, and any days and restarts.     *)
(***************************************************************************)
EXTENDS FundingDossier, LedgerSum_proofs

Inside == {"source", "search", "prepare", "record"}

\* What a call is about to write, or has written, goes with what it will answer.
Closing(task) ==
    /\ task.status \in {"FULFILLED", "UNKNOWN", "FAILED_PRE_PAYMENT"}
    /\ task.status = "FAILED_PRE_PAYMENT" => signed[task.payment] = 0
    /\ task.cost = IF task.status \in Counted THEN Cost ELSE 0
    /\ task.reply = IF task.status = "FULFILLED" THEN "prepared" ELSE "failed"

\* A call that is past its reservation has an open row; nothing was signed before
\* the search; and a row that a call has closed stays as the call closed it.
Safe(task) ==
    /\ task.pc \in Inside => purchases[task.payment].status = "RESERVED"
    /\ task.pc \in {"source", "search"} => signed[task.payment] = 0
    /\ task.pc = "record" => Closing(task)
    /\ task.pc = "done" /\ task.reply \in {"prepared", "failed"} =>
           Closing(task) /\ purchases[task.payment].status = task.status

\* Rows are not of the future, an absent one was never dated, and payments were signed
\* only for rows that count, and no more than they are booked at.
RowsSound ==
    \A p \in Payments :
        /\ purchases[p].day <= day
        /\ purchases[p].status = "ABSENT" => purchases[p].day = 0
        /\ signed[p] <= Cost
        /\ purchases[p].status \notin Counted => signed[p] = 0

IInv ==
    /\ TypeOK
    /\ \A t \in Tasks : tasks[t] # IdleTask => Safe(tasks[t])
    /\ RowsSound
    /\ DossierOnce

LEMMA Constants ==
    /\ IsFiniteSet(Payments) /\ NoTask \notin Tasks
    /\ Cost \in Nat /\ Cost # 0 /\ Prices \subseteq Nat \ {0} /\ DailyCap \in Nat
BY ConstantsAssumption

\* A call under way has all its variables.
LEMMA UnderWay ==
    ASSUME IInv, NEW t \in Tasks, tasks[t].pc # "idle"
    PROVE  \E old \in Task : /\ old = tasks[t] /\ Safe(old) /\ tasks[t] # IdleTask
                             /\ Payment(t) = old.payment /\ old.payment \in Payments
  <1>1. tasks[t] \in Task /\ tasks[t] # IdleTask
    BY DEF IInv, TypeOK, IdleTask
  <1>2. Safe(tasks[t])
    BY <1>1 DEF IInv
  <1> QED
    BY <1>1, <1>2 DEF Payment, Task

-----------------------------------------------------------------------------
(* Invariance *)

\* A step of one call that leaves it safe, touches no closed row, signs payments only
\* for an open row, and changes rows only while nobody else is inside.
LEMMA MoveKeeps ==
    ASSUME IInv, NEW t \in Tasks, NEW new \in Task, tasks' = [tasks EXCEPT ![t] = new],
           Safe(new)', RowsSound',
           new.pc = "done" /\ new.reply = "prepared" => purchases[new.payment].status = "RESERVED",
           purchases' \in [Payments -> [status : {"ABSENT", "FAILED_PRE_PAYMENT"} \cup Counted,
                                        day : Nat]],
           signed' \in [Payments -> Nat],
           \A p \in Payments : \/ purchases'[p] = purchases[p]
                               \/ purchases[p].status \in {"ABSENT", "RESERVED"},
           \A p \in Payments : signed'[p] = signed[p] \/ purchases[p].status = "RESERVED",
           UNCHANGED <<purchases, signed>> \/ \A u \in Tasks \ {t} : tasks[u].pc \notin Inside,
           lock' \in Tasks \cup {NoTask},
           \A u \in Tasks : (lock' = u) <=> tasks'[u].pc \in Inside,
           UNCHANGED <<day, restarts>>
    PROVE  IInv'
  <1>1. /\ tasks' \in [Tasks -> {IdleTask} \cup Task]
        /\ tasks'[t] = new /\ \A u \in Tasks \ {t} : tasks'[u] = tasks[u]
    BY DEF IInv, TypeOK
  <1>2. \A u \in Tasks : Running(u)' <=> tasks'[u].pc \in Inside
    BY <1>1 DEF Running, Inside, Task, IdleTask
  <1>3. TypeOK'
    BY <1>1, <1>2 DEF IInv, TypeOK
  <1>4. ASSUME NEW u \in Tasks, u # t, tasks[u] # IdleTask
        PROVE  Safe(tasks[u])' /\ tasks'[u] = tasks[u]
    <2>1. PICK old \in Task : old = tasks[u] /\ old.payment \in Payments
      BY <1>4 DEF IInv, TypeOK, Task
    <2>2. Safe(old)
      BY <1>4, <2>1 DEF IInv
    <2>3. old.pc \in Inside => /\ purchases'[old.payment] = purchases[old.payment]
                               /\ signed'[old.payment] = signed[old.payment]
      BY <1>4, <2>1
    <2>4. old.pc = "done" /\ old.reply \in {"prepared", "failed"} =>
             /\ purchases'[old.payment] = purchases[old.payment]
             /\ signed'[old.payment] = signed[old.payment]
      BY <2>1, <2>2 DEF Safe, Closing
    <2>5. Safe(old)'
      BY <2>2, <2>3, <2>4 DEF Safe, Closing, Inside
    <2>6. tasks'[u] = old
      BY <1>1, <1>4, <2>1
    <2> QED
      BY <2>1, <2>5, <2>6
  <1>5. ASSUME NEW u \in Tasks, tasks'[u] # IdleTask PROVE Safe(tasks[u])'
    <2>1. CASE u = t
      BY <1>1, <2>1
    <2>2. CASE u # t
      BY <1>1, <1>4, <1>5, <2>2
    <2> QED
      BY <2>1, <2>2
  <1>6. ASSUME NEW u \in Tasks, tasks'[u].pc = "done", tasks'[u].reply = "prepared"
        PROVE  purchases'[tasks'[u].payment].status = "FULFILLED"
    BY <1>5, <1>6 DEF Safe, Closing, IdleTask
  <1>7. ASSUME NEW u \in Tasks \ {t}, tasks[u].pc = "done", tasks[u].reply = "prepared",
               new.pc = "done", new.reply = "prepared"
        PROVE  tasks[u].payment # new.payment
    BY <1>7 DEF IInv, DossierOnce, At, Payment
  <1>8. ASSUME NEW u \in Tasks, NEW v \in Tasks \ {u},
               tasks'[u].pc = "done", tasks'[u].reply = "prepared",
               tasks'[v].pc = "done", tasks'[v].reply = "prepared"
        PROVE  tasks'[v].payment # tasks'[u].payment
    BY <1>1, <1>7, <1>8 DEF IInv, DossierOnce, At, Payment
  <1>9. DossierOnce'
    BY <1>6, <1>8 DEF DossierOnce, At, Payment
  <1> QED
    BY <1>3, <1>5, <1>9 DEF IInv

\* A step of one call that writes no row and signs no payment.
LEMMA QuietKeeps ==
    ASSUME IInv, NEW t \in Tasks, NEW new \in Task, tasks' = [tasks EXCEPT ![t] = new],
           Safe(new), ~(new.pc = "done" /\ new.reply = "prepared"),
           lock' \in Tasks \cup {NoTask},
           \A u \in Tasks : (lock' = u) <=> tasks'[u].pc \in Inside,
           UNCHANGED <<purchases, signed, day, restarts>>
    PROVE  IInv'
  <1>1. Safe(new)'
    BY DEF Safe, Closing
  <1>2. RowsSound'
    BY DEF IInv, RowsSound
  <1> QED
    BY <1>1, <1>2, MoveKeeps DEF IInv, TypeOK

\* The lock follows a call that stays inside, or one that leaves.
LEMMA LockFollows ==
    ASSUME IInv, NEW t \in Tasks, NEW new \in Task, tasks' = [tasks EXCEPT ![t] = new],
           \/ new.pc \in Inside /\ tasks[t].pc \in Inside /\ UNCHANGED lock
           \/ new.pc \notin Inside /\ (tasks[t].pc \in Inside \/ lock = NoTask) /\ lock' = NoTask
           \/ new.pc \in Inside /\ lock = NoTask /\ lock' = t
    PROVE  /\ lock' \in Tasks \cup {NoTask}
           /\ \A u \in Tasks : (lock' = u) <=> tasks'[u].pc \in Inside
  <1>1. tasks'[t] = new /\ \A u \in Tasks \ {t} : tasks'[u] = tasks[u]
    BY DEF IInv, TypeOK
  <1>2. \A u \in Tasks : (lock = u) <=> tasks[u].pc \in Inside
    BY DEF IInv, TypeOK, Running, Inside, Task, IdleTask
  <1> QED
    BY <1>1, <1>2, Constants DEF IInv, TypeOK

\* What a step makes of its call.
LEMMA GoMoves ==
    ASSUME NEW t \in Tasks, NEW old \in Task, old = tasks[t], NEW pc \in Inside, Go(t, pc)
    PROVE  \E new \in Task :
              /\ tasks' = [tasks EXCEPT ![t] = new]
              /\ new.pc = pc /\ new.payment = old.payment
  <1>1. [old EXCEPT !.pc = pc] \in Task
    BY DEF Task, Inside
  <1>2. tasks' = [tasks EXCEPT ![t] = [old EXCEPT !.pc = pc]]
    BY DEF Go
  <1>3. [old EXCEPT !.pc = pc].pc = pc /\ [old EXCEPT !.pc = pc].payment = old.payment
    BY DEF Task
  <1> QED
    BY <1>1, <1>2, <1>3

LEMMA CloseMoves ==
    ASSUME NEW t \in Tasks, NEW old \in Task, old = tasks[t],
           NEW status \in {"FULFILLED", "UNKNOWN", "FAILED_PRE_PAYMENT"},
           NEW reply \in {"prepared", "failed"}, NEW cost \in {0, Cost},
           Close(t, status, reply, cost)
    PROVE  \E new \in Task :
              /\ tasks' = [tasks EXCEPT ![t] = new]
              /\ new.pc = "record" /\ new.payment = old.payment
              /\ new.status = status /\ new.reply = reply /\ new.cost = cost
  <1>1. PICK one \in Task : one = [old EXCEPT !.pc = "record"]
    <2>1. [old EXCEPT !.pc = "record"] \in Task
      BY DEF Task
    <2> QED
      BY <2>1
  <1>2. PICK two \in Task : two = [one EXCEPT !.status = status]
    <2>1. [one EXCEPT !.status = status] \in Task
      BY DEF Task, Counted
    <2> QED
      BY <2>1
  <1>3. PICK three \in Task : three = [two EXCEPT !.reply = reply]
    <2>1. [two EXCEPT !.reply = reply] \in Task
      BY DEF Task
    <2> QED
      BY <2>1
  <1>4. PICK new \in Task : new = [three EXCEPT !.cost = cost]
    <2>1. [three EXCEPT !.cost = cost] \in Task
      BY DEF Task
    <2> QED
      BY <2>1
  <1>5. /\ new.pc = "record" /\ new.payment = old.payment
        /\ new.status = status /\ new.reply = reply /\ new.cost = cost
    BY <1>1, <1>2, <1>3, <1>4 DEF Task
  <1>6. tasks' = [tasks EXCEPT ![t] = new]
    BY <1>1, <1>2, <1>3, <1>4 DEF Close
  <1> QED
    BY <1>5, <1>6

LEMMA LeaveMoves ==
    ASSUME NEW t \in Tasks, NEW old \in Task, old = tasks[t],
           NEW reply \in {"none", "refused", "prepared", "failed", "error", "lost"},
           NEW cost \in {0, Cost}, Leave(t, reply, cost)
    PROVE  \E new \in Task :
              /\ tasks' = [tasks EXCEPT ![t] = new]
              /\ new.pc = "done" /\ new.payment = old.payment /\ new.status = old.status
              /\ new.reply = reply /\ new.cost = cost
  <1>1. PICK one \in Task : one = [old EXCEPT !.pc = "done"]
    <2>1. [old EXCEPT !.pc = "done"] \in Task
      BY DEF Task
    <2> QED
      BY <2>1
  <1>2. PICK two \in Task : two = [one EXCEPT !.reply = reply]
    <2>1. [one EXCEPT !.reply = reply] \in Task
      BY DEF Task
    <2> QED
      BY <2>1
  <1>3. PICK new \in Task : new = [two EXCEPT !.cost = cost]
    <2>1. [two EXCEPT !.cost = cost] \in Task
      BY DEF Task
    <2> QED
      BY <2>1
  <1>4. /\ new.pc = "done" /\ new.payment = old.payment /\ new.status = old.status
        /\ new.reply = reply /\ new.cost = cost
    BY <1>1, <1>2, <1>3 DEF Task
  <1>5. tasks' = [tasks EXCEPT ![t] = new]
    BY <1>1, <1>2, <1>3 DEF Leave
  <1> QED
    BY <1>4, <1>5

LEMMA CallKeeps ==
    ASSUME IInv, NEW t \in Tasks, NEW p \in Payments, Call(t, p) PROVE IInv'
  <1> DEFINE new == [pc |-> "waiting", payment |-> p, status |-> "none",
                     reply |-> "none", cost |-> 0]
  <1>1. new \in Task /\ new.pc = "waiting" /\ new.reply = "none"
    BY DEF Task
  <1>2. /\ tasks[t].pc \notin Inside /\ tasks' = [tasks EXCEPT ![t] = new]
        /\ UNCHANGED <<purchases, lock, signed, day, restarts>>
    BY DEF Call, IdleTask, Inside
  <1> HIDE DEF new
  <1>3. Safe(new)
    BY <1>1 DEF Safe, Inside
  <1>4. \A u \in Tasks : (lock' = u) <=> tasks'[u].pc \in Inside
    <2>1. tasks'[t] = new /\ \A u \in Tasks \ {t} : tasks'[u] = tasks[u]
      BY <1>2 DEF IInv, TypeOK
    <2> QED
      BY <1>1, <1>2, <2>1 DEF IInv, TypeOK, Running, Inside, Task, IdleTask
  <1> QED
    BY <1>1, <1>2, <1>3, <1>4, QuietKeeps DEF IInv, TypeOK

LEMMA ReserveKeeps == ASSUME IInv, NEW t \in Tasks, Reserve(t) PROVE IInv'
  <1>1. PICK old \in Task : /\ old = tasks[t] /\ old.pc = "waiting"
                            /\ Payment(t) = old.payment /\ old.payment \in Payments
    BY UnderWay DEF Reserve, At
  <1>2. lock = NoTask /\ UNCHANGED <<signed, day, restarts>>
    BY DEF Reserve
  <1>3. CASE Unused(t) /\ FitsCap
    <2>1. /\ purchases[old.payment] = NoPurchase /\ Go(t, "source") /\ lock' = t
          /\ purchases' = [purchases EXCEPT ![old.payment] = [status |-> "RESERVED", day |-> day]]
      BY <1>1, <1>3 DEF Reserve, Unused
    <2>2. PICK new \in Task : /\ tasks' = [tasks EXCEPT ![t] = new]
                              /\ new.pc = "source" /\ new.payment = old.payment
      BY <1>1, <2>1, GoMoves DEF Inside
    <2>3. /\ purchases'[old.payment] = [status |-> "RESERVED", day |-> day]
          /\ \A p \in Payments \ {old.payment} : purchases'[p] = purchases[p]
          /\ purchases' \in [Payments -> [status : {"ABSENT", "FAILED_PRE_PAYMENT"} \cup Counted,
                                          day : Nat]]
      BY <1>1, <2>1 DEF IInv, TypeOK, Counted
    <2>4. signed[old.payment] = 0
      BY <1>1, <2>1 DEF IInv, RowsSound, NoPurchase, Counted
    <2>5. Safe(new)'
      BY <1>1, <1>2, <2>2, <2>3, <2>4 DEF Safe, Inside
    <2>6. RowsSound'
      BY <1>1, <1>2, <2>3 DEF IInv, RowsSound, TypeOK, Counted
    <2>7. \A p \in Payments : purchases'[p] = purchases[p] \/ purchases[p].status = "ABSENT"
      BY <2>1, <2>3 DEF NoPurchase
    <2>8. \A u \in Tasks : tasks[u].pc \notin Inside
      BY <1>2, Constants DEF IInv, TypeOK, Running, Inside
    <2>9. /\ lock' \in Tasks \cup {NoTask}
          /\ \A u \in Tasks : (lock' = u) <=> tasks'[u].pc \in Inside
      BY <1>2, <2>1, <2>2, LockFollows DEF Inside
    <2> QED
      BY <1>2, <2>2, <2>3, <2>5, <2>6, <2>7, <2>8, <2>9, MoveKeeps DEF IInv, TypeOK
  <1>4. CASE ~(Unused(t) /\ FitsCap)
    <2>1. Leave(t, "refused", 0) /\ UNCHANGED purchases
      BY <1>4 DEF Reserve
    <2>2. PICK new \in Task : /\ tasks' = [tasks EXCEPT ![t] = new]
                              /\ new.pc = "done" /\ new.reply = "refused"
      BY <1>1, <2>1, LeaveMoves
    <2>3. lock' = NoTask /\ Safe(new)
      BY <2>1, <2>2 DEF Leave, Safe, Inside
    <2>4. /\ lock' \in Tasks \cup {NoTask}
          /\ \A u \in Tasks : (lock' = u) <=> tasks'[u].pc \in Inside
      BY <1>2, <2>2, <2>3, LockFollows DEF Inside
    <2> QED
      BY <1>2, <2>1, <2>2, <2>3, <2>4, QuietKeeps
  <1> QED
    BY <1>3, <1>4

\* A call inside that stays inside without touching the ledger.
LEMMA InsideKeeps ==
    ASSUME IInv, NEW t \in Tasks, NEW old \in Task, old = tasks[t], old.pc \in Inside,
           NEW new \in Task, tasks' = [tasks EXCEPT ![t] = new], new.payment = old.payment,
           new.pc \in Inside, new.pc \in {"source", "search"} => signed[new.payment] = 0,
           new.pc = "record" => Closing(new),
           UNCHANGED <<purchases, lock, signed, day, restarts>>
    PROVE  IInv'
  <1>1. Safe(old)
    BY DEF IInv, IdleTask, Task
  <1>2. Safe(new) /\ new.pc # "done"
    BY <1>1 DEF Safe, Inside
  <1>3. /\ lock' \in Tasks \cup {NoTask}
        /\ \A u \in Tasks : (lock' = u) <=> tasks'[u].pc \in Inside
    BY LockFollows
  <1> QED
    BY <1>2, <1>3, QuietKeeps

\* A failure is closed consistently, whichever except clause it reaches.
LEMMA FailsConsistently ==
    ASSUME IInv, NEW t \in Tasks, NEW old \in Task, old = tasks[t],
           \/ FailUnpaid(t) /\ signed[old.payment] = 0
           \/ FailPaid(t) \/ Unexpected(t)
           \/ Close(t, "FULFILLED", "prepared", Cost)
    PROVE  \E new \in Task :
              /\ tasks' = [tasks EXCEPT ![t] = new]
              /\ new.pc = "record" /\ new.payment = old.payment /\ Closing(new)
              /\ new.status = "FAILED_PRE_PAYMENT" => FailUnpaid(t)
  <1>1. PICK status \in {"FULFILLED", "UNKNOWN", "FAILED_PRE_PAYMENT"},
              reply \in {"prepared", "failed"}, cost \in {0, Cost} :
           /\ Close(t, status, reply, cost)
           /\ cost = IF status \in Counted THEN Cost ELSE 0
           /\ reply = IF status = "FULFILLED" THEN "prepared" ELSE "failed"
           /\ status = "FAILED_PRE_PAYMENT" => FailUnpaid(t) /\ signed[old.payment] = 0
    BY DEF FailUnpaid, FailPaid, Unexpected, Counted
  <1>2. PICK new \in Task :
           /\ tasks' = [tasks EXCEPT ![t] = new]
           /\ new.pc = "record" /\ new.payment = old.payment
           /\ new.status = status /\ new.reply = reply /\ new.cost = cost
    BY <1>1, CloseMoves
  <1>3. Closing(new)
    BY <1>1, <1>2 DEF Closing
  <1> QED
    BY <1>1, <1>2, <1>3

LEMMA LoadSourceKeeps == ASSUME IInv, NEW t \in Tasks, LoadSource(t) PROVE IInv'
  <1>1. PICK old \in Task : /\ old = tasks[t] /\ Safe(old) /\ old.pc = "source"
    BY UnderWay DEF LoadSource, At
  <1>2. signed[old.payment] = 0 /\ UNCHANGED <<purchases, lock, signed, day, restarts>>
    BY <1>1 DEF Safe, LoadSource
  <1>3. PICK new \in Task : /\ tasks' = [tasks EXCEPT ![t] = new] /\ new.payment = old.payment
                            /\ new.pc \in {"search", "record"}
                            /\ new.pc = "record" => Closing(new)
    <2>1. CASE Go(t, "search")
      <3>1. "search" \in Inside
        BY DEF Inside
      <3> QED
        BY <1>1, <2>1, <3>1, GoMoves
    <2>2. CASE FailUnpaid(t)
      BY <1>1, <1>2, <2>2, FailsConsistently
    <2> QED
      BY <2>1, <2>2 DEF LoadSource
  <1> QED
    BY <1>1, <1>2, <1>3, InsideKeeps DEF Inside

LEMMA PrepareKeeps == ASSUME IInv, NEW t \in Tasks, Prepare(t) PROVE IInv'
  <1>1. PICK old \in Task : /\ old = tasks[t] /\ Safe(old) /\ old.pc = "prepare"
    BY UnderWay DEF Prepare, At
  <1>2. PICK new \in Task : /\ tasks' = [tasks EXCEPT ![t] = new] /\ new.payment = old.payment
                            /\ new.pc = "record" /\ Closing(new)
    BY <1>1, FailsConsistently DEF Prepare
  <1>3. UNCHANGED <<purchases, lock, signed, day, restarts>>
    BY DEF Prepare
  <1> QED
    BY <1>1, <1>2, <1>3, InsideKeeps DEF Inside

LEMMA SearchKeeps == ASSUME IInv, NEW t \in Tasks, Search(t) PROVE IInv'
  <1>1. PICK old \in Task : /\ old = tasks[t] /\ Safe(old) /\ old.pc = "search"
                            /\ Payment(t) = old.payment /\ old.payment \in Payments
    BY UnderWay DEF Search, At
  <1>2. /\ purchases[old.payment].status = "RESERVED" /\ signed[old.payment] = 0
        /\ UNCHANGED <<purchases, lock, day, restarts>>
    BY <1>1 DEF Safe, Inside, Search
  <1>3. PICK price \in Nat : /\ price <= Cost /\ (price # 0 => ~FailUnpaid(t) \/ UNCHANGED signed)
                             /\ signed' = [signed EXCEPT ![old.payment] = price]
    <2>1. CASE UNCHANGED signed
      BY <1>1, <1>2, <2>1, Constants DEF IInv, TypeOK
    <2>2. CASE ~UNCHANGED signed
      <3>1. Sign(t) /\ (Go(t, "prepare") \/ FailPaid(t) \/ Unexpected(t))
        BY <2>2 DEF Search
      <3>2. PICK price \in Prices : price <= Cost /\ signed' = [signed EXCEPT ![old.payment] = price]
        BY <1>1, <3>1 DEF Sign, Acceptable
      <3>3. ~FailUnpaid(t)
        <4>1. PICK one \in {"prepare", "record"}, status \in {"UNKNOWN", old.status} :
                 /\ tasks'[t].pc = one /\ tasks'[t].status = status
                 /\ one = "record" => status = "UNKNOWN"
          <5>1. tasks'[t] = IF Go(t, "prepare") THEN [old EXCEPT !.pc = "prepare"]
                            ELSE [old EXCEPT !.pc = "record", !.status = "UNKNOWN",
                                             !.reply = "failed", !.cost = Cost]
            BY <1>1, <3>1 DEF Go, FailPaid, Unexpected, Close, IInv, TypeOK
          <5> QED
            BY <5>1 DEF Task
        <4>2. FailUnpaid(t) => tasks'[t] = [old EXCEPT !.pc = "record", !.status = "FAILED_PRE_PAYMENT",
                                                       !.reply = "failed", !.cost = 0]
          BY <1>1 DEF FailUnpaid, Close, IInv, TypeOK
        <4> QED
          BY <4>1, <4>2 DEF Task
      <3> QED
        BY <3>2, <3>3, Constants
    <2> QED
      BY <2>1, <2>2
  <1>4. /\ signed' \in [Payments -> Nat] /\ signed'[old.payment] = price
        /\ \A p \in Payments \ {old.payment} : signed'[p] = signed[p]
    BY <1>1, <1>3 DEF IInv, TypeOK
  <1>5. PICK new \in Task : /\ tasks' = [tasks EXCEPT ![t] = new] /\ new.payment = old.payment
                            /\ new.pc \in {"prepare", "record"}
                            /\ new.pc = "record" => Closing(new)'
    <2>1. CASE Go(t, "prepare")
      <3>1. "prepare" \in Inside
        BY DEF Inside
      <3> QED
        BY <1>1, <2>1, <3>1, GoMoves
    <2>2. CASE FailUnpaid(t) \/ FailPaid(t) \/ Unexpected(t)
      <3>1. PICK new \in Task : /\ tasks' = [tasks EXCEPT ![t] = new]
                                /\ new.pc = "record" /\ new.payment = old.payment /\ Closing(new)
                                /\ new.status = "FAILED_PRE_PAYMENT" => FailUnpaid(t)
        BY <1>1, <1>2, <2>2, FailsConsistently
      <3>2. new.status = "FAILED_PRE_PAYMENT" => price = 0
        BY <1>2, <1>3, <1>4, <3>1
      <3>3. Closing(new)'
        BY <1>4, <3>1, <3>2 DEF Closing
      <3> QED
        BY <3>1, <3>3
    <2> QED
      BY <2>1, <2>2 DEF Search
  <1>6. Safe(new)'
    BY <1>2, <1>5 DEF Safe, Inside
  <1>7. RowsSound'
    BY <1>2, <1>3, <1>4 DEF IInv, RowsSound, Counted
  <1>8. \A u \in Tasks \ {t} : tasks[u].pc \notin Inside
    BY <1>1 DEF IInv, TypeOK, Running, Inside
  <1>9. /\ lock' \in Tasks \cup {NoTask}
        /\ \A u \in Tasks : (lock' = u) <=> tasks'[u].pc \in Inside
    BY <1>1, <1>2, <1>5, LockFollows DEF Inside
  <1> QED
    BY <1>1, <1>2, <1>4, <1>5, <1>6, <1>7, <1>8, <1>9, MoveKeeps DEF IInv, TypeOK

LEMMA CompleteKeeps == ASSUME IInv, NEW t \in Tasks, Complete(t) PROVE IInv'
  <1>1. PICK old \in Task : /\ old = tasks[t] /\ Safe(old) /\ old.pc = "record"
                            /\ Payment(t) = old.payment /\ old.payment \in Payments
    BY UnderWay DEF Complete, At
  <1>2. /\ purchases[old.payment].status = "RESERVED" /\ Closing(old)
        /\ UNCHANGED <<signed, day, restarts>>
    BY <1>1 DEF Safe, Inside, Complete
  <1>3. PICK new \in Task : /\ tasks' = [tasks EXCEPT ![t] = new]
                            /\ new.pc = "done" /\ new.payment = old.payment
                            /\ new.status = old.status /\ new.reply = old.reply
                            /\ new.cost = old.cost
    <2>1. PICK reply \in {"prepared", "failed"}, cost \in {0, Cost} :
             reply = old.reply /\ cost = old.cost
      BY <1>2 DEF Closing
    <2>2. Leave(t, reply, cost)
      BY <1>1, <2>1 DEF Complete
    <2> QED
      BY <1>1, <2>1, <2>2, LeaveMoves
  <1>4. /\ purchases'[old.payment] = [purchases[old.payment] EXCEPT !.status = old.status]
        /\ \A p \in Payments \ {old.payment} : purchases'[p] = purchases[p]
        /\ purchases' = [purchases EXCEPT ![old.payment] = [@ EXCEPT !.status = old.status]]
    BY <1>1 DEF Complete, IInv, TypeOK
  <1>5. /\ purchases'[old.payment].status = old.status
        /\ purchases'[old.payment].day = purchases[old.payment].day
        /\ purchases' \in [Payments -> [status : {"ABSENT", "FAILED_PRE_PAYMENT"} \cup Counted,
                                        day : Nat]]
    <2>1. old.status \in {"ABSENT", "FAILED_PRE_PAYMENT"} \cup Counted
      BY <1>2 DEF Closing, Counted
    <2> QED
      BY <1>1, <1>4, <2>1 DEF IInv, TypeOK
  <1>6. Safe(new)'
    BY <1>2, <1>3, <1>5 DEF Safe, Closing, Inside
  <1>7. RowsSound'
    BY <1>2, <1>4, <1>5 DEF IInv, RowsSound, Closing, Counted
  <1>8. \A u \in Tasks \ {t} : tasks[u].pc \notin Inside
    BY <1>1 DEF IInv, TypeOK, Running, Inside
  <1>9. lock' = NoTask
    BY DEF Complete, Leave
  <1>10. /\ lock' \in Tasks \cup {NoTask}
         /\ \A u \in Tasks : (lock' = u) <=> tasks'[u].pc \in Inside
    BY <1>1, <1>3, <1>9, LockFollows DEF Inside
  <1>11. \A p \in Payments : purchases'[p] = purchases[p] \/ purchases[p].status = "RESERVED"
    BY <1>2, <1>4
  <1> QED
    BY <1>2, <1>3, <1>5, <1>6, <1>7, <1>8, <1>10, <1>11, MoveKeeps DEF IInv, TypeOK

LEMMA CompleteFailsKeeps == ASSUME IInv, NEW t \in Tasks, CompleteFails(t) PROVE IInv'
  <1>1. PICK old \in Task : old = tasks[t] /\ Safe(old) /\ old.pc = "record"
    BY UnderWay DEF CompleteFails, At
  <1>2. UNCHANGED <<purchases, signed, day, restarts>>
    BY DEF CompleteFails
  <1>3. CASE old.status = "FULFILLED"
    <2>1. Unexpected(t) /\ UNCHANGED lock
      BY <1>1, <1>3 DEF CompleteFails
    <2>2. PICK new \in Task : /\ tasks' = [tasks EXCEPT ![t] = new] /\ new.payment = old.payment
                              /\ new.pc = "record" /\ Closing(new)
      BY <1>1, <2>1, FailsConsistently
    <2> QED
      BY <1>1, <1>2, <2>1, <2>2, InsideKeeps DEF Inside
  <1>4. CASE old.status # "FULFILLED"
    <2>1. Leave(t, "error", 0)
      BY <1>1, <1>4 DEF CompleteFails
    <2>2. PICK new \in Task : /\ tasks' = [tasks EXCEPT ![t] = new]
                              /\ new.pc = "done" /\ new.reply = "error"
      BY <1>1, <2>1, LeaveMoves
    <2>3. lock' = NoTask /\ Safe(new)
      BY <2>1, <2>2 DEF Leave, Safe, Inside
    <2>4. /\ lock' \in Tasks \cup {NoTask}
          /\ \A u \in Tasks : (lock' = u) <=> tasks'[u].pc \in Inside
      BY <1>1, <2>2, <2>3, LockFollows DEF Inside
    <2> QED
      BY <1>2, <2>2, <2>3, <2>4, QuietKeeps
  <1> QED
    BY <1>3, <1>4

LEMMA ReserveFailsKeeps == ASSUME IInv, NEW t \in Tasks, ReserveFails(t) PROVE IInv'
  <1>1. PICK old \in Task : old = tasks[t] /\ old.pc = "waiting"
    BY UnderWay DEF ReserveFails, At
  <1>2. PICK new \in Task : /\ tasks' = [tasks EXCEPT ![t] = new]
                            /\ new.pc = "done" /\ new.reply = "error"
    BY <1>1, LeaveMoves DEF ReserveFails
  <1>3. /\ lock = NoTask /\ lock' = NoTask /\ Safe(new)
        /\ UNCHANGED <<purchases, signed, day, restarts>>
    BY <1>2 DEF ReserveFails, Leave, Safe, Inside
  <1>4. /\ lock' \in Tasks \cup {NoTask}
        /\ \A u \in Tasks : (lock' = u) <=> tasks'[u].pc \in Inside
    BY <1>1, <1>2, <1>3, LockFollows DEF Inside
  <1> QED
    BY <1>2, <1>3, <1>4, QuietKeeps

LEMMA RestartKeeps == ASSUME IInv, Restart PROVE IInv'
  <1>1. \A t \in Tasks :
           \/ tasks[t].pc \in {"idle", "done"} /\ tasks'[t] = tasks[t]
           \/ /\ tasks[t].pc \notin {"idle", "done"}
              /\ tasks'[t] = [tasks[t] EXCEPT !.pc = "done", !.reply = "lost", !.cost = 0]
    BY DEF Restart
  <1>2. ASSUME NEW t \in Tasks
        PROVE  \/ tasks[t].pc \in {"idle", "done"} /\ tasks'[t] = tasks[t]
               \/ tasks'[t] \in Task /\ tasks'[t].pc = "done" /\ tasks'[t].reply = "lost"
    <2>1. CASE tasks[t].pc \in {"idle", "done"}
      BY <1>1, <2>1
    <2>2. CASE tasks[t].pc \notin {"idle", "done"}
      <3>1. PICK old \in Task : old = tasks[t]
        BY <2>2, UnderWay
      <3>2. PICK one \in Task : one = [old EXCEPT !.pc = "done"]
        <4>1. [old EXCEPT !.pc = "done"] \in Task
          BY DEF Task
        <4> QED
          BY <4>1
      <3>3. PICK two \in Task : two = [one EXCEPT !.reply = "lost"]
        <4>1. [one EXCEPT !.reply = "lost"] \in Task
          BY DEF Task
        <4> QED
          BY <4>1
      <3>4. PICK new \in Task : new = [two EXCEPT !.cost = 0]
        <4>1. [two EXCEPT !.cost = 0] \in Task
          BY DEF Task
        <4> QED
          BY <4>1
      <3>5. new.pc = "done" /\ new.reply = "lost"
        BY <3>2, <3>3, <3>4 DEF Task
      <3>6. tasks'[t] = new
        BY <1>1, <2>2, <3>1, <3>2, <3>3, <3>4
      <3> QED
        BY <3>5, <3>6
    <2> QED
      BY <2>1, <2>2
  <1>3. UNCHANGED <<purchases, day>> /\ lock' = NoTask /\ restarts' = restarts + 1
        /\ tasks' = [t \in Tasks |-> tasks'[t]]
    BY DEF Restart
  <1>4. /\ signed' \in [Payments -> Nat]
        /\ \A p \in Payments : \/ signed'[p] = signed[p]
                               \/ purchases[p].status = "RESERVED" /\ signed'[p] <= Cost
    <2>1. CASE UNCHANGED signed
      BY <2>1 DEF IInv, TypeOK
    <2>2. CASE \E t \in Tasks : At(t, "search") /\ Sign(t)
      <3>1. PICK t \in Tasks : At(t, "search") /\ Sign(t)
        BY <2>2
      <3>2. PICK old \in Task : /\ old = tasks[t] /\ Safe(old) /\ old.pc = "search"
                                /\ Payment(t) = old.payment /\ old.payment \in Payments
        BY <3>1, UnderWay DEF At
      <3>3. PICK price \in Nat : price <= Cost /\ signed' = [signed EXCEPT ![old.payment] = price]
        BY <3>1, <3>2, Constants DEF Sign, Acceptable
      <3>4. purchases[old.payment].status = "RESERVED"
        BY <3>2 DEF Safe, Inside
      <3> QED
        BY <3>2, <3>3, <3>4 DEF IInv, TypeOK
    <2> QED
      BY <2>1, <2>2 DEF Restart
  <1>5. \A t \in Tasks : /\ tasks'[t] \in {IdleTask} \cup Task
                         /\ tasks'[t].pc \in {"idle", "done"}
    BY <1>2 DEF IInv, TypeOK
  <1>6. TypeOK'
    <2>1. tasks' \in [Tasks -> {IdleTask} \cup Task]
      BY <1>3, <1>5
    <2>2. \A t \in Tasks : (lock' = t) <=> Running(t)'
      BY <1>3, <1>5, Constants DEF Running
    <2> QED
      BY <1>3, <1>4, <2>1, <2>2 DEF IInv, TypeOK
  <1>7. RowsSound'
    BY <1>3, <1>4 DEF IInv, RowsSound, Counted
  <1>8. ASSUME NEW t \in Tasks, tasks'[t] # IdleTask PROVE Safe(tasks[t])'
    <2>1. CASE tasks'[t].reply = "lost"
      BY <1>5, <2>1 DEF Safe, Inside
    <2>2. CASE tasks'[t].reply # "lost"
      <3>1. PICK old \in Task : old = tasks[t] /\ tasks'[t] = old /\ old.pc = "done" /\ Safe(old)
        BY <1>2, <1>8, <2>2 DEF IInv, TypeOK, IdleTask, Task
      <3>2. Safe(old)'
        BY <1>3, <1>4, <3>1 DEF Safe, Closing, Inside, Task
      <3> QED
        BY <3>1, <3>2
    <2> QED
      BY <2>1, <2>2
  <1>9. DossierOnce'
    <2>1. \A t \in Tasks : tasks'[t].pc = "done" /\ tasks'[t].reply = "prepared" =>
             tasks'[t] = tasks[t]
      BY <1>2
    <2> QED
      BY <1>3, <2>1 DEF IInv, DossierOnce, At, Payment
  <1> QED
    BY <1>6, <1>7, <1>8, <1>9 DEF IInv

LEMMA InitIInv == Init => IInv
  <1> SUFFICES ASSUME Init PROVE IInv
    OBVIOUS
  <1>1. TypeOK
    BY Constants DEF Init, TypeOK, IdleTask, NoPurchase, Running
  <1> QED
    BY <1>1, Constants DEF Init, IInv, RowsSound, DossierOnce, NoPurchase, IdleTask, At, Counted

LEMMA NextIInv == IInv /\ [Next]_vars => IInv'
  <1> SUFFICES ASSUME IInv, [Next]_vars PROVE IInv'
    OBVIOUS
  <1>1. ASSUME NEW t \in Tasks, NEW p \in Payments, Call(t, p) PROVE IInv'
    BY <1>1, CallKeeps
  <1>2. ASSUME NEW t \in Tasks, Step(t) PROVE IInv'
    BY <1>2, ReserveKeeps, ReserveFailsKeeps, LoadSourceKeeps, SearchKeeps, PrepareKeeps,
       CompleteKeeps, CompleteFailsKeeps DEF Step
  <1>3. CASE Midnight
    <2>1. day' = day + 1 /\ UNCHANGED <<purchases, tasks, lock, signed, restarts>>
      BY <1>3 DEF Midnight
    <2>2. \A p \in Payments : purchases[p].day \in Nat /\ day \in Nat
      BY DEF IInv, TypeOK
    <2> QED
      BY <2>1, <2>2 DEF IInv, TypeOK, Running, Safe, Closing, RowsSound, DossierOnce, At, Payment
  <1>4. CASE Restart
    BY <1>4, RestartKeeps
  <1>5. CASE UNCHANGED vars
    BY <1>5 DEF vars, IInv, TypeOK, Running, Safe, Closing, RowsSound, DossierOnce, At, Payment
  <1> QED
    BY <1>1, <1>2, <1>3, <1>4, <1>5 DEF Next

LEMMA Invariance == Spec => []IInv
  BY InitIInv, NextIInv, PTL DEF Spec

-----------------------------------------------------------------------------
(* The invariants *)

\* Every variable keeps its type, and the lock is held by the one call that is past
\* its reservation.
THEOREM TypeCorrect == Spec => []TypeOK
  <1>1. IInv => TypeOK
    BY DEF IInv
  <1> QED
    BY <1>1, Invariance, PTL

\* The direct cost an answer reports is what the supplier ledger holds for its
\* payment, whatever failed and whatever other calls, restarts and days came after.
THEOREM CostReportedTheorem == Spec => []CostReported
  <1>1. ASSUME IInv, NEW t \in Tasks, At(t, "done"), tasks[t].reply \in {"prepared", "failed"}
        PROVE  purchases[Payment(t)].status # "RESERVED" /\ tasks[t].cost = Amounts[Payment(t)]
    <2>1. PICK old \in Task : /\ old = tasks[t] /\ Safe(old) /\ old.pc = "done"
                              /\ Payment(t) = old.payment /\ old.payment \in Payments
      BY <1>1, UnderWay DEF At
    <2>2. Closing(old) /\ purchases[old.payment].status = old.status
      BY <1>1, <2>1 DEF Safe
    <2> QED
      BY <2>1, <2>2 DEF Closing, Amounts
  <1>2. IInv => CostReported
    BY <1>1 DEF CostReported
  <1> QED
    BY <1>2, Invariance, PTL

\* One payment obtains one dossier, and only with a FULFILLED purchase.
THEOREM DossierOnceTheorem == Spec => []DossierOnce
  <1>1. IInv => DossierOnce
    BY DEF IInv
  <1> QED
    BY <1>1, Invariance, PTL

-----------------------------------------------------------------------------
(* The refinement of SupplierBudget *)

Held == [p \in Payments |-> [amount |-> Amounts[p], day |-> purchases[p].day,
                             open |-> purchases[p].status = "RESERVED"]]
MappedUnchanged == UNCHANGED <<Held, signed, day>>

\* The budget counts as the dossier does, and rows since today are rows of today.
LEMMA BudgetCardinality == \A S : Budget!Cardinality(S) = Cardinality(S)
BY DEF Budget!Cardinality, Cardinality

LEMMA HeldToday ==
    ASSUME IInv
    PROVE  Budget!HeldOn(day) = Total(Amounts, {p \in Payments : purchases[p].day >= day})
  <1>1. [p \in Payments |-> Held[p].amount] = Amounts
    BY DEF Held, Amounts
  <1>2. \A p \in Payments : /\ purchases[p].day \in Nat /\ day \in Nat
                            /\ purchases[p].day <= day
    BY DEF IInv, TypeOK, RowsSound
  <1>3. \A p \in Payments : purchases[p].day >= day <=> purchases[p].day = day
    BY <1>2
  <1>4. {p \in Payments : Held[p].day = day} = {p \in Payments : purchases[p].day >= day}
    BY <1>3 DEF Held
  <1>5. Budget!HeldOn(day) = Cardinality(Units([p \in Payments |-> Held[p].amount],
                                               {p \in Payments : Held[p].day = day}))
    BY BudgetCardinality DEF Budget!HeldOn, Budget!Total, Budget!Units, Units, Held
  <1> QED
    BY <1>1, <1>4, <1>5 DEF Total

\* A reservation is Hold, ...
LEMMA ReserveHolds ==
    ASSUME IInv, NEW t \in Tasks, Reserve(t)
    PROVE  (\E p \in Payments : Budget!Hold(p)) \/ MappedUnchanged
  <1>1. PICK old \in Task : /\ old = tasks[t] /\ Payment(t) = old.payment
                            /\ old.payment \in Payments
    BY UnderWay DEF Reserve, At
  <1>2. UNCHANGED <<signed, day>>
    BY DEF Reserve
  <1>3. CASE Unused(t) /\ FitsCap
    <2>1. /\ purchases[old.payment] = NoPurchase
          /\ purchases' = [purchases EXCEPT ![old.payment] = [status |-> "RESERVED", day |-> day]]
      BY <1>1, <1>3 DEF Reserve, Unused
    <2>2. Held[old.payment] = [amount |-> 0, day |-> 0, open |-> FALSE]
      <3>1. /\ Amounts[old.payment] = 0 /\ purchases[old.payment].day = 0
            /\ (purchases[old.payment].status = "RESERVED") = FALSE
        BY <1>1, <2>1 DEF Amounts, NoPurchase, Counted
      <3> QED
        BY <1>1, <3>1 DEF Held
    <2>3. Budget!HeldOn(day) + Cost <= DailyCap
      BY <1>3, HeldToday DEF FitsCap
    <2>4. Held' = [Held EXCEPT ![old.payment] = [amount |-> Cost, day |-> day, open |-> TRUE]]
      <3>1. /\ purchases'[old.payment] = [status |-> "RESERVED", day |-> day]
            /\ \A p \in Payments \ {old.payment} : purchases'[p] = purchases[p]
        BY <1>1, <2>1 DEF IInv, TypeOK
      <3>2. Held'[old.payment] = [amount |-> Cost, day |-> day, open |-> TRUE]
        <4>1. /\ Amounts'[old.payment] = Cost /\ purchases'[old.payment].day = day
              /\ (purchases'[old.payment].status = "RESERVED") = TRUE
          BY <1>1, <3>1 DEF Amounts, Counted
        <4> QED
          BY <1>1, <4>1 DEF Held
      <3>3. \A p \in Payments \ {old.payment} : Held'[p] = Held[p]
        BY <3>1 DEF Held, Amounts
      <3>4. Held = [p \in Payments |-> Held[p]] /\ Held' = [p \in Payments |-> Held'[p]]
        BY DEF Held
      <3> HIDE DEF Held
      <3> QED
        BY <1>1, <3>2, <3>3, <3>4
    <2> QED
      BY <1>1, <1>2, <2>2, <2>3, <2>4 DEF Budget!Hold, Budget!Nothing, Held
  <1>4. CASE ~(Unused(t) /\ FitsCap)
    <2>1. UNCHANGED purchases
      BY <1>4 DEF Reserve
    <2> QED
      BY <1>2, <2>1 DEF MappedUnchanged, Held, Amounts
  <1> QED
    BY <1>3, <1>4

\* ... a payment of the search, whatever becomes of the call, Sign, ...
LEMMA SignSimulates ==
    ASSUME IInv, NEW t \in Tasks, tasks[t].pc = "search", Sign(t), UNCHANGED <<purchases, day>>
    PROVE  \E p \in Payments : Budget!Sign(p)
  <1>1. PICK old \in Task : /\ old = tasks[t] /\ Safe(old) /\ old.pc = "search"
                            /\ Payment(t) = old.payment /\ old.payment \in Payments
    BY UnderWay
  <1>2. PICK price \in Nat \ {0} : price <= Cost /\ signed' = [signed EXCEPT ![old.payment] = price]
    BY <1>1, Constants DEF Sign, Acceptable
  <1>3. purchases[old.payment].status = "RESERVED" /\ signed[old.payment] = 0
    BY <1>1 DEF Safe, Inside
  <1>4. Held[old.payment].open = TRUE /\ Held[old.payment].amount = Cost
    BY <1>1, <1>3 DEF Held, Amounts, Counted
  <1>5. price \in 1..Held[old.payment].amount
    BY <1>2, <1>4, Constants
  <1>6. Held' = Held
    BY DEF Held, Amounts
  <1> QED
    BY <1>1, <1>2, <1>3, <1>4, <1>5, <1>6 DEF Budget!Sign, Held

\* ... and the end of a call Settle.
LEMMA CompleteSettles ==
    ASSUME IInv, NEW t \in Tasks, Complete(t)
    PROVE  \E p \in Payments : Budget!Settle(p)
  <1>1. PICK old \in Task : /\ old = tasks[t] /\ Safe(old) /\ old.pc = "record"
                            /\ Payment(t) = old.payment /\ old.payment \in Payments
    BY UnderWay DEF Complete, At
  <1>2. purchases[old.payment].status = "RESERVED" /\ Closing(old) /\ UNCHANGED <<signed, day>>
    BY <1>1 DEF Safe, Inside, Complete
  <1> DEFINE amount == IF old.status \in Counted THEN Cost ELSE 0
  <1>3. amount \in signed[old.payment]..Held[old.payment].amount
    <2>1. /\ signed[old.payment] \in Nat /\ signed[old.payment] <= Cost
          /\ old.status \notin Counted => signed[old.payment] = 0
      BY <1>1, <1>2 DEF IInv, TypeOK, RowsSound, Closing, Counted
    <2>2. Held[old.payment].amount = Cost
      BY <1>1, <1>2 DEF Held, Amounts, Counted
    <2> QED
      BY <2>1, <2>2, Constants
  <1>4. Held' = [Held EXCEPT ![old.payment].amount = amount, ![old.payment].open = FALSE]
    <2>1. /\ purchases'[old.payment].status = old.status
          /\ purchases'[old.payment].day = purchases[old.payment].day
          /\ \A p \in Payments \ {old.payment} : purchases'[p] = purchases[p]
      BY <1>1 DEF Complete, IInv, TypeOK
    <2>2. Held'[old.payment] = [amount |-> amount, day |-> Held[old.payment].day, open |-> FALSE]
      <3>1. /\ Amounts'[old.payment] = amount
            /\ (purchases'[old.payment].status = "RESERVED") = FALSE
        BY <1>1, <1>2, <2>1 DEF Amounts, Closing
      <3> HIDE DEF amount
      <3> QED
        BY <1>1, <2>1, <3>1 DEF Held
    <2>3. \A p \in Payments \ {old.payment} : Held'[p] = Held[p]
      BY <2>1 DEF Held, Amounts
    <2>4. /\ Held = [p \in Payments |-> Held[p]] /\ Held' = [p \in Payments |-> Held'[p]]
          /\ Held[old.payment] = [amount |-> Held[old.payment].amount,
                                  day |-> Held[old.payment].day,
                                  open |-> Held[old.payment].open]
      BY <1>1 DEF Held
    <2> HIDE DEF Held, amount
    <2> QED
      BY <1>1, <2>2, <2>3, <2>4
  <1>5. Held[old.payment].open = TRUE
    BY <1>1, <1>2 DEF Held
  <1> HIDE DEF amount
  <1> QED
    BY <1>1, <1>2, <1>3, <1>4, <1>5 DEF Budget!Settle, Held

LEMMA NextSimulates == IInv /\ [Next]_vars => [Budget!Next]_(Budget!vars)
  <1> SUFFICES ASSUME IInv, [Next]_vars PROVE [Budget!Next]_(Budget!vars)
    OBVIOUS
  <1>1. ASSUME MappedUnchanged PROVE UNCHANGED Budget!vars
    BY <1>1 DEF MappedUnchanged, Held, Budget!vars
  <1>2. ASSUME UNCHANGED <<purchases, signed, day>> PROVE MappedUnchanged
    BY <1>2 DEF MappedUnchanged, Held, Amounts
  <1>3. ASSUME NEW p \in Payments, Budget!Hold(p) \/ Budget!Sign(p) \/ Budget!Settle(p)
        PROVE  Budget!Next
    BY <1>3 DEF Budget!Next
  <1>4. ASSUME NEW t \in Tasks, Step(t) PROVE [Budget!Next]_(Budget!vars)
    <2>1. CASE Reserve(t)
      BY <1>1, <1>3, <2>1, ReserveHolds
    <2>2. CASE Search(t)
      <3>1. tasks[t].pc = "search" /\ UNCHANGED <<purchases, day>> /\ (Sign(t) \/ UNCHANGED signed)
        BY <2>2 DEF Search, At
      <3> QED
        BY <1>1, <1>2, <1>3, <3>1, SignSimulates
    <2>3. CASE Complete(t)
      BY <1>3, <2>3, CompleteSettles
    <2>4. CASE ReserveFails(t) \/ LoadSource(t) \/ Prepare(t) \/ CompleteFails(t)
      BY <1>1, <1>2, <2>4 DEF ReserveFails, LoadSource, Prepare, CompleteFails
    <2> QED
      BY <1>4, <2>1, <2>2, <2>3, <2>4 DEF Step
  <1>5. ASSUME NEW t \in Tasks, NEW p \in Payments, Call(t, p) PROVE UNCHANGED Budget!vars
    BY <1>1, <1>2, <1>5 DEF Call
  <1>6. CASE Midnight
    <2>1. Budget!NextDay
      BY <1>6 DEF Midnight, Budget!NextDay, Amounts
    <2> QED
      BY <2>1 DEF Budget!Next
  <1>7. CASE Restart
    BY <1>1, <1>2, <1>3, <1>7, SignSimulates DEF Restart, At
  <1>8. CASE UNCHANGED vars
    BY <1>1, <1>2, <1>8 DEF vars
  <1> QED
    BY <1>4, <1>5, <1>6, <1>7, <1>8 DEF Next

LEMMA InitSimulates == Init => Budget!Init
  <1> SUFFICES ASSUME Init PROVE Budget!Init
    OBVIOUS
  <1>1. \A p \in Payments : /\ Amounts[p] = 0 /\ purchases[p].day = 0
                            /\ (purchases[p].status = "RESERVED") = FALSE
    BY DEF Init, NoPurchase, Amounts, Counted
  <1> QED
    BY <1>1 DEF Init, Budget!Init, Budget!Nothing

\* The dossier's supplier ledger implements the abstract budget: a payment is
\* signed only for a search set aside under the cap, once, and whatever the supplier
\* may take stays counted.
THEOREM ImplementsBudget == Spec => WithinBudget
  BY Invariance, NextSimulates, InitSimulates, PTL DEF Spec, WithinBudget, Budget!Spec

-----------------------------------------------------------------------------
(* The daily cap *)

\* What is booked under any one day is within the cap.
RowsOf(d) == {p \in Payments : purchases[p].day = d}
CapOnEveryDay == \A d \in Nat : Total(Amounts, RowsOf(d)) <= DailyCap

LEMMA AmountsBounded ==
    /\ \A p \in Payments : Amounts[p] \in 0..Cost
    /\ \A d : IsFiniteSet(RowsOf(d)) /\ RowsOf(d) \subseteq Payments
  <1>1. \A d : IsFiniteSet(RowsOf(d)) /\ RowsOf(d) \subseteq Payments
    BY Constants, FS_Subset DEF RowsOf
  <1> QED
    BY <1>1, Constants DEF Amounts

\* A booking finds room for it.
LEMMA ReserveCap ==
    ASSUME IInv, CapOnEveryDay, NEW t \in Tasks, Reserve(t)
    PROVE  CapOnEveryDay'
  <1>1. CASE UNCHANGED purchases
    BY <1>1 DEF CapOnEveryDay, Amounts, RowsOf
  <1>2. CASE Unused(t) /\ FitsCap
    <2>1. PICK p \in Payments : p = Payment(t)
      BY UnderWay DEF Reserve, At
    <2>2. /\ purchases[p] = NoPurchase
          /\ purchases' = [purchases EXCEPT ![p] = [status |-> "RESERVED", day |-> day]]
      BY <1>2, <2>1 DEF Reserve, Unused
    <2>3. /\ purchases'[p] = [status |-> "RESERVED", day |-> day]
          /\ \A q \in Payments \ {p} : purchases'[q] = purchases[q]
      BY <2>1, <2>2 DEF IInv, TypeOK
    <2>4. /\ Amounts'[p] = Cost /\ \A q \in Payments \ {p} : Amounts'[q] = Amounts[q]
          /\ \A q \in Payments : Amounts'[q] \in 0..Cost
      BY <2>1, <2>3, Constants DEF Amounts, Counted
    <2>5. /\ IsFiniteSet(RowsOf(day)) /\ IsFiniteSet(RowsOf(day) \ {p}) /\ day \in Nat
          /\ DailyCap \in Nat /\ Cost \in Nat
      BY AmountsBounded, Constants, FS_Subset DEF IInv, TypeOK
    <2>6. Total(Amounts, RowsOf(day)) + Cost <= DailyCap
      <3>1. \A q \in Payments : purchases[q].day \in Nat /\ purchases[q].day <= day
        BY DEF IInv, TypeOK, RowsSound
      <3>2. RowsOf(day) = {q \in Payments : purchases[q].day >= day}
        BY <2>5, <3>1 DEF RowsOf
      <3> QED
        BY <1>2, <3>2 DEF FitsCap
    <2>7. RowsOf(day)' = (RowsOf(day) \ {p}) \cup {p}
      BY <2>1, <2>3 DEF RowsOf, Reserve
    <2>8. Total(Amounts', RowsOf(day)') <= DailyCap
      <3>1. Total(Amounts', RowsOf(day)') = Total(Amounts', RowsOf(day) \ {p}) + Cost
        BY <2>1, <2>4, <2>5, <2>7, AmountsBounded, TotalAdd
      <3>2. Total(Amounts', RowsOf(day) \ {p}) <= Total(Amounts, RowsOf(day))
        <4>1. \A q \in RowsOf(day) : Amounts'[q] \in Nat /\ Amounts[q] \in 0..Cost
          BY <2>4, AmountsBounded, Constants
        <4>2. \A q \in RowsOf(day) \ {p} : Amounts'[q] <= Amounts[q]
          BY <2>4, AmountsBounded, Constants
        <4> QED
          BY <2>5, <4>1, <4>2, TotalMonotone
      <3>3. /\ Total(Amounts', RowsOf(day) \ {p}) \in Nat
            /\ Total(Amounts, RowsOf(day)) \in Nat
        BY <2>4, <2>5, AmountsBounded, TotalType
      <3> QED
        BY <2>5, <2>6, <3>1, <3>2, <3>3
    <2>9. ASSUME NEW d \in Nat, d # day PROVE Total(Amounts', RowsOf(d)') <= DailyCap
      <3>1. RowsOf(d)' = RowsOf(d) \ {p}
        BY <2>1, <2>3, <2>9 DEF RowsOf
      <3>2. IsFiniteSet(RowsOf(d)) /\ RowsOf(d) \subseteq Payments
        BY AmountsBounded
      <3>3. /\ \A q \in RowsOf(d) : Amounts'[q] \in Nat /\ Amounts[q] \in 0..Cost
            /\ \A q \in RowsOf(d) \ {p} : Amounts'[q] <= Amounts[q]
        BY <2>4, <3>2, AmountsBounded, Constants
      <3>4. Total(Amounts', RowsOf(d) \ {p}) <= Total(Amounts, RowsOf(d))
        BY <2>5, <3>2, <3>3, TotalMonotone
      <3>5. /\ Total(Amounts', RowsOf(d) \ {p}) \in Nat /\ Total(Amounts, RowsOf(d)) \in Nat
        <4>1. IsFiniteSet(RowsOf(d) \ {p})
          BY <3>2, FS_Subset
        <4> QED
          BY <2>4, <2>5, <3>2, <4>1, AmountsBounded, TotalType
      <3> QED
        BY <2>5, <3>1, <3>4, <3>5 DEF CapOnEveryDay
    <2> QED
      BY <2>8, <2>9 DEF CapOnEveryDay, Reserve
  <1> QED
    BY <1>1, <1>2 DEF Reserve

\* The end of a call leaves the day of its row alone, and books no more on it.
LEMMA CompleteCap ==
    ASSUME IInv, CapOnEveryDay, NEW t \in Tasks, Complete(t)
    PROVE  CapOnEveryDay'
  <1>1. PICK old \in Task : /\ old = tasks[t] /\ Safe(old) /\ old.pc = "record"
                            /\ Payment(t) = old.payment /\ old.payment \in Payments
    BY UnderWay DEF Complete, At
  <1>2. purchases[old.payment].status = "RESERVED"
    BY <1>1 DEF Safe, Inside
  <1>3. /\ \A p \in Payments : purchases'[p].day = purchases[p].day
        /\ \A p \in Payments \ {old.payment} : purchases'[p] = purchases[p]
    BY <1>1 DEF Complete, IInv, TypeOK
  <1>4. \A p \in Payments : Amounts'[p] \in 0..Cost /\ Amounts'[p] <= Amounts[p]
    BY <1>1, <1>2, <1>3, Constants DEF Amounts, Counted
  <1>5. ASSUME NEW d \in Nat PROVE Total(Amounts', RowsOf(d)') <= DailyCap
    <2>1. RowsOf(d)' = RowsOf(d)
      BY <1>3 DEF RowsOf
    <2>2. IsFiniteSet(RowsOf(d)) /\ RowsOf(d) \subseteq Payments
      BY AmountsBounded
    <2>3. \A p \in RowsOf(d) : /\ Amounts'[p] \in Nat /\ Amounts'[p] \in 0..Cost
                               /\ Amounts[p] \in 0..Cost /\ Amounts'[p] <= Amounts[p]
      BY <1>4, <2>2, AmountsBounded, Constants
    <2>4. Total(Amounts', RowsOf(d)) <= Total(Amounts, RowsOf(d))
      BY <2>2, <2>3, Constants, TotalMonotone
    <2>5. Total(Amounts', RowsOf(d)) \in Nat /\ Total(Amounts, RowsOf(d)) \in Nat
      BY <2>2, <2>3, Constants, TotalType
    <2> QED
      BY <2>1, <2>4, <2>5, Constants DEF CapOnEveryDay
  <1> QED
    BY <1>5 DEF CapOnEveryDay

LEMMA NextCap == IInv /\ CapOnEveryDay /\ [Next]_vars => CapOnEveryDay'
  <1> SUFFICES ASSUME IInv, CapOnEveryDay, [Next]_vars PROVE CapOnEveryDay'
    OBVIOUS
  <1>1. CASE UNCHANGED purchases
    BY <1>1 DEF CapOnEveryDay, Amounts, RowsOf
  <1>2. ASSUME NEW t \in Tasks, Step(t) PROVE CapOnEveryDay'
    <2>1. CASE Reserve(t) \/ Complete(t)
      BY <2>1, ReserveCap, CompleteCap
    <2>2. CASE ReserveFails(t) \/ LoadSource(t) \/ Search(t) \/ Prepare(t) \/ CompleteFails(t)
      BY <1>1, <2>2 DEF ReserveFails, LoadSource, Search, Prepare, CompleteFails
    <2> QED
      BY <1>2, <2>1, <2>2 DEF Step
  <1>3. CASE (\E t \in Tasks, p \in Payments : Call(t, p)) \/ Midnight \/ Restart \/ UNCHANGED vars
    BY <1>1, <1>3 DEF Call, Midnight, Restart, vars
  <1> QED
    BY <1>2, <1>3 DEF Next

LEMMA InitCap == Init => CapOnEveryDay
  <1> SUFFICES ASSUME Init, NEW d \in Nat PROVE Total(Amounts, RowsOf(d)) <= DailyCap
    BY DEF CapOnEveryDay
  <1>1. \A p \in RowsOf(d) : Amounts[p] = 0
    BY DEF Init, Amounts, NoPurchase, Counted, RowsOf
  <1>2. Units(Amounts, RowsOf(d)) = {}
    BY <1>1 DEF Units
  <1>3. Total(Amounts, RowsOf(d)) = 0
    BY <1>2, FS_EmptySet DEF Total
  <1> QED
    BY <1>3, Constants

\* What the supplier may take for the searches booked under one UTC day stays within the
\* cap, for any cap and prices, and whatever calls, failures and restarts interleave.
THEOREM SpendCappedTheorem == Spec => []SpendCapped
  <1>1. IInv /\ CapOnEveryDay => SpendCapped
    <2> SUFFICES ASSUME IInv, CapOnEveryDay, NEW d \in 1..MaxDay
                 PROVE  Total(signed, RowsOf(d)) <= DailyCap
      BY DEF SpendCapped, RowsOf
    <2>1. IsFiniteSet(RowsOf(d)) /\ RowsOf(d) \subseteq Payments /\ d \in Nat
      BY AmountsBounded
    <2>2. \A p \in RowsOf(d) : /\ signed[p] \in Nat /\ signed[p] \in 0..Cost
                               /\ Amounts[p] \in 0..Cost /\ signed[p] <= Amounts[p]
      BY <2>1, Constants DEF IInv, TypeOK, RowsSound, Amounts
    <2>3. Total(signed, RowsOf(d)) <= Total(Amounts, RowsOf(d))
      BY <2>1, <2>2, Constants, TotalMonotone
    <2>4. Total(signed, RowsOf(d)) \in Nat /\ Total(Amounts, RowsOf(d)) \in Nat
      BY <2>1, <2>2, Constants, TotalType
    <2> QED
      BY <2>1, <2>3, <2>4, Constants DEF CapOnEveryDay
  <1> QED
    BY <1>1, Invariance, NextCap, InitCap, PTL DEF Spec

=============================================================================
