------------------------- MODULE SourceWatch_proofs -------------------------
(***************************************************************************)
(* Proofs about SourceWatch, for any monitors, jobs, contents, limits,     *)
(* attempts and addresses of a host.                                       *)
(***************************************************************************)
EXTENDS SourceWatch, SequenceTheorems, TLAPS

(***************************************************************************)
(* The inductive invariant.                                                *)
(***************************************************************************)

\* What is due, or accepted, is in its table.
Listed ==
    /\ \A i \in DOMAIN due : monitors[due[i]] # NoMonitor
    /\ \A i \in DOMAIN accepted : jobs[accepted[i]] # NoJob

Distinct(batch) == \A i, k \in DOMAIN batch : batch[i].id = batch[k].id => i = k

\* The rows that run_due has not written yet are as it selected them.
Unwritten == {"fetch", "fail", "store"}
RowsCurrent ==
    loop.pc \in Checking =>
        /\ Distinct(loop.batch)
        /\ \A i \in DOMAIN loop.batch : i > 1 \/ loop.pc \in Unwritten =>
               /\ loop.batch[i].hash = monitors[loop.batch[i].id].hash
               /\ loop.batch[i].id \in Range(due)
        /\ loop.pc \in Checking \ {"fetch", "fail"} => loop.to \in Contents

\* The change whose webhook is under way is the last one stored.
Delivering == {"deliver", "answered", "unanswered"}
LastIsStored ==
    loop.pc \in Delivering =>
        /\ events[Current] # <<>>
        /\ Last(events[Current]).from = Row.hash /\ Last(events[Current]).to = loop.to

\* What a webhook heard are events in their order, all that were marked among them,
\* and of the change under way at most one copy for each address that was tried.
Hears(m, heard) ==
    /\ heard \in [DOMAIN inbox[m] -> DOMAIN events[m]]
    /\ \A i, k \in DOMAIN inbox[m] : i < k => heard[i] <= heard[k]
    /\ \A i, k \in DOMAIN inbox[m] : i + Addresses <= k => heard[i] < heard[k]
    /\ \A i \in DOMAIN inbox[m] : /\ inbox[m][i].from = events[m][heard[i]].from
                                  /\ inbox[m][i].to = events[m][heard[i]].to
    /\ \A e \in DOMAIN events[m] : events[m][e].webhook = "HTTP" => e \in Range(heard)
    /\ At("deliver") /\ m = Current =>
           \A i \in DOMAIN inbox[m] :
               heard[i] = Len(events[m]) => Len(inbox[m]) + 1 < i + loop.address
    /\ At("answered") /\ m = Current => Len(events[m]) \in Range(heard)
InboxSound == \A m \in Monitors : \E heard : Hears(m, heard)

\* The jobs of a batch that are still to be written are as run_pending selected
\* them, and a callback is for a job that has its monitor.
JobRowsCurrent ==
    loop.pc \in Completing =>
        /\ Distinct(loop.batch)
        /\ \A i \in DOMAIN loop.batch :
               /\ loop.batch[i].attempts = jobs[loop.batch[i].id].attempts
               /\ jobs[loop.batch[i].id].status \in Open
        /\ loop.pc \in {"callback", "finish"} => monitors[Current] # NoMonitor
        /\ At("finish") => callbacks[Current] > 0

IInv ==
    /\ TypeOK /\ Listed /\ RowsCurrent /\ EventsAreHistory
    /\ LastIsStored /\ InboxSound /\ JobRowsCurrent /\ JobsDelivered

-----------------------------------------------------------------------------
(* Lemmas about sequences and selections *)

\* The rest of a batch is what follows its head.
LEMMA RestOfBatch ==
    ASSUME NEW S, NEW batch \in Seq(S), batch # <<>>
    PROVE  /\ Head(batch) = batch[1] /\ batch[1] \in S /\ Len(batch) \in Nat \ {0}
           /\ DOMAIN batch = 1..Len(batch)
           /\ Tail(batch) \in Seq(S) /\ DOMAIN Tail(batch) = 1..(Len(batch) - 1)
           /\ \A i \in 1..(Len(batch) - 1) : Tail(batch)[i] = batch[i + 1]
           /\ Len(batch) > 1 => Tail(batch) # <<>>
  OBVIOUS

\* A sequence without one of its elements.
LEMMA RemoveAtProperties ==
    ASSUME NEW S, NEW s \in Seq(S), IsInjective(s), NEW p \in DOMAIN s
    PROVE  /\ RemoveAt(s, p) \in Seq(S) /\ IsInjective(RemoveAt(s, p))
           /\ Range(RemoveAt(s, p)) = Range(s) \ {s[p]}
  <1> DEFINE t == RemoveAt(s, p)
  <1>1. /\ Len(s) \in Nat /\ p \in 1..Len(s) /\ DOMAIN s = 1..Len(s)
        /\ \A i \in 1..Len(s) : s[i] \in S
    OBVIOUS
  <1> DEFINE front == SubSeq(s, 1, p - 1)
             back == SubSeq(s, p + 1, Len(s))
  <1>2. /\ front \in Seq(S) /\ Len(front) = p - 1
        /\ \A i \in 1..(p - 1) : front[i] = s[i]
    BY <1>1, SubSeqProperties
  <1>3. /\ back \in Seq(S) /\ Len(back) = Len(s) - p
        /\ \A i \in 1..(Len(s) - p) : back[i] = s[p + i]
    BY <1>1, SubSeqProperties
  <1>4. /\ t \in Seq(S) /\ DOMAIN t = 1..(Len(s) - 1)
        /\ \A i \in 1..(Len(s) - 1) : t[i] = IF i < p THEN s[i] ELSE s[i + 1]
    <2> HIDE DEF front, back
    <2>1. p \in Nat /\ Len(front) + Len(back) = Len(s) - 1
      BY <1>1, <1>2, <1>3
    <2>2. /\ front \o back \in Seq(S) /\ Len(front \o back) = Len(front) + Len(back)
          /\ \A i \in 1..(Len(front) + Len(back)) :
                (front \o back)[i] = IF i <= Len(front) THEN front[i] ELSE back[i - Len(front)]
      BY <1>2, <1>3, ConcatProperties
    <2>3. t = front \o back
      BY DEF RemoveAt, front, back
    <2> HIDE DEF t
    <2>4. t \in Seq(S) /\ Len(t) = Len(s) - 1
      BY <2>1, <2>2, <2>3
    <2>5. ASSUME NEW i \in 1..(Len(s) - 1)
          PROVE  t[i] = IF i < p THEN s[i] ELSE s[i + 1]
      <3>1. t[i] = IF i <= p - 1 THEN front[i] ELSE back[i - (p - 1)]
        BY <1>2, <2>1, <2>2, <2>3
      <3>2. CASE i < p
        BY <1>1, <1>2, <2>1, <3>1, <3>2
      <3>3. CASE i >= p
        <4>1. i - (p - 1) \in 1..(Len(s) - p) /\ p + (i - (p - 1)) = i + 1
          BY <1>1, <2>1, <3>3
        <4> QED
          BY <1>1, <1>3, <2>1, <3>1, <3>3, <4>1
      <3> QED
        BY <1>1, <2>1, <3>2, <3>3
    <2> QED
      BY <2>4, <2>5
  <1> HIDE DEF t
  <1>5. IsInjective(t)
    <2> SUFFICES ASSUME NEW i \in 1..(Len(s) - 1), NEW k \in 1..(Len(s) - 1), t[i] = t[k]
                 PROVE  i = k
      BY <1>4 DEF IsInjective
    <2> DEFINE at(j) == IF j < p THEN j ELSE j + 1
    <2>1. at(i) \in 1..Len(s) /\ at(k) \in 1..Len(s) /\ t[i] = s[at(i)] /\ t[k] = s[at(k)]
      BY <1>1, <1>4
    <2>2. at(i) = at(k)
      BY <1>1, <2>1 DEF IsInjective
    <2> QED
      BY <1>1, <2>2
  <1>6. Range(t) \subseteq Range(s) \ {s[p]}
    <2> SUFFICES ASSUME NEW i \in 1..(Len(s) - 1)
                 PROVE  t[i] \in Range(s) /\ t[i] # s[p]
      BY <1>4 DEF Range
    <2> DEFINE j == IF i < p THEN i ELSE i + 1
    <2>1. j \in DOMAIN s /\ j # p /\ t[i] = s[j]
      BY <1>1, <1>4
    <2> HIDE DEF j
    <2> QED
      BY <2>1 DEF Range, IsInjective
  <1>7. Range(s) \ {s[p]} \subseteq Range(t)
    <2> SUFFICES ASSUME NEW i \in 1..Len(s), i # p
                 PROVE  s[i] \in Range(t)
      BY <1>1 DEF Range
    <2>1. CASE i < p
      BY <1>1, <1>4, <2>1 DEF Range
    <2>2. CASE i > p
      <3>1. i - 1 \in DOMAIN t /\ t[i - 1] = s[i]
        BY <1>1, <1>4, <2>2
      <3> QED
        BY <3>1 DEF Range
    <2> QED
      BY <1>1, <2>1, <2>2
  <1> QED
    BY <1>4, <1>5, <1>6, <1>7 DEF t

\* A sequence with one element more, that it did not have.
LEMMA AppendNew ==
    ASSUME NEW S, NEW s \in Seq(S), IsInjective(s), NEW x \in S, x \notin Range(s)
    PROVE  /\ Append(s, x) \in Seq(S) /\ IsInjective(Append(s, x))
           /\ Range(Append(s, x)) = Range(s) \cup {x}
  <1>1. /\ Append(s, x) \in Seq(S) /\ DOMAIN Append(s, x) = 1..(Len(s) + 1)
        /\ \A i \in 1..Len(s) : Append(s, x)[i] = s[i]
        /\ Append(s, x)[Len(s) + 1] = x /\ DOMAIN s = 1..Len(s) /\ Len(s) \in Nat
    OBVIOUS
  <1>2. \A i \in 1..(Len(s) + 1) : i \in 1..Len(s) \/ i = Len(s) + 1
    BY <1>1
  <1> QED
    BY <1>1, <1>2 DEF IsInjective, Range

\* A batch without rows.
LEMMA NothingSelected == ASSUME NEW S, NEW batch \in [1..0 -> S] PROVE batch = <<>>
  <1>1. batch \in Seq(S)
    BY SeqDef
  <1>2. Len(batch) = 0
    BY <1>1
  <1> QED
    BY <1>1, <1>2, EmptySeq

\* A batch that is selected in the order of a list of distinct rows has none twice.
LEMMA SelectionProperties ==
    ASSUME NEW rows, NEW order, IsInjective(order), DOMAIN order \subseteq Nat,
           NEW limit \in Nat, NEW batch \in Selections(rows, order, limit)
    PROVE  /\ batch \in Seq(rows) /\ DOMAIN batch = 1..Len(batch)
           /\ \A i, k \in DOMAIN batch : batch[i] = batch[k] => i = k
  <1>1. PICK n \in 0..limit : batch \in [1..n -> rows]
    BY DEF Selections
  <1>2. batch \in Seq(rows) /\ Len(batch) = n /\ DOMAIN batch = 1..n
    BY <1>1, IsASeq
  <1>3. ~ \E x : Earlier(order, x, x)
    BY DEF Earlier, IsInjective
  <1>4. \A i \in 1..n : {r \in rows : Earlier(order, r, batch[i])} = {batch[k] : k \in 1..(i - 1)}
    BY <1>1 DEF Selections
  <1>5. ASSUME NEW i \in 1..n, NEW k \in 1..n, i < k PROVE batch[i] # batch[k]
    <2>1. batch[i] \in {batch[l] : l \in 1..(k - 1)}
      BY <1>5
    <2> QED
      BY <1>3, <1>4, <2>1
  <1> QED
    BY <1>2, <1>5

-----------------------------------------------------------------------------
(* What most steps leave alone *)

\* The parts of the loop's variables.
LEMMA LoopParts ==
    ASSUME TypeOK
    PROVE  /\ loop = [pc |-> loop.pc, batch |-> loop.batch, to |-> loop.to,
                      address |-> loop.address]
           /\ loop.address \in 1..Addresses
           /\ loop.pc \in {"due", "jobs", "dead"} \cup Checking \cup Completing
           /\ loop.pc \in Checking => /\ loop.batch \in Seq(MonitorRow) /\ loop.batch # <<>>
                                      /\ loop.to \in Contents \cup {Unread}
           /\ loop.pc \in Completing => /\ loop.batch \in Seq(JobRow) /\ loop.batch # <<>>
                                        /\ loop.to = Unread
  BY ConstantsAssumption DEF TypeOK, LoopType, Wake, Checking, Completing

\* The row at hand of a check.
LEMMA CheckedRow ==
    ASSUME TypeOK, loop.pc \in Checking
    PROVE  /\ Row = loop.batch[1] /\ Row \in MonitorRow /\ Row = [id |-> Current, hash |-> Row.hash]
           /\ Current \in Monitors /\ Row.hash \in Contents \cup {Unread}
           /\ Len(loop.batch) \in Nat \ {0} /\ DOMAIN loop.batch = 1..Len(loop.batch)
           /\ \A i \in DOMAIN loop.batch : loop.batch[i] \in MonitorRow /\ loop.batch[i].id \in Monitors
  <1>1. loop.batch \in Seq(MonitorRow) /\ loop.batch # <<>>
    BY LoopParts
  <1>2. Row = loop.batch[1] /\ Row \in MonitorRow /\ Len(loop.batch) \in Nat \ {0}
        /\ DOMAIN loop.batch = 1..Len(loop.batch)
    BY <1>1, RestOfBatch DEF Row
  <1>3. \A i \in DOMAIN loop.batch : loop.batch[i] \in MonitorRow
    BY <1>1
  <1> QED
    BY <1>2, <1>3 DEF MonitorRow, Current

\* The row at hand of a job.
LEMMA CompletedRow ==
    ASSUME TypeOK, loop.pc \in Completing
    PROVE  /\ Row = loop.batch[1] /\ Current \in Jobs /\ Current \in Monitors
           /\ Row.attempts \in 0..MAX_ATTEMPTS
           /\ Len(loop.batch) \in Nat \ {0} /\ DOMAIN loop.batch = 1..Len(loop.batch)
           /\ \A i \in DOMAIN loop.batch : loop.batch[i] \in JobRow /\ loop.batch[i].id \in Jobs
  <1>1. loop.batch \in Seq(JobRow) /\ loop.batch # <<>>
    BY LoopParts
  <1>2. Row = loop.batch[1] /\ Row \in JobRow /\ Len(loop.batch) \in Nat \ {0}
        /\ DOMAIN loop.batch = 1..Len(loop.batch)
    BY <1>1, RestOfBatch DEF Row
  <1>3. \A i \in DOMAIN loop.batch : loop.batch[i] \in JobRow
    BY <1>1
  <1> QED
    BY <1>2, <1>3 DEF JobRow, Current, Monitors

\* A monitor that is there stays there.
Kept == \A m \in Monitors : monitors[m] # NoMonitor => monitors'[m] # NoMonitor

\* A step that neither checks nor changes a source leaves the history alone.
SameHistory ==
    /\ events' = events
    /\ \A m \in Monitors : monitors'[m].hash = monitors[m].hash
                           /\ monitors'[m].changes = monitors[m].changes

LEMMA HistoryFrame ==
    ASSUME EventsAreHistory, SameHistory
    PROVE  EventsAreHistory'
  BY DEF EventsAreHistory, SameHistory

\* Neither does a step of the loop that is not a delivery concern the inbox.
LEMMA InboxFrame ==
    ASSUME InboxSound, UNCHANGED <<events, inbox>>,
           loop' = loop \/ loop'.pc \notin {"deliver", "answered"}
    PROVE  InboxSound'
  <1> SUFFICES ASSUME NEW m \in Monitors PROVE \E heard : Hears(m, heard)'
    BY DEF InboxSound
  <1>1. PICK heard : Hears(m, heard)
    BY DEF InboxSound
  <1>2. Hears(m, heard)'
    BY <1>1 DEF Hears, At, Current, Row
  <1> QED
    BY <1>2

\* One attempt more is one completion more for each address.
LEMMA OneMore ==
    ASSUME NEW a \in Nat, NEW n \in Nat
    PROVE  a * n \in Nat /\ a * (n + 1) = a * n + a
  OBVIOUS

\* The attempt under way is at one of the addresses.
LEMMA UnderWayBounds == ASSUME TypeOK, NEW j PROVE UnderWay(j) \in 0..Addresses
  BY LoopParts, ConstantsAssumption DEF UnderWay

\* Jobs are as delivered as before, whatever else happens; a loop that is cut off
\* after a callback is a failure.
LEMMA JobsFrame ==
    ASSUME TypeOK, TypeOK', JobsDelivered, Kept, UNCHANGED <<jobs, callbacks>>,
           \/ failures' = failures /\ loop.pc \notin {"callback", "finish", "reject"}
           \/ failures' = failures + 1
           \/ failures' = failures /\ loop' = loop
    PROVE  JobsDelivered'
  <1> SUFFICES ASSUME NEW j \in Jobs
               PROVE  /\ jobs[j].status = "COMPLETED" => callbacks[j] > 0 /\ monitors'[j] # NoMonitor
                      /\ jobs[j].status = "FAILED" <=>
                             jobs[j].attempts = MAX_ATTEMPTS /\ jobs[j].status # "COMPLETED"
                      /\ callbacks[j] <= Addresses * (jobs[j].attempts + failures') + UnderWay(j)'
    BY DEF JobsDelivered
  <1>1. /\ jobs[j].status = "COMPLETED" => callbacks[j] > 0 /\ monitors[j] # NoMonitor
        /\ jobs[j].status = "FAILED" <=>
               jobs[j].attempts = MAX_ATTEMPTS /\ jobs[j].status # "COMPLETED"
        /\ callbacks[j] <= Addresses * (jobs[j].attempts + failures) + UnderWay(j)
    BY DEF JobsDelivered
  <1>2. callbacks[j] \in Nat /\ jobs[j].attempts \in Nat /\ failures \in Nat /\ j \in Monitors
        /\ Addresses \in Nat
    BY ConstantsAssumption DEF TypeOK, Monitors
  <1>3. jobs[j].status = "COMPLETED" => callbacks[j] > 0 /\ monitors'[j] # NoMonitor
    BY <1>1, <1>2 DEF Kept
  <1>4. callbacks[j] <= Addresses * (jobs[j].attempts + failures') + UnderWay(j)'
    <2>1. UnderWay(j) \in 0..Addresses /\ UnderWay(j)' \in 0..Addresses
      <3>1. LoopType'
        BY DEF TypeOK
      <3>2. loop'.address \in 1..Addresses
        BY <3>1, ConstantsAssumption DEF LoopType, Wake
      <3>3. UnderWay(j)' \in 0..Addresses
        BY <1>2, <3>2 DEF UnderWay
      <3> QED
        BY <3>3, UnderWayBounds
    <2> DEFINE n == jobs[j].attempts + failures
               told == Addresses * n
    <2>2. n \in Nat /\ told \in Nat /\ Addresses * (n + 1) = told + Addresses
      BY <1>2, OneMore
    <2>3. CASE failures' = failures /\ loop.pc \notin {"callback", "finish", "reject"}
      <3>1. UnderWay(j) = 0
        BY <2>3 DEF UnderWay
      <3> HIDE DEF told
      <3> QED
        BY <1>1, <1>2, <2>1, <2>2, <2>3, <3>1 DEF told
    <2>4. CASE failures' = failures + 1
      <3>1. jobs[j].attempts + failures' = n + 1
        BY <1>2, <2>4
      <3>2. Addresses * (jobs[j].attempts + failures') = told + Addresses
        BY <2>2, <3>1
      <3>3. callbacks[j] <= told + UnderWay(j)
        BY <1>1
      <3> HIDE DEF told, n
      <3> QED
        BY <1>2, <2>1, <2>2, <3>2, <3>3
    <2>5. CASE failures' = failures /\ loop' = loop
      BY <1>1, <2>5 DEF UnderWay, At, Current, Row
    <2> QED
      BY <2>3, <2>4, <2>5
  <1> QED
    BY <1>1, <1>3, <1>4

\* Of the parts of the invariant, those about the loop at work on its rows.
AtRest == loop'.pc \in {"due", "jobs", "dead"} /\ loop' = [Wake EXCEPT !.pc = loop'.pc]
LEMMA RestFrame ==
    ASSUME AtRest
    PROVE  LoopType' /\ RowsCurrent' /\ LastIsStored' /\ JobRowsCurrent'
  BY DEF AtRest, LoopType, RowsCurrent, LastIsStored, JobRowsCurrent, Wake, Checking, Completing,
         Delivering, At

\* While others act, the rows at hand stay as they were selected.
LEMMA RowsFrame ==
    ASSUME TypeOK, RowsCurrent, LastIsStored, JobRowsCurrent, Kept, SameHistory,
           Range(due) \subseteq Range(due'), UNCHANGED <<loop, callbacks>>,
           \A j \in Jobs : jobs[j].status \in Open => jobs'[j] = jobs[j]
    PROVE  RowsCurrent' /\ LastIsStored' /\ JobRowsCurrent'
  <1>1. RowsCurrent'
    BY CheckedRow DEF RowsCurrent, SameHistory
  <1>2. LastIsStored'
    BY DEF LastIsStored, SameHistory, Current, Row
  <1>3. JobRowsCurrent'
    <2> SUFFICES ASSUME loop.pc \in Completing
                 PROVE  /\ \A i \in DOMAIN loop.batch :
                               /\ loop.batch[i].attempts = jobs'[loop.batch[i].id].attempts
                               /\ jobs'[loop.batch[i].id].status \in Open
                        /\ loop.pc \in {"callback", "finish"} => monitors'[Current] # NoMonitor
      BY DEF JobRowsCurrent, At, Current, Row
    <2> QED
      BY CompletedRow DEF JobRowsCurrent, Kept
  <1> QED
    BY <1>1, <1>2, <1>3

\* INSERT OR IGNORE makes a monitor due once, and leaves every other row alone.
LEMMA ActivateKeeps ==
    ASSUME TypeOK, Listed, NEW m \in Monitors, Activate(m)
    PROVE  /\ monitors' \in [Monitors -> [status : {"ABSENT", "ACTIVE", "CANCELLED", "EXPIRED"},
                                          hash : Contents \cup {Unread}, changes : Nat]]
           /\ due' \in Seq(Monitors) /\ IsInjective(due')
           /\ \A i \in DOMAIN due' : monitors'[due'[i]] # NoMonitor
           /\ Range(due) \subseteq Range(due')
           /\ Kept /\ monitors'[m] # NoMonitor
           /\ \A n \in Monitors : monitors'[n].hash = monitors[n].hash
                                  /\ monitors'[n].changes = monitors[n].changes
  <1>1. CASE monitors[m] = NoMonitor
    <2>1. monitors' = [monitors EXCEPT ![m].status = "ACTIVE"] /\ due' = Append(due, m)
      BY <1>1 DEF Activate
    <2>2. /\ monitors' \in [Monitors -> [status : {"ABSENT", "ACTIVE", "CANCELLED", "EXPIRED"},
                                          hash : Contents \cup {Unread}, changes : Nat]]
          /\ monitors'[m].status = "ACTIVE"
          /\ \A n \in Monitors : n # m => monitors'[n] = monitors[n]
          /\ \A n \in Monitors : monitors'[n].hash = monitors[n].hash
                                  /\ monitors'[n].changes = monitors[n].changes
      BY <2>1 DEF TypeOK
    <2>3. m \notin Range(due)
      BY <1>1 DEF Listed, Range
    <2>4. /\ due' \in Seq(Monitors) /\ IsInjective(due')
          /\ Range(due') = Range(due) \cup {m}
      BY <2>1, <2>3, AppendNew DEF TypeOK
    <2>5. monitors'[m] # NoMonitor
      BY <2>2 DEF NoMonitor
    <2>6. \A n \in Range(due') : n \in Monitors /\ monitors'[n] # NoMonitor
      <3>1. \A n \in Range(due) : n \in Monitors /\ monitors[n] # NoMonitor
        BY DEF Listed, Range, TypeOK
      <3> QED
        BY <2>2, <2>4, <2>5, <3>1
    <2>7. \A i \in DOMAIN due' : monitors'[due'[i]] # NoMonitor
      BY <2>6 DEF Range
    <2> QED
      BY <1>1, <2>2, <2>4, <2>5, <2>7 DEF Kept
  <1>2. CASE monitors[m] # NoMonitor
    BY <1>2 DEF Activate, TypeOK, Listed, Kept
  <1> QED
    BY <1>1, <1>2

\* A row that was checked is due no more, and every other one still is.
LEMMA CheckedKeeps ==
    ASSUME TypeOK, NEW m \in Monitors, Checked(m)
    PROVE  /\ due' \in Seq(Monitors) /\ IsInjective(due') /\ Range(due') = Range(due) \ {m}
  BY RemoveAtProperties DEF TypeOK, Checked

\* The next row of run_due, or the jobs.
LEMMA NextRowKeeps ==
    ASSUME TypeOK, RowsCurrent, loop.pc \in Checking, NextRow,
           \A i \in DOMAIN loop.batch : i > 1 =>
               /\ loop.batch[i].hash = monitors'[loop.batch[i].id].hash
               /\ loop.batch[i].id \in Range(due')
    PROVE  /\ LoopType' /\ RowsCurrent' /\ LastIsStored' /\ JobRowsCurrent'
           /\ loop'.pc \in {"fetch", "jobs"}
  <1>1. /\ loop.batch \in Seq(MonitorRow) /\ loop.batch # <<>>
        /\ Len(loop.batch) \in Nat \ {0} /\ DOMAIN loop.batch = 1..Len(loop.batch)
    BY LoopParts, RestOfBatch
  <1>2. CASE Len(loop.batch) > 1
    <2> DEFINE rest == Tail(loop.batch)
    <2>1. /\ rest \in Seq(MonitorRow) \ {<<>>} /\ DOMAIN rest = 1..(Len(loop.batch) - 1)
          /\ \A i \in 1..(Len(loop.batch) - 1) : rest[i] = loop.batch[i + 1]
      BY <1>1, <1>2, RestOfBatch
    <2>2. loop' = [pc |-> "fetch", batch |-> rest, to |-> Unread, address |-> 1]
      BY <1>2 DEF NextRow, NextOf, Wake
    <2> HIDE DEF rest
    <2>3. LoopType'
      BY <2>1, <2>2, ConstantsAssumption DEF LoopType, Checking
    <2>4. RowsCurrent'
      <3>1. \A i \in DOMAIN rest : i \in Nat /\ i + 1 \in DOMAIN loop.batch /\ i + 1 > 1
                                   /\ rest[i] = loop.batch[i + 1]
        BY <1>1, <2>1
      <3>2. Distinct(rest)
        <4>1. Distinct(loop.batch)
          BY DEF RowsCurrent
        <4> SUFFICES ASSUME NEW i \in DOMAIN rest, NEW k \in DOMAIN rest, rest[i].id = rest[k].id
                     PROVE  i = k
          BY DEF Distinct
        <4>2. i + 1 = k + 1
          BY <3>1, <4>1 DEF Distinct
        <4> QED
          BY <3>1, <4>2
      <3>3. ASSUME NEW i \in DOMAIN rest
            PROVE  rest[i].hash = monitors'[rest[i].id].hash /\ rest[i].id \in Range(due')
        <4> DEFINE k == i + 1
        <4>1. k \in DOMAIN loop.batch /\ k > 1 /\ rest[i] = loop.batch[k]
          BY <3>1
        <4> HIDE DEF k
        <4> QED
          BY <4>1
      <3> QED
        BY <2>2, <3>2, <3>3 DEF RowsCurrent, Checking
    <2> QED
      BY <2>2, <2>3, <2>4 DEF LastIsStored, JobRowsCurrent, Delivering, Completing
  <1>3. CASE ~(Len(loop.batch) > 1)
    BY <1>3, RestFrame DEF NextRow, NextOf, AtRest, Wake
  <1> QED
    BY <1>2, <1>3

-----------------------------------------------------------------------------
(* Customers, the marketplace and time *)

\* A purchase, or its repetition.
LEMMA BuyKeeps == ASSUME IInv, NEW c \in Customers, Buy(c) PROVE IInv'
  <1>1. /\ c \in Monitors /\ Activate(c)
        /\ UNCHANGED <<events, jobs, accepted, loop, inbox, callbacks, failures>>
    BY DEF Buy, Monitors, world
  <1>2. /\ TypeOK' /\ Listed' /\ Kept /\ SameHistory /\ Range(due) \subseteq Range(due')
    BY <1>1, ActivateKeeps DEF IInv, TypeOK, Listed, LoopType, SameHistory
  <1>3. RowsCurrent' /\ LastIsStored' /\ JobRowsCurrent'
    BY <1>1, <1>2, RowsFrame DEF IInv
  <1> QED
    BY <1>1, <1>2, <1>3, HistoryFrame, InboxFrame, JobsFrame DEF IInv

\* A cancellation.
LEMMA CancelKeeps == ASSUME IInv, NEW m \in Monitors, Cancel(m) PROVE IInv'
  <1>1. /\ monitors' = [monitors EXCEPT ![m].status = "CANCELLED"]
        /\ UNCHANGED <<due, events, jobs, accepted, loop, inbox, callbacks, failures>>
    BY DEF Cancel, world
  <1>2. /\ monitors' \in [Monitors -> [status : {"ABSENT", "ACTIVE", "CANCELLED", "EXPIRED"},
                                       hash : Contents \cup {Unread}, changes : Nat]]
        /\ monitors'[m].status = "CANCELLED"
        /\ \A n \in Monitors : n # m => monitors'[n] = monitors[n]
        /\ \A n \in Monitors : monitors'[n].hash = monitors[n].hash
                               /\ monitors'[n].changes = monitors[n].changes
    BY <1>1 DEF IInv, TypeOK
  <1>3. Kept /\ SameHistory
    BY <1>1, <1>2 DEF Kept, SameHistory, NoMonitor
  <1>4. TypeOK' /\ Listed'
    <2>1. TypeOK'
      BY <1>1, <1>2 DEF IInv, TypeOK, LoopType
    <2>2. \A i \in DOMAIN due : due[i] \in Monitors
      BY DEF IInv, TypeOK
    <2> QED
      BY <1>1, <1>3, <2>1, <2>2 DEF IInv, Listed, Kept
  <1>5. RowsCurrent' /\ LastIsStored' /\ JobRowsCurrent'
    BY <1>1, <1>3, RowsFrame DEF IInv
  <1> QED
    BY <1>1, <1>3, <1>4, <1>5, HistoryFrame, InboxFrame, JobsFrame DEF IInv

\* A job of the marketplace.
LEMMA DispatchKeeps == ASSUME IInv, NEW j \in Jobs, Dispatch(j) PROVE IInv'
  <1>1. PICK valid \in BOOLEAN :
            /\ jobs[j] = NoJob /\ accepted' = Append(accepted, j)
            /\ jobs' = [jobs EXCEPT ![j] = [status |-> "PENDING", attempts |-> 0, valid |-> valid]]
            /\ UNCHANGED <<monitors, due, events, loop, inbox, callbacks, failures>>
    BY DEF Dispatch, world
  <1>3. /\ jobs' \in [Jobs -> [status : {"ABSENT", "COMPLETED", "FAILED"} \cup Open,
                               attempts : 0..MAX_ATTEMPTS, valid : BOOLEAN]]
        /\ jobs'[j] = [status |-> "PENDING", attempts |-> 0, valid |-> valid]
        /\ \A k \in Jobs : k # j => jobs'[k] = jobs[k]
    <2>1. [status |-> "PENDING", attempts |-> 0, valid |-> valid]
              \in [status : {"ABSENT", "COMPLETED", "FAILED"} \cup Open,
                   attempts : 0..MAX_ATTEMPTS, valid : BOOLEAN]
      BY ConstantsAssumption DEF Open
    <2> QED
      BY <1>1, <2>1 DEF IInv, TypeOK
  <1>4. jobs'[j] # NoJob
    BY <1>3 DEF NoJob
  <1>5. j \notin Range(accepted)
    BY <1>1 DEF IInv, Listed, Range
  <1>6. /\ accepted' \in Seq(Jobs) /\ IsInjective(accepted')
        /\ Range(accepted') = Range(accepted) \cup {j}
    BY <1>1, <1>5, AppendNew DEF IInv, TypeOK
  <1>7. TypeOK'
    BY <1>1, <1>3, <1>6 DEF IInv, TypeOK, LoopType
  <1>8. Listed'
    <2>1. \A k \in Range(accepted) : k \in Jobs /\ jobs[k] # NoJob
      BY DEF IInv, Listed, Range, TypeOK
    <2>2. \A k \in Range(accepted') : jobs'[k] # NoJob
      BY <1>3, <1>4, <1>6, <2>1
    <2>3. \A i \in DOMAIN accepted' : jobs'[accepted'[i]] # NoJob
      BY <2>2 DEF Range
    <2> QED
      BY <1>1, <2>3 DEF IInv, Listed
  <1>9. Kept /\ SameHistory
    BY <1>1 DEF Kept, SameHistory
  <1>10. RowsCurrent' /\ LastIsStored' /\ JobRowsCurrent'
    <2>1. \A k \in Jobs : jobs[k].status \in Open => jobs'[k] = jobs[k]
      BY <1>1, <1>3 DEF NoJob, Open
    <2> QED
      BY <1>1, <1>9, <2>1, RowsFrame DEF IInv
  <1>11. JobsDelivered'
    <2> SUFFICES ASSUME NEW k \in Jobs
                 PROVE  /\ jobs'[k].status = "COMPLETED" => callbacks[k] > 0 /\ monitors[k] # NoMonitor
                        /\ jobs'[k].status = "FAILED" <=>
                               jobs'[k].attempts = MAX_ATTEMPTS /\ jobs'[k].status # "COMPLETED"
                        /\ callbacks[k] <= Addresses * (jobs'[k].attempts + failures) + UnderWay(k)
      BY <1>1 DEF JobsDelivered, UnderWay, At, Current, Row
    <2>1. CASE k # j
      BY <1>3, <2>1 DEF IInv, JobsDelivered
    <2>2. CASE k = j
      <3>1. callbacks[k] <= Addresses * (jobs'[k].attempts + failures) + UnderWay(k)
        <4>1. jobs'[k].attempts = jobs[k].attempts
          BY <1>1, <1>3, <2>2 DEF NoJob
        <4> QED
          BY <4>1 DEF IInv, JobsDelivered
      <3> QED
        BY <1>3, <2>2, <3>1, ConstantsAssumption
    <2> QED
      BY <2>1, <2>2
  <1> QED
    BY <1>1, <1>7, <1>8, <1>9, <1>10, <1>11, HistoryFrame, InboxFrame DEF IInv

\* Six hours are over.
LEMMA BecomeDueKeeps == ASSUME IInv, NEW m \in Monitors, BecomeDue(m) PROVE IInv'
  <1>1. /\ monitors[m] # NoMonitor /\ ~Contains(due, m) /\ due' = Append(due, m)
        /\ UNCHANGED <<monitors, events, jobs, accepted, loop, inbox, callbacks, failures>>
    BY DEF BecomeDue, world
  <1>2. m \notin Range(due)
    BY <1>1 DEF Contains, Range, IInv, TypeOK
  <1>3. due' \in Seq(Monitors) /\ IsInjective(due') /\ Range(due') = Range(due) \cup {m}
    BY <1>1, <1>2, AppendNew DEF IInv, TypeOK
  <1>4. TypeOK'
    BY <1>1, <1>3 DEF IInv, TypeOK, LoopType
  <1>5. Listed'
    <2>1. \A n \in Range(due') : monitors[n] # NoMonitor
      BY <1>1, <1>3 DEF IInv, Listed, Range
    <2> QED
      BY <1>1, <2>1 DEF IInv, Listed, Range
  <1>6. Kept /\ SameHistory
    BY <1>1 DEF Kept, SameHistory
  <1>7. RowsCurrent' /\ LastIsStored' /\ JobRowsCurrent'
    BY <1>1, <1>3, <1>6, RowsFrame DEF IInv
  <1> QED
    BY <1>1, <1>4, <1>5, <1>6, <1>7, HistoryFrame, InboxFrame, JobsFrame DEF IInv

-----------------------------------------------------------------------------
(* run_due *)

\* Expiry and the selection of a batch.
LEMMA RunDueKeeps == ASSUME IInv, RunDue PROVE IInv'
  <1>1. PICK over \in SUBSET {m \in Monitors : monitors[m].status = "ACTIVE"} :
          \E batch \in Selections({m \in Range(due) : monitors[m].status = "ACTIVE"} \ over,
                                  due, Limit) :
            /\ monitors' = [m \in Monitors |->
                   IF m \in over THEN [monitors[m] EXCEPT !.status = "EXPIRED"] ELSE monitors[m]]
            /\ loop' = [Wake EXCEPT
                   !.pc = IF batch = <<>> THEN "jobs" ELSE "fetch",
                   !.batch = [i \in DOMAIN batch |->
                                 [id |-> batch[i], hash |-> monitors[batch[i]].hash]]]
    BY DEF RunDue
  <1> DEFINE rows == {m \in Range(due) : monitors[m].status = "ACTIVE"} \ over
  <1>2. PICK batch \in Selections(rows, due, Limit) :
            /\ monitors' = [m \in Monitors |->
                   IF m \in over THEN [monitors[m] EXCEPT !.status = "EXPIRED"] ELSE monitors[m]]
            /\ loop' = [Wake EXCEPT
                   !.pc = IF batch = <<>> THEN "jobs" ELSE "fetch",
                   !.batch = [i \in DOMAIN batch |->
                                 [id |-> batch[i], hash |-> monitors[batch[i]].hash]]]
    BY <1>1
  <1>3. At("due") /\ UNCHANGED <<due, events, jobs, accepted, inbox, callbacks, failures>>
    BY DEF RunDue, world
  <1>4. /\ monitors' \in [Monitors -> [status : {"ABSENT", "ACTIVE", "CANCELLED", "EXPIRED"},
                                       hash : Contents \cup {Unread}, changes : Nat]]
        /\ \A m \in Monitors : monitors'[m].hash = monitors[m].hash
                               /\ monitors'[m].changes = monitors[m].changes
        /\ \A m \in Monitors : m \notin over => monitors'[m] = monitors[m]
        /\ \A m \in Monitors : m \in over => monitors'[m].status = "EXPIRED"
    <2> DEFINE M == [status : {"ABSENT", "ACTIVE", "CANCELLED", "EXPIRED"},
                     hash : Contents \cup {Unread}, changes : Nat]
    <2>1. monitors \in [Monitors -> M]
      BY DEF IInv, TypeOK
    <2>2. ASSUME NEW m \in Monitors
          PROVE  /\ [monitors[m] EXCEPT !.status = "EXPIRED"] \in M
                 /\ [monitors[m] EXCEPT !.status = "EXPIRED"].status = "EXPIRED"
                 /\ [monitors[m] EXCEPT !.status = "EXPIRED"].hash = monitors[m].hash
                 /\ [monitors[m] EXCEPT !.status = "EXPIRED"].changes = monitors[m].changes
      <3>1. monitors[m] \in M
        BY <2>1
      <3> QED
        BY <3>1
    <2> HIDE DEF M
    <2>3. \A m \in Monitors : monitors'[m] = IF m \in over
              THEN [monitors[m] EXCEPT !.status = "EXPIRED"] ELSE monitors[m]
      BY <1>2
    <2>4. monitors' \in [Monitors -> M]
      BY <1>2, <2>1, <2>2
    <2> QED
      BY <2>2, <2>3, <2>4 DEF M
  <1>5. Kept /\ SameHistory
    BY <1>3, <1>4 DEF Kept, SameHistory, NoMonitor
  <1> DEFINE selected == [i \in DOMAIN batch |->
                             [id |-> batch[i], hash |-> monitors[batch[i]].hash]]
  <1>6. /\ batch \in Seq(rows) /\ DOMAIN batch = 1..Len(batch)
        /\ \A i, k \in DOMAIN batch : batch[i] = batch[k] => i = k
    <2>1. IsInjective(due) /\ DOMAIN due \subseteq Nat /\ Limit \in Nat
      BY ConstantsAssumption DEF IInv, TypeOK
    <2> HIDE DEF rows
    <2> QED
      BY <2>1, SelectionProperties
  <1>7. /\ rows \subseteq Monitors /\ rows \subseteq Range(due)
        /\ \A i \in DOMAIN batch : batch[i] \in rows
    BY <1>6 DEF IInv, TypeOK, Range
  <1> HIDE DEF rows
  <1>8. LoopType' /\ RowsCurrent' /\ LastIsStored' /\ JobRowsCurrent'
        /\ loop'.pc \in {"jobs", "fetch"}
    <2>1. CASE batch = <<>>
      <3>1. selected = <<>>
        <4>1. DOMAIN batch = 1..0 /\ selected \in [1..0 -> MonitorRow]
          BY <2>1
        <4> HIDE DEF selected
        <4> QED
          BY <4>1, NothingSelected
      <3>2. loop' = [pc |-> "jobs", batch |-> selected, to |-> Unread, address |-> 1]
        BY <1>2, <2>1 DEF Wake
      <3> HIDE DEF selected
      <3> QED
        BY <3>1, <3>2, RestFrame DEF AtRest, Wake
    <2>2. CASE batch # <<>>
      <3>1. selected \in Seq(MonitorRow) /\ DOMAIN selected = DOMAIN batch /\ selected # <<>>
        <4>1. \A i \in 1..Len(batch) : selected[i] \in MonitorRow
          BY <1>6, <1>7 DEF MonitorRow, IInv, TypeOK
        <4>2. selected = [i \in 1..Len(batch) |-> selected[i]] /\ Len(batch) \in Nat
              /\ Len(batch) # 0
          BY <1>6, <2>2
        <4> QED
          BY <1>6, <4>1, <4>2, IsASeq
      <3>2. \A i \in DOMAIN batch : selected[i].id = batch[i]
                                    /\ selected[i].hash = monitors[batch[i]].hash
        OBVIOUS
      <3> HIDE DEF selected
      <3>3. loop' = [pc |-> "fetch", batch |-> selected, to |-> Unread, address |-> 1]
        BY <1>2, <2>2 DEF Wake, selected
      <3>4. LoopType'
        BY <3>1, <3>3, ConstantsAssumption DEF LoopType, Checking
      <3>5. RowsCurrent'
        <4>1. Distinct(selected)
          BY <1>6, <3>1, <3>2 DEF Distinct
        <4>2. \A i \in DOMAIN selected : selected[i].hash = monitors'[selected[i].id].hash
                                         /\ selected[i].id \in Range(due')
          BY <1>3, <1>4, <1>7, <3>1, <3>2
        <4> QED
          BY <3>3, <4>1, <4>2 DEF RowsCurrent, Checking
      <3> QED
        BY <3>3, <3>4, <3>5 DEF LastIsStored, JobRowsCurrent, Delivering, Completing
    <2> QED
      BY <2>1, <2>2
  <1>9. TypeOK' /\ Listed'
    <2>1. TypeOK'
      BY <1>3, <1>4, <1>8 DEF IInv, TypeOK
    <2>2. \A i \in DOMAIN due : due[i] \in Monitors
      BY DEF IInv, TypeOK
    <2> QED
      BY <1>3, <1>5, <2>1, <2>2 DEF IInv, Listed, Kept
  <1>10. JobsDelivered'
    BY <1>3, <1>5, <1>9, JobsFrame DEF IInv, At
  <1>11. InboxSound'
    BY <1>3, <1>8, InboxFrame DEF IInv
  <1> QED
    BY <1>5, <1>8, <1>9, <1>10, <1>11, HistoryFrame DEF IInv

\* What a source says is a content.
LEMMA SaysContents == ASSUME TypeOK, NEW m \in Monitors PROVE Says(m) \subseteq Contents
  <1>1. (CHOOSE text \in Contents : TRUE) \in Contents
    BY ConstantsAssumption
  <1>2. monitors[m].hash # Unread => monitors[m].hash \in Contents
    BY DEF TypeOK
  <1> QED
    BY <1>1, <1>2 DEF Says

\* The answer of a source, or its failure.
LEMMA FetchKeeps == ASSUME IInv, Fetch PROVE IInv'
  <1>1. /\ At("fetch")
        /\ UNCHANGED <<monitors, due, events, jobs, accepted, inbox, callbacks, failures>>
    BY DEF Fetch, database, world
  <1>2. loop.pc \in Checking
    BY <1>1 DEF At, Checking
  <1>3. loop.batch \in Seq(MonitorRow) \ {<<>>} /\ loop.to \in Contents \cup {Unread}
        /\ loop = [pc |-> "fetch", batch |-> loop.batch, to |-> loop.to,
                    address |-> loop.address]
        /\ loop.address \in 1..Addresses
    BY <1>1, <1>2, LoopParts DEF IInv, At
  <1>4. PICK pc \in {"store", "fail"}, to \in Contents \cup {Unread}, address \in 1..Addresses :
            /\ loop' = [pc |-> pc, batch |-> loop.batch, to |-> to, address |-> address]
            /\ pc = "store" => to \in Contents
    <2>1. CASE Goto("fail")
      <3>1. loop' = [pc |-> "fail", batch |-> loop.batch, to |-> loop.to, address |-> 1]
        BY <1>3, <2>1 DEF Goto
      <3>2. 1 \in 1..Addresses
        BY ConstantsAssumption
      <3>3. loop.to \in Contents \cup {Unread}
        BY <1>3
      <3> QED
        BY <3>1, <3>2, <3>3
    <2>2. CASE \E text \in Says(Current) : loop' = [loop EXCEPT !.pc = "store", !.to = text]
      <3>1. Says(Current) \subseteq Contents
        BY <1>2, CheckedRow, SaysContents DEF IInv
      <3> QED
        BY <1>3, <2>2, <3>1
    <2> QED
      BY <2>1, <2>2 DEF Fetch
  <1>5. LoopType'
    BY <1>3, <1>4 DEF LoopType, Checking
  <1>6. RowsCurrent' /\ LastIsStored' /\ JobRowsCurrent'
    <2>1. RowsCurrent'
      BY <1>1, <1>2, <1>4 DEF IInv, RowsCurrent, Unwritten, At
    <2> QED
      BY <1>4, <2>1 DEF LastIsStored, JobRowsCurrent, Delivering, Completing
  <1>7. TypeOK' /\ Listed' /\ Kept /\ SameHistory
    BY <1>1, <1>5 DEF IInv, TypeOK, Listed, Kept, SameHistory
  <1> QED
    BY <1>1, <1>4, <1>6, <1>7, HistoryFrame, InboxFrame, JobsFrame DEF IInv, At

\* A failed check.
LEMMA FailCheckKeeps == ASSUME IInv, FailCheck PROVE IInv'
  <1>1. /\ At("fail") /\ Checked(Current) /\ NextRow
        /\ UNCHANGED <<monitors, events, jobs, accepted, inbox, callbacks, failures>>
    BY DEF FailCheck, world
  <1>2. loop.pc \in Checking
    BY <1>1 DEF At, Checking
  <1>3. /\ due' \in Seq(Monitors) /\ IsInjective(due') /\ Range(due') = Range(due) \ {Current}
    BY <1>1, <1>2, CheckedRow, CheckedKeeps DEF IInv
  <1>4. ASSUME NEW i \in DOMAIN loop.batch, i > 1
        PROVE  /\ loop.batch[i].hash = monitors'[loop.batch[i].id].hash
               /\ loop.batch[i].id \in Range(due')
    <2>1. loop.batch[i].id # Current
      BY <1>2, <1>4, CheckedRow DEF IInv, RowsCurrent, Distinct, Current
    <2> QED
      BY <1>1, <1>2, <1>3, <1>4, <2>1 DEF IInv, RowsCurrent
  <1>5. /\ LoopType' /\ RowsCurrent' /\ LastIsStored' /\ JobRowsCurrent'
        /\ loop'.pc \in {"fetch", "jobs"}
    BY <1>1, <1>2, <1>4, NextRowKeeps DEF IInv
  <1>6. TypeOK'
    BY <1>1, <1>3, <1>5 DEF IInv, TypeOK
  <1>7. Listed'
    <2>1. \A n \in Range(due') : monitors[n] # NoMonitor
      BY <1>3 DEF IInv, Listed, Range
    <2> QED
      BY <1>1, <2>1 DEF IInv, Listed, Range
  <1>8. Kept /\ SameHistory
    BY <1>1 DEF Kept, SameHistory
  <1> QED
    BY <1>1, <1>5, <1>6, <1>7, <1>8, HistoryFrame, InboxFrame, JobsFrame DEF IInv, At

\* What a stored check makes of a monitor and its events.
LEMMA StoreCheckWrites ==
    ASSUME IInv, StoreCheck, NEW m, m = Current
    PROVE  /\ m \in Monitors /\ loop.pc \in Checking /\ loop.to \in Contents
           /\ Row.hash = monitors[m].hash
           /\ monitors' \in [Monitors -> [status : {"ABSENT", "ACTIVE", "CANCELLED", "EXPIRED"},
                                          hash : Contents \cup {Unread}, changes : Nat]]
           /\ monitors'[m].hash = loop.to
           /\ \A n \in Monitors : n # m => monitors'[n] = monitors[n] /\ events'[n] = events[n]
           /\ events' \in [Monitors -> Seq(Event)]
           /\ \/ /\ ~Changed(Row.hash, loop.to) /\ events' = events
                 /\ monitors'[m].changes = monitors[m].changes
              \/ /\ Changed(Row.hash, loop.to)
                 /\ monitors'[m].changes = monitors[m].changes + 1
                 /\ \E event \in Event : /\ event.from = Row.hash /\ event.to = loop.to
                                         /\ event.webhook # "HTTP"
                                         /\ events'[m] = Append(events[m], event)
  <1> DEFINE changed == Changed(Row.hash, loop.to)
             event == [from |-> Row.hash, to |-> loop.to,
                       webhook |-> IF m \in Webhooks THEN "PENDING" ELSE "none"]
  <1>1. /\ At("store")
        /\ monitors' = [monitors EXCEPT ![m] =
               [status |-> @.status, hash |-> loop.to,
                changes |-> @.changes + (IF changed THEN 1 ELSE 0)]]
        /\ events' = IF changed THEN [events EXCEPT ![m] = Append(@, event)] ELSE events
    BY DEF StoreCheck
  <1>2. loop.pc \in Checking
    BY <1>1 DEF At, Checking
  <1>3. m \in Monitors /\ Row.hash \in Contents \cup {Unread}
    BY <1>2, CheckedRow DEF IInv
  <1>4. loop.to \in Contents /\ Row.hash = monitors[m].hash
    BY <1>1, <1>2, CheckedRow DEF IInv, RowsCurrent, At, Checking, Unwritten, Current
  <1>5. /\ monitors' \in [Monitors -> [status : {"ABSENT", "ACTIVE", "CANCELLED", "EXPIRED"},
                                       hash : Contents \cup {Unread}, changes : Nat]]
        /\ monitors'[m].hash = loop.to
        /\ monitors'[m].changes = monitors[m].changes + (IF changed THEN 1 ELSE 0)
        /\ \A n \in Monitors : n # m => monitors'[n] = monitors[n]
    <2> DEFINE more == IF changed THEN 1 ELSE 0
               written == [status |-> monitors[m].status, hash |-> loop.to,
                           changes |-> monitors[m].changes + more]
               M == [status : {"ABSENT", "ACTIVE", "CANCELLED", "EXPIRED"},
                     hash : Contents \cup {Unread}, changes : Nat]
    <2>1. more \in Nat
      OBVIOUS
    <2>2. monitors \in [Monitors -> M]
      BY DEF IInv, TypeOK
    <2>3. monitors' = [monitors EXCEPT ![m] = written]
      BY <1>1, <1>3, <2>2
    <2> HIDE DEF more
    <2>4. written \in M /\ written.hash = loop.to /\ written.changes = monitors[m].changes + more
      <3>1. monitors[m] \in M
        BY <1>3, <2>2
      <3> QED
        BY <1>4, <2>1, <3>1
    <2> HIDE DEF written, M
    <2>5. monitors' \in [Monitors -> M] /\ monitors'[m] = written
          /\ \A n \in Monitors : n # m => monitors'[n] = monitors[n]
      BY <1>3, <2>2, <2>3, <2>4
    <2> QED
      BY <2>4, <2>5 DEF M, more
  <1>6. CASE changed
    <2>1. event \in Event /\ event.webhook # "HTTP"
      BY <1>3, <1>4, <1>6 DEF Event, Changed
    <2>2. event.from = Row.hash /\ event.to = loop.to
      OBVIOUS
    <2>3. events' = [events EXCEPT ![m] = Append(@, event)]
      BY <1>1, <1>6
    <2> HIDE DEF event
    <2>4. /\ events' \in [Monitors -> Seq(Event)]
          /\ events'[m] = Append(events[m], event)
          /\ \A n \in Monitors : n # m => events'[n] = events[n]
      BY <1>3, <2>1, <2>3 DEF IInv, TypeOK
    <2>5. monitors'[m].changes = monitors[m].changes + 1
      BY <1>5, <1>6
    <2> HIDE DEF changed
    <2> QED
      BY <1>2, <1>3, <1>4, <1>5, <1>6, <2>1, <2>2, <2>4, <2>5 DEF changed
  <1>7. CASE ~changed
    <2>1. monitors'[m].changes = monitors[m].changes /\ events' = events
      BY <1>1, <1>3, <1>5, <1>7 DEF IInv, TypeOK
    <2> QED
      BY <1>2, <1>3, <1>4, <1>5, <1>7, <2>1 DEF IInv, TypeOK
  <1> QED
    BY <1>6, <1>7

\* A check that is stored, with its change if it was one.
LEMMA StoreCheckKeeps == ASSUME IInv, StoreCheck PROVE IInv'
  <1> DEFINE m == Current
  <1>1. /\ At("store") /\ Checked(m)
        /\ IF Changed(Row.hash, loop.to) /\ m \in Webhooks THEN Goto("deliver") ELSE NextRow
        /\ UNCHANGED <<jobs, accepted, inbox, callbacks, failures>>
    BY DEF StoreCheck, world
  <1>2. /\ m \in Monitors /\ loop.pc \in Checking /\ loop.to \in Contents
        /\ Row.hash = monitors[m].hash
        /\ monitors' \in [Monitors -> [status : {"ABSENT", "ACTIVE", "CANCELLED", "EXPIRED"},
                                       hash : Contents \cup {Unread}, changes : Nat]]
        /\ monitors'[m].hash = loop.to
        /\ \A n \in Monitors : n # m => monitors'[n] = monitors[n] /\ events'[n] = events[n]
        /\ events' \in [Monitors -> Seq(Event)]
        /\ \/ /\ ~Changed(Row.hash, loop.to) /\ events' = events
              /\ monitors'[m].changes = monitors[m].changes
           \/ /\ Changed(Row.hash, loop.to)
              /\ monitors'[m].changes = monitors[m].changes + 1
              /\ \E event \in Event : /\ event.from = Row.hash /\ event.to = loop.to
                                      /\ event.webhook # "HTTP"
                                      /\ events'[m] = Append(events[m], event)
    BY StoreCheckWrites
  <1>3. due' \in Seq(Monitors) /\ IsInjective(due') /\ Range(due') = Range(due) \ {m}
    BY <1>1, <1>2, CheckedKeeps DEF IInv
  <1>4. ASSUME NEW i \in DOMAIN loop.batch, i > 1
        PROVE  /\ loop.batch[i].id \in Monitors /\ loop.batch[i].id # m
               /\ loop.batch[i].hash = monitors'[loop.batch[i].id].hash
               /\ loop.batch[i].id \in Range(due')
    <2>1. loop.batch[i].id \in Monitors /\ loop.batch[i].id # m
      <3>1. Distinct(loop.batch) /\ 1 \in DOMAIN loop.batch /\ m = loop.batch[1].id
        BY <1>2, CheckedRow DEF IInv, RowsCurrent, Current
      <3>2. loop.batch[i].id \in Monitors
        BY <1>2, CheckedRow DEF IInv
      <3> QED
        BY <1>4, <3>1, <3>2 DEF Distinct
    <2> QED
      BY <1>2, <1>3, <1>4, <2>1 DEF IInv, RowsCurrent
  <1>5. /\ LoopType' /\ RowsCurrent' /\ LastIsStored' /\ JobRowsCurrent'
        /\ \/ loop'.pc \in {"fetch", "jobs"}
           \/ loop'.pc = "deliver" /\ Current' = m /\ Changed(Row.hash, loop.to)
    <2>1. CASE Changed(Row.hash, loop.to) /\ m \in Webhooks
      <3>1. loop' = [pc |-> "deliver", batch |-> loop.batch, to |-> loop.to, address |-> 1]
            /\ loop.batch \in Seq(MonitorRow) \ {<<>>}
        BY <1>1, <1>2, <2>1, LoopParts DEF IInv, Goto
      <3>2. LoopType' /\ RowsCurrent' /\ JobRowsCurrent'
        <4>1. LoopType'
          BY <1>2, <3>1, ConstantsAssumption DEF LoopType, Checking
        <4>2. RowsCurrent'
          BY <1>2, <1>4, <3>1 DEF IInv, RowsCurrent, Unwritten
        <4> QED
          BY <3>1, <4>1, <4>2 DEF JobRowsCurrent, Completing
      <3>3. LastIsStored'
        <4>1. PICK event \in Event : event.from = Row.hash /\ event.to = loop.to
                                     /\ events'[m] = Append(events[m], event)
          BY <1>2, <2>1
        <4>2. events[m] \in Seq(Event)
          BY <1>2 DEF IInv, TypeOK
        <4>3. events'[m] # <<>> /\ Last(events'[m]) = event
          BY <4>1, <4>2 DEF Last
        <4>4. Row' = Row /\ Current' = m /\ loop'.to = loop.to
          BY <3>1 DEF Row, Current
        <4> QED
          BY <4>1, <4>3, <4>4 DEF LastIsStored
      <3>4. loop'.pc = "deliver" /\ Current' = m
        BY <3>1 DEF Current, Row
      <3> QED
        BY <2>1, <3>2, <3>3, <3>4
    <2>2. CASE ~(Changed(Row.hash, loop.to) /\ m \in Webhooks)
      BY <1>1, <1>2, <1>4, <2>2, NextRowKeeps DEF IInv
    <2> QED
      BY <2>1, <2>2
  <1>6. TypeOK'
    BY <1>1, <1>2, <1>3, <1>5 DEF IInv, TypeOK
  <1>7. Kept
    <2>1. monitors'[m] # NoMonitor
      BY <1>2, ConstantsAssumption DEF NoMonitor
    <2> QED
      BY <1>2, <2>1 DEF Kept
  <1>8. Listed'
    <2>1. \A n \in Range(due) : n \in Monitors /\ monitors'[n] # NoMonitor
      BY <1>7 DEF IInv, Listed, Range, TypeOK, Kept
    <2> QED
      BY <1>1, <1>3, <2>1 DEF IInv, Listed, Range
  <1>9. EventsAreHistory'
    <2> SUFFICES ASSUME NEW n \in Monitors
                 PROVE  /\ Len(events'[n]) = monitors'[n].changes
                        /\ \A i \in DOMAIN events'[n] :
                              /\ events'[n][i].from # events'[n][i].to
                              /\ events'[n][i].from # Unread
                              /\ i > 1 => events'[n][i].from = events'[n][i - 1].to
                        /\ events'[n] # <<>> => Last(events'[n]).to = monitors'[n].hash
      BY DEF EventsAreHistory
    <2>1. /\ Len(events[n]) = monitors[n].changes
          /\ \A i \in DOMAIN events[n] :
                /\ events[n][i].from # events[n][i].to
                /\ events[n][i].from # Unread
                /\ i > 1 => events[n][i].from = events[n][i - 1].to
          /\ events[n] # <<>> => Last(events[n]).to = monitors[n].hash
      BY DEF IInv, EventsAreHistory
    <2>2. events[n] \in Seq(Event) /\ Len(events[n]) \in Nat
      BY DEF IInv, TypeOK
    <2>3. CASE n # m
      BY <1>2, <2>1, <2>3
    <2>4. CASE n = m /\ ~Changed(Row.hash, loop.to)
      <3>1. events' = events /\ monitors'[m].changes = monitors[m].changes
        BY <1>2, <2>4
      <3>2. events[n] # <<>> => Last(events[n]).to \in Contents
        <4>1. events[n] # <<>> => Last(events[n]) \in Event
          BY <2>2 DEF Last
        <4> QED
          BY <4>1 DEF Event
      <3>3. events[n] # <<>> => loop.to = monitors[n].hash
        BY <1>2, <2>1, <2>4, <3>2, ConstantsAssumption DEF Changed
      <3> QED
        BY <1>2, <2>1, <2>4, <3>1, <3>3
    <2>5. CASE n = m /\ Changed(Row.hash, loop.to)
      <3>1. PICK event \in Event : event.from = Row.hash /\ event.to = loop.to
                                   /\ events'[m] = Append(events[m], event)
        BY <1>2, <2>5
      <3>2. monitors'[m].changes = monitors[m].changes + 1
        BY <1>2, <2>5
      <3>3. /\ Len(events'[n]) = Len(events[n]) + 1 /\ DOMAIN events'[n] = 1..(Len(events[n]) + 1)
            /\ DOMAIN events[n] = 1..Len(events[n])
            /\ \A i \in 1..Len(events[n]) : events'[n][i] = events[n][i]
            /\ events'[n][Len(events[n]) + 1] = event
        BY <2>2, <2>5, <3>1
      <3>4. Last(events'[n]).to = monitors'[n].hash
        BY <1>2, <2>5, <3>1, <3>3 DEF Last
      <3>5. ASSUME NEW i \in DOMAIN events'[n]
            PROVE  /\ events'[n][i].from # events'[n][i].to
                   /\ events'[n][i].from # Unread
                   /\ i > 1 => events'[n][i].from = events'[n][i - 1].to
        <4>1. CASE i = Len(events[n]) + 1
          <5>1. events'[n][i] = event /\ event.from # event.to /\ event.from # Unread
            BY <2>5, <3>1, <3>3, <4>1 DEF Changed
          <5>2. ASSUME i > 1 PROVE event.from = events'[n][i - 1].to
            <6>1. i - 1 = Len(events[n]) /\ events[n] # <<>> /\ i - 1 \in 1..Len(events[n])
              BY <2>2, <4>1, <5>2
            <6>2. events'[n][i - 1].to = monitors[n].hash
              BY <2>1, <3>3, <6>1 DEF Last
            <6> QED
              BY <1>2, <2>5, <3>1, <6>2
          <5> QED
            BY <5>1, <5>2
        <4>2. CASE i \in 1..Len(events[n])
          <5>1. i > 1 => i - 1 \in 1..Len(events[n])
            BY <2>2, <4>2
          <5> QED
            BY <2>1, <3>3, <4>2, <5>1
        <4> QED
          BY <2>2, <3>3, <4>1, <4>2
      <3> QED
        BY <2>1, <2>5, <3>2, <3>3, <3>4, <3>5
    <2> QED
      BY <2>3, <2>4, <2>5
  <1>10. InboxSound'
    <2> SUFFICES ASSUME NEW n \in Monitors PROVE \E heard : Hears(n, heard)'
      BY DEF InboxSound
    <2>1. PICK heard : Hears(n, heard)
      BY DEF IInv, InboxSound
    <2>2. events[n] \in Seq(Event) /\ Len(events[n]) \in Nat
      BY DEF IInv, TypeOK
    <2>3. CASE events'[n] = events[n] /\ ~(loop'.pc = "deliver" /\ n = m)
      <3>1. Hears(n, heard)'
        BY <1>1, <1>5, <2>1, <2>3 DEF Hears, At
      <3> QED
        BY <3>1
    <2>4. CASE n = m /\ Changed(Row.hash, loop.to)
      <3>1. PICK event \in Event : event.webhook # "HTTP" /\ events'[n] = Append(events[n], event)
        BY <1>2, <2>4
      <3>2. /\ Len(events'[n]) = Len(events[n]) + 1 /\ DOMAIN events'[n] = 1..(Len(events[n]) + 1)
            /\ DOMAIN events[n] = 1..Len(events[n])
            /\ \A i \in 1..Len(events[n]) : events'[n][i] = events[n][i]
            /\ events'[n][Len(events[n]) + 1] = event
        BY <2>2, <3>1
      <3>3. /\ heard \in [DOMAIN inbox[n] -> 1..Len(events[n])]
            /\ \A i \in DOMAIN inbox[n] : heard[i] \in DOMAIN events[n]
        BY <2>1, <3>2 DEF Hears
      <3>4. heard \in [DOMAIN inbox[n] -> DOMAIN events'[n]]
        BY <2>2, <3>2, <3>3
      <3>5. \A e \in DOMAIN events'[n] : events'[n][e].webhook = "HTTP" => e \in Range(heard)
        BY <2>1, <2>2, <3>1, <3>2 DEF Hears
      <3>6. \A i \in DOMAIN inbox[n] : heard[i] # Len(events'[n])
        BY <2>2, <3>2, <3>3
      <3>7. \A i \in DOMAIN inbox[n] : /\ inbox[n][i].from = events'[n][heard[i]].from
                                       /\ inbox[n][i].to = events'[n][heard[i]].to
        BY <2>1, <3>2, <3>3 DEF Hears
      <3>8. Hears(n, heard)'
        BY <1>1, <1>5, <2>1, <3>4, <3>5, <3>6, <3>7 DEF Hears, At
      <3> QED
        BY <3>8
    <2> QED
      BY <1>2, <1>5, <2>3, <2>4
  <1>11. JobsDelivered'
    BY <1>1, <1>6, <1>7, JobsFrame DEF IInv, At
  <1> QED
    BY <1>5, <1>6, <1>8, <1>9, <1>10, <1>11 DEF IInv

\* The change whose webhook is under way is an event of the monitor at hand.
LEMMA DeliveredRow ==
    ASSUME IInv, loop.pc \in Delivering, NEW m, m = Current
    PROVE  /\ m \in Monitors /\ loop.pc \in Checking
           /\ events[m] \in Seq(Event) /\ Len(events[m]) \in Nat \ {0}
           /\ DOMAIN events[m] = 1..Len(events[m])
           /\ events[m][Len(events[m])] \in Event
           /\ events[m][Len(events[m])].from = Row.hash
           /\ events[m][Len(events[m])].to = loop.to
           /\ Row.hash \in Contents /\ loop.to \in Contents
  <1>1. loop.pc \in Checking /\ m \in Monitors
    BY CheckedRow DEF IInv, Delivering, Checking
  <1>2. events[m] \in Seq(Event) /\ events[m] # <<>>
    BY <1>1 DEF IInv, TypeOK, LastIsStored
  <1>3. Len(events[m]) \in Nat \ {0} /\ DOMAIN events[m] = 1..Len(events[m])
        /\ events[m][Len(events[m])] \in Event
    BY <1>2, RestOfBatch
  <1>4. events[m][Len(events[m])].from = Row.hash /\ events[m][Len(events[m])].to = loop.to
    BY DEF IInv, LastIsStored, Last
  <1>5. Row.hash \in Contents /\ loop.to \in Contents
    BY <1>3, <1>4 DEF Event
  <1> QED
    BY <1>1, <1>2, <1>3, <1>4, <1>5

\* A POST, that arrives or not.
LEMMA DeliverKeeps == ASSUME IInv, Deliver PROVE IInv'
  <1> DEFINE m == Current
  <1>1. /\ At("deliver")
        /\ UNCHANGED <<monitors, due, events, jobs, accepted, callbacks, failures>>
        /\ \/ Post(m) /\ Goto("answered")
           \/ (Post(m) \/ UNCHANGED inbox) /\ (NextAddress \/ Goto("unanswered"))
    BY DEF Deliver, database, AfterFailedPost
  <1>2. loop.pc \in Delivering
    BY <1>1 DEF At, Delivering
  <1>3. /\ m \in Monitors /\ loop.pc \in Checking
        /\ events[m] \in Seq(Event) /\ Len(events[m]) \in Nat \ {0}
        /\ DOMAIN events[m] = 1..Len(events[m])
        /\ events[m][Len(events[m])].from = Row.hash
        /\ events[m][Len(events[m])].to = loop.to
        /\ Row.hash \in Contents /\ loop.to \in Contents
        /\ Addresses \in Nat \ {0} /\ loop.address \in 1..Addresses /\ 1 \in 1..Addresses
    BY <1>2, DeliveredRow, LoopParts, ConstantsAssumption DEF IInv
  <1>4. PICK pc \in Delivering, address \in 1..Addresses :
            /\ loop' = [pc |-> pc, batch |-> loop.batch, to |-> loop.to, address |-> address]
            /\ pc = "answered" => Post(m)
            /\ pc = "deliver" => address = loop.address + 1
            /\ Post(m) \/ UNCHANGED inbox
    <2>1. loop = [pc |-> "deliver", batch |-> loop.batch, to |-> loop.to, address |-> loop.address]
      BY <1>1, LoopParts DEF IInv, At
    <2>2. CASE NextAddress
      <3>1. loop.address + 1 \in 1..Addresses
        BY <1>3, <2>2 DEF NextAddress
      <3>2. loop' = [pc |-> "deliver", batch |-> loop.batch, to |-> loop.to,
                     address |-> loop.address + 1]
        BY <2>1, <2>2 DEF NextAddress
      <3> QED
        BY <1>1, <3>1, <3>2 DEF Delivering
    <2>3. CASE Goto("unanswered")
      <3>1. loop' = [pc |-> "unanswered", batch |-> loop.batch, to |-> loop.to, address |-> 1]
        BY <2>1, <2>3 DEF Goto
      <3> QED
        BY <1>1, <1>3, <3>1 DEF Delivering
    <2>4. CASE Post(m) /\ Goto("answered")
      <3>1. loop' = [pc |-> "answered", batch |-> loop.batch, to |-> loop.to, address |-> 1]
        BY <2>1, <2>4 DEF Goto
      <3> QED
        BY <1>1, <1>3, <2>4, <3>1 DEF Delivering
    <2> QED
      BY <1>1, <2>2, <2>3, <2>4
  <1>5. loop.batch \in Seq(MonitorRow) \ {<<>>}
    BY <1>3, LoopParts DEF IInv
  <1>6. LoopType' /\ RowsCurrent' /\ LastIsStored' /\ JobRowsCurrent'
    <2>1. LoopType'
      BY <1>3, <1>4, <1>5 DEF LoopType, Checking, Delivering
    <2>2. RowsCurrent'
      BY <1>1, <1>3, <1>4 DEF IInv, RowsCurrent, Unwritten, Delivering, Checking
    <2>3. LastIsStored'
      <3>1. Row' = Row /\ Current' = m /\ loop'.to = loop.to
        BY <1>4 DEF Row, Current
      <3> QED
        BY <1>1, <1>2, <3>1 DEF IInv, LastIsStored
    <2> QED
      BY <1>4, <2>1, <2>2, <2>3 DEF JobRowsCurrent, Completing, Delivering
  <1> DEFINE change == [from |-> Row.hash, to |-> loop.to]
  <1>7. change \in Change /\ inbox[m] \in Seq(Change)
    BY <1>3 DEF Change, IInv, TypeOK
  <1>8. ASSUME Post(m)
        PROVE  /\ inbox' \in [Monitors -> Seq(Change)]
               /\ inbox'[m] = Append(inbox[m], change)
               /\ \A n \in Monitors : n # m => inbox'[n] = inbox[n]
    BY <1>3, <1>7, <1>8 DEF Post, IInv, TypeOK
  <1>9. TypeOK' /\ Listed' /\ Kept /\ SameHistory
    <2>1. inbox' \in [Monitors -> Seq(Change)]
      BY <1>4, <1>8 DEF IInv, TypeOK
    <2> QED
      BY <1>1, <1>6, <2>1 DEF IInv, TypeOK, Listed, Kept, SameHistory
  <1>10. JobsDelivered'
    BY <1>1, <1>9, JobsFrame DEF IInv, At
  <1>11. InboxSound'
    <2> SUFFICES ASSUME NEW n \in Monitors PROVE \E heard : Hears(n, heard)'
      BY DEF InboxSound
    <2>1. PICK heard : Hears(n, heard)
      BY DEF IInv, InboxSound
    <2>2. Current' = m /\ loop'.pc = pc /\ loop'.address = address
      BY <1>4 DEF Current, Row
    <2> DEFINE last == Len(events[n])
               count == Len(inbox[n])
    <2>3. CASE n # m
      <3>1. inbox'[n] = inbox[n] /\ ~(n = Current')
        BY <1>4, <1>8, <2>2, <2>3
      <3>2. Hears(n, heard)'
        BY <1>1, <2>1, <3>1 DEF Hears
      <3> QED
        BY <3>2
    <2>4. CASE n = m /\ inbox'[n] = inbox[n] /\ pc # "answered"
      <3>1. /\ count \in Nat /\ DOMAIN inbox[n] = 1..count
        BY <1>7, <2>4
      <3>2. ASSUME pc = "deliver", NEW i \in DOMAIN inbox[n], heard[i] = last
            PROVE  count + 1 < i + address
        <4>1. count + 1 < i + loop.address /\ address = loop.address + 1
          BY <1>1, <1>4, <2>1, <2>4, <3>2 DEF Hears
        <4> HIDE DEF count
        <4> QED
          BY <1>3, <3>1, <3>2, <4>1
      <3>3. Hears(n, heard)'
        BY <1>1, <2>1, <2>2, <2>4, <3>2 DEF Hears, At
      <3> QED
        BY <3>3
    <2>5. CASE n = m /\ Post(m)
      <3>0. PICK now : now = [i \in 1..(count + 1) |-> IF i <= count THEN heard[i] ELSE last]
        OBVIOUS
      <3>1. /\ count \in Nat /\ DOMAIN inbox[n] = 1..count /\ DOMAIN inbox'[n] = 1..(count + 1)
            /\ Len(inbox'[n]) = count + 1
            /\ \A i \in 1..count : inbox'[n][i] = inbox[n][i]
            /\ inbox'[n][count + 1] = change
        BY <1>7, <1>8, <2>5
      <3>2. /\ heard \in [1..count -> 1..last] /\ last \in Nat
            /\ \A i \in 1..count : heard[i] \in 1..last
            /\ \A i \in 1..count : heard[i] = last => count + 1 < i + loop.address
        BY <1>1, <1>3, <2>1, <2>5, <3>1 DEF Hears
      <3>3. \A i, k \in 1..count : /\ i < k => heard[i] <= heard[k]
                                   /\ i + Addresses <= k => heard[i] < heard[k]
        BY <2>1, <3>1 DEF Hears
      <3>4. /\ \A i \in 1..count : now[i] = heard[i]
            /\ now[count + 1] = last /\ now \in [1..(count + 1) -> 1..last]
        BY <1>3, <2>5, <3>0, <3>1, <3>2
      <3>5. \A i \in 1..(count + 1) : i \in 1..count \/ i = count + 1
        BY <3>1
      <3>6. ASSUME NEW i \in 1..(count + 1), NEW k \in 1..(count + 1)
            PROVE  /\ i < k => now[i] <= now[k]
                   /\ i + Addresses <= k => now[i] < now[k]
        <4> HIDE DEF count, last
        <4>1. CASE i \in 1..count /\ k \in 1..count
          BY <3>3, <3>4, <4>1
        <4>2. CASE i \in 1..count /\ k = count + 1
          <5>1. now[i] = heard[i] /\ now[k] = last /\ heard[i] \in 1..last
            BY <3>2, <3>4, <4>2
          <5>2. heard[i] = last => ~(i + Addresses <= count + 1)
            <6>1. /\ count \in Nat /\ i \in Nat /\ Addresses \in Nat
                  /\ loop.address \in Nat /\ loop.address <= Addresses
              BY <1>3, <3>1
            <6>2. heard[i] = last => count + 1 < i + loop.address
              BY <3>2, <4>2
            <6> QED
              BY <6>1, <6>2
          <5> QED
            BY <3>2, <4>2, <5>1, <5>2
        <4>3. CASE i = count + 1
          BY <1>3, <3>1, <4>3
        <4> QED
          BY <3>5, <4>1, <4>2, <4>3
      <3>7. \A i \in 1..(count + 1) : /\ inbox'[n][i].from = events[n][now[i]].from
                                      /\ inbox'[n][i].to = events[n][now[i]].to
        <4>1. change.from = events[n][last].from /\ change.to = events[n][last].to
          BY <1>3, <2>5
        <4>2. \A i \in 1..count : /\ inbox[n][i].from = events[n][heard[i]].from
                                  /\ inbox[n][i].to = events[n][heard[i]].to
          BY <2>1, <3>1 DEF Hears
        <4> HIDE DEF change, last, count
        <4> QED
          BY <3>1, <3>4, <3>5, <4>1, <4>2
      <3>8. last \in Range(now) /\ Range(heard) \subseteq Range(now)
        <4> HIDE DEF last, count
        <4>1. DOMAIN now = 1..(count + 1) /\ DOMAIN heard = 1..count
              /\ count + 1 \in DOMAIN now /\ DOMAIN heard \subseteq DOMAIN now
          BY <3>1, <3>2, <3>4
        <4>2. last \in Range(now)
          BY <3>4, <4>1 DEF Range
        <4>3. \A i \in DOMAIN heard : heard[i] \in Range(now)
          BY <3>4, <4>1 DEF Range
        <4> QED
          BY <4>2, <4>3 DEF Range
      <3>9. ASSUME pc = "deliver", NEW i \in 1..(count + 1), now[i] = last
            PROVE  count + 2 < i + address
        <4> HIDE DEF count, last
        <4>1. CASE i \in 1..count
          BY <1>3, <1>4, <3>1, <3>2, <3>4, <3>9, <4>1
        <4>2. CASE i = count + 1
          BY <1>3, <1>4, <3>1, <3>9, <4>2
        <4> QED
          BY <3>5, <4>1, <4>2
      <3>10. Hears(n, now)'
        <4>1. events' = events /\ DOMAIN events[n] = 1..last
          BY <1>1, <1>3, <2>5
        <4>2. \A e \in 1..last : events[n][e].webhook = "HTTP" => e \in Range(now)
          BY <2>1, <3>8, <4>1 DEF Hears
        <4>3. (count + 1) + 1 = count + 2
          BY <3>1
        <4> HIDE DEF count
        <4> QED
          BY <2>2, <3>1, <3>4, <3>6, <3>7, <3>8, <3>9, <4>1, <4>2, <4>3 DEF Hears, At
      <3> QED
        BY <3>10
    <2> QED
      BY <1>4, <2>3, <2>4, <2>5
  <1> QED
    BY <1>6, <1>9, <1>10, <1>11, HistoryFrame DEF IInv

\* The outcome of a POST is written down.
LEMMA MarkKeeps == ASSUME IInv, Mark PROVE IInv'
  <1> DEFINE m == Current
             last == Len(events[m])
             outcome == IF At("answered") THEN "HTTP" ELSE "ERROR"
  <1>1. /\ loop.pc \in {"answered", "unanswered"} /\ NextRow
        /\ events' = [events EXCEPT ![m] = [@ EXCEPT ![last].webhook = outcome]]
        /\ UNCHANGED <<monitors, due, jobs, accepted, inbox, callbacks, failures>>
    BY DEF Mark, world
  <1>2. loop.pc \in Delivering
    BY <1>1 DEF Delivering
  <1>3. /\ m \in Monitors /\ loop.pc \in Checking
        /\ events[m] \in Seq(Event) /\ last \in Nat \ {0}
        /\ DOMAIN events[m] = 1..last /\ events[m][last] \in Event
    BY <1>2, DeliveredRow
  <1>4. /\ LoopType' /\ RowsCurrent' /\ LastIsStored' /\ JobRowsCurrent'
        /\ loop'.pc \in {"fetch", "jobs"}
    <2>1. \A i \in DOMAIN loop.batch : i > 1 =>
              /\ loop.batch[i].hash = monitors'[loop.batch[i].id].hash
              /\ loop.batch[i].id \in Range(due')
      BY <1>1, <1>3 DEF IInv, RowsCurrent
    <2> QED
      BY <1>1, <1>3, <2>1, NextRowKeeps DEF IInv
  <1>5. /\ events'[m] \in Seq(Event) /\ Len(events'[m]) = last /\ DOMAIN events'[m] = 1..last
        /\ \A i \in 1..last : /\ events'[m][i].from = events[m][i].from
                              /\ events'[m][i].to = events[m][i].to
                              /\ i # last => events'[m][i] = events[m][i]
        /\ events'[m][last].webhook = outcome
        /\ \A n \in Monitors : n # m => events'[n] = events[n]
        /\ events' \in [Monitors -> Seq(Event)]
    <2> DEFINE marked == [events[m][last] EXCEPT !.webhook = outcome]
    <2>1. outcome \in {"HTTP", "ERROR"}
      OBVIOUS
    <2> HIDE DEF outcome
    <2>2. marked \in Event /\ marked.webhook = outcome
          /\ marked.from = events[m][last].from /\ marked.to = events[m][last].to
      BY <1>3, <2>1 DEF Event
    <2>3. events' = [events EXCEPT ![m] = [events[m] EXCEPT ![last] = marked]]
      BY <1>1, <1>3 DEF IInv, TypeOK
    <2> HIDE DEF marked
    <2>4. /\ [events[m] EXCEPT ![last] = marked] \in Seq(Event)
          /\ Len([events[m] EXCEPT ![last] = marked]) = last
          /\ \A i \in 1..last : [events[m] EXCEPT ![last] = marked][i]
                                    = IF i = last THEN marked ELSE events[m][i]
      BY <1>3, <2>2, ExceptSeq
    <2>5. events'[m] = [events[m] EXCEPT ![last] = marked]
          /\ \A n \in Monitors : n # m => events'[n] = events[n]
      BY <1>3, <2>3 DEF IInv, TypeOK
    <2>6. events' \in [Monitors -> Seq(Event)]
      BY <1>3, <2>3, <2>4 DEF IInv, TypeOK
    <2> HIDE DEF last
    <2> QED
      BY <1>3, <2>2, <2>4, <2>5, <2>6
  <1>6. TypeOK' /\ Listed' /\ Kept
    BY <1>1, <1>4, <1>5 DEF IInv, TypeOK, Listed, Kept
  <1>7. EventsAreHistory'
    <2> SUFFICES ASSUME NEW n \in Monitors
                 PROVE  /\ Len(events'[n]) = monitors[n].changes
                        /\ \A i \in DOMAIN events'[n] :
                              /\ events'[n][i].from # events'[n][i].to
                              /\ events'[n][i].from # Unread
                              /\ i > 1 => events'[n][i].from = events'[n][i - 1].to
                        /\ events'[n] # <<>> => Last(events'[n]).to = monitors[n].hash
      BY <1>1 DEF EventsAreHistory
    <2>1. /\ Len(events[n]) = monitors[n].changes
          /\ \A i \in DOMAIN events[n] :
                /\ events[n][i].from # events[n][i].to
                /\ events[n][i].from # Unread
                /\ i > 1 => events[n][i].from = events[n][i - 1].to
          /\ events[n] # <<>> => Last(events[n]).to = monitors[n].hash
      BY DEF IInv, EventsAreHistory
    <2>2. CASE n # m
      BY <1>5, <2>1, <2>2
    <2>3. CASE n = m
      <3>1. events[n] # <<>> /\ last \in 1..last
        BY <1>3, <2>3
      <3>2. \A i \in 1..last : i > 1 => i - 1 \in 1..last
        BY <1>3
      <3>3. Last(events'[n]).to = monitors[n].hash
        BY <1>5, <2>1, <2>3, <3>1 DEF Last
      <3> HIDE DEF last
      <3> QED
        BY <1>3, <1>5, <2>1, <2>3, <3>2, <3>3 DEF last
    <2> QED
      BY <2>2, <2>3
  <1>8. InboxSound'
    <2> SUFFICES ASSUME NEW n \in Monitors PROVE \E heard : Hears(n, heard)'
      BY DEF InboxSound
    <2>1. PICK heard : Hears(n, heard)
      BY DEF IInv, InboxSound
    <2>2. CASE n # m
      <3>1. Hears(n, heard)'
        BY <1>1, <1>4, <1>5, <2>1, <2>2 DEF Hears, At
      <3> QED
        BY <3>1
    <2>3. CASE n = m
      <3>1. heard \in [DOMAIN inbox[n] -> 1..last] /\ \A i \in DOMAIN inbox[n] : heard[i] \in 1..last
        BY <1>3, <2>1, <2>3 DEF Hears
      <3>2. \A e \in 1..last : events'[n][e].webhook = "HTTP" => e \in Range(heard)
        <4> SUFFICES ASSUME NEW e \in 1..last, events'[n][e].webhook = "HTTP"
                     PROVE  e \in Range(heard)
          OBVIOUS
        <4>1. CASE e # last
          BY <1>3, <1>5, <2>1, <2>3, <4>1 DEF Hears
        <4>2. CASE e = last
          <5>1. At("answered")
            BY <1>5, <2>3, <4>2
          <5> QED
            BY <2>1, <2>3, <4>2, <5>1 DEF Hears
        <4> QED
          BY <4>1, <4>2
      <3>3. \A i \in DOMAIN inbox[n] : /\ inbox[n][i].from = events'[n][heard[i]].from
                                       /\ inbox[n][i].to = events'[n][heard[i]].to
        BY <1>3, <1>5, <2>1, <2>3, <3>1 DEF Hears
      <3>4. Hears(n, heard)'
        BY <1>1, <1>4, <1>5, <2>1, <2>3, <3>1, <3>2, <3>3 DEF Hears, At
      <3> QED
        BY <3>4
    <2> QED
      BY <2>2, <2>3
  <1>9. JobsDelivered'
    BY <1>1, <1>6, JobsFrame DEF IInv
  <1> QED
    BY <1>4, <1>6, <1>7, <1>8, <1>9 DEF IInv
-----------------------------------------------------------------------------
(* run_pending *)

\* The next job, or run_due: only the job at hand was written.
LEMMA NextJobKeeps ==
    ASSUME TypeOK, JobRowsCurrent, loop.pc \in Completing, NextJob,
           \A j \in Jobs : j # Current => jobs'[j] = jobs[j]
    PROVE  /\ LoopType' /\ RowsCurrent' /\ LastIsStored' /\ JobRowsCurrent'
           /\ loop'.pc \in {"job", "due"}
  <1>1. /\ loop.batch \in Seq(JobRow) /\ loop.batch # <<>>
        /\ Len(loop.batch) \in Nat \ {0} /\ DOMAIN loop.batch = 1..Len(loop.batch)
    BY LoopParts, RestOfBatch
  <1>2. CASE Len(loop.batch) > 1
    <2> DEFINE rest == Tail(loop.batch)
    <2>1. /\ rest \in Seq(JobRow) \ {<<>>} /\ DOMAIN rest = 1..(Len(loop.batch) - 1)
          /\ \A i \in 1..(Len(loop.batch) - 1) : rest[i] = loop.batch[i + 1]
      BY <1>1, <1>2, RestOfBatch
    <2>2. loop' = [pc |-> "job", batch |-> rest, to |-> Unread, address |-> 1]
      BY <1>2 DEF NextJob, NextOf, Wake
    <2> HIDE DEF rest
    <2>3. LoopType'
      BY <2>1, <2>2, ConstantsAssumption DEF LoopType, Completing
    <2>4. JobRowsCurrent'
      <3>1. \A i \in DOMAIN rest : i \in Nat /\ i + 1 \in DOMAIN loop.batch /\ i + 1 # 1
                                   /\ rest[i] = loop.batch[i + 1]
        BY <1>1, <2>1
      <3>2. Distinct(rest)
        <4>1. Distinct(loop.batch)
          BY DEF JobRowsCurrent
        <4> SUFFICES ASSUME NEW i \in DOMAIN rest, NEW k \in DOMAIN rest, rest[i].id = rest[k].id
                     PROVE  i = k
          BY DEF Distinct
        <4>2. i + 1 = k + 1
          BY <3>1, <4>1 DEF Distinct
        <4> QED
          BY <3>1, <4>2
      <3>3. ASSUME NEW i \in DOMAIN rest
            PROVE  /\ rest[i].attempts = jobs'[rest[i].id].attempts
                   /\ jobs'[rest[i].id].status \in Open
        <4> DEFINE k == i + 1
        <4>1. k \in DOMAIN loop.batch /\ k # 1 /\ rest[i] = loop.batch[k]
          BY <3>1
        <4> HIDE DEF k
        <4>2. /\ loop.batch[k].attempts = jobs[loop.batch[k].id].attempts
              /\ jobs[loop.batch[k].id].status \in Open /\ Distinct(loop.batch)
          BY <4>1 DEF JobRowsCurrent
        <4>3. /\ loop.batch[k].id \in Jobs /\ 1 \in DOMAIN loop.batch
              /\ Current = loop.batch[1].id
          BY <1>1, <4>1, CompletedRow DEF Current
        <4>4. loop.batch[k].id # Current
          BY <4>1, <4>2, <4>3 DEF Distinct
        <4> QED
          BY <4>1, <4>2, <4>3, <4>4
      <3> QED
        BY <2>2, <3>2, <3>3 DEF JobRowsCurrent, Completing, At
    <2> QED
      BY <2>2, <2>3, <2>4 DEF LastIsStored, RowsCurrent, Delivering, Checking
  <1>3. CASE ~(Len(loop.batch) > 1)
    BY <1>3, RestFrame DEF NextJob, NextOf, AtRest, Wake
  <1> QED
    BY <1>2, <1>3

\* The selection of the jobs that are open.
LEMMA SelectJobsKeeps == ASSUME IInv, SelectJobs PROVE IInv'
  <1> DEFINE rows == {j \in Jobs : jobs[j].status \in Open /\ jobs[j].attempts < MAX_ATTEMPTS}
  <1>1. PICK batch \in Selections(rows, accepted, JobLimit) :
            loop' = [Wake EXCEPT
               !.pc = IF batch = <<>> THEN "due" ELSE "job",
               !.batch = [i \in DOMAIN batch |->
                             [id |-> batch[i], attempts |-> jobs[batch[i]].attempts]]]
    BY DEF SelectJobs
  <1>2. At("jobs") /\ UNCHANGED <<monitors, due, events, jobs, accepted, inbox, callbacks, failures>>
    BY DEF SelectJobs, database, world
  <1> DEFINE selected == [i \in DOMAIN batch |->
                             [id |-> batch[i], attempts |-> jobs[batch[i]].attempts]]
  <1>3. /\ batch \in Seq(rows) /\ DOMAIN batch = 1..Len(batch)
        /\ \A i, k \in DOMAIN batch : batch[i] = batch[k] => i = k
    <2>1. IsInjective(accepted) /\ DOMAIN accepted \subseteq Nat /\ JobLimit \in Nat
      BY ConstantsAssumption DEF IInv, TypeOK
    <2> HIDE DEF rows
    <2> QED
      BY <2>1, SelectionProperties
  <1>4. \A i \in DOMAIN batch : batch[i] \in Jobs /\ jobs[batch[i]].status \in Open
    BY <1>3
  <1> HIDE DEF rows
  <1>5. LoopType' /\ RowsCurrent' /\ LastIsStored' /\ JobRowsCurrent'
        /\ loop'.pc \in {"due", "job"}
    <2>1. CASE batch = <<>>
      <3>1. selected = <<>>
        <4>1. DOMAIN batch = 1..0 /\ selected \in [1..0 -> JobRow]
          BY <2>1
        <4> HIDE DEF selected
        <4> QED
          BY <4>1, NothingSelected
      <3>2. loop' = [pc |-> "due", batch |-> selected, to |-> Unread, address |-> 1]
        BY <1>1, <2>1 DEF Wake
      <3> HIDE DEF selected
      <3> QED
        BY <3>1, <3>2, RestFrame DEF AtRest, Wake
    <2>2. CASE batch # <<>>
      <3>1. selected \in Seq(JobRow) /\ DOMAIN selected = DOMAIN batch /\ selected # <<>>
        <4>1. \A i \in 1..Len(batch) : selected[i] \in JobRow
          BY <1>3, <1>4 DEF JobRow, IInv, TypeOK
        <4>2. selected = [i \in 1..Len(batch) |-> selected[i]] /\ Len(batch) \in Nat
              /\ Len(batch) # 0
          BY <1>3, <2>2
        <4> QED
          BY <1>3, <4>1, <4>2, IsASeq
      <3>2. \A i \in DOMAIN batch : selected[i].id = batch[i]
                                    /\ selected[i].attempts = jobs[batch[i]].attempts
        OBVIOUS
      <3> HIDE DEF selected
      <3>3. loop' = [pc |-> "job", batch |-> selected, to |-> Unread, address |-> 1]
        BY <1>1, <2>2 DEF Wake, selected
      <3>4. LoopType'
        BY <3>1, <3>3, ConstantsAssumption DEF LoopType, Completing
      <3>5. JobRowsCurrent'
        <4>1. Distinct(selected)
          BY <1>3, <3>1, <3>2 DEF Distinct
        <4>2. \A i \in DOMAIN selected : /\ selected[i].attempts = jobs'[selected[i].id].attempts
                                         /\ jobs'[selected[i].id].status \in Open
          BY <1>2, <1>4, <3>1, <3>2
        <4> QED
          BY <3>3, <4>1, <4>2 DEF JobRowsCurrent, Completing, At
      <3> QED
        BY <3>3, <3>4, <3>5 DEF LastIsStored, RowsCurrent, Delivering, Checking
    <2> QED
      BY <2>1, <2>2
  <1>6. TypeOK' /\ Listed' /\ Kept /\ SameHistory
    BY <1>2, <1>5 DEF IInv, TypeOK, Listed, Kept, SameHistory
  <1>7. JobsDelivered'
    BY <1>2, <1>6, JobsFrame DEF IInv, At
  <1>8. InboxSound'
    BY <1>2, <1>5, InboxFrame DEF IInv
  <1> QED
    BY <1>5, <1>6, <1>7, <1>8, HistoryFrame DEF IInv

\* The loop goes on with the same job.
LEMMA SameJobKeeps ==
    ASSUME TypeOK, JobRowsCurrent, loop.pc \in Completing, Kept, UNCHANGED jobs,
           NEW pc \in Completing, NEW address \in 1..Addresses,
           loop' = [loop EXCEPT !.pc = pc, !.address = address],
           pc \in {"callback", "finish"} => monitors'[Current] # NoMonitor,
           pc = "finish" => callbacks'[Current] > 0
    PROVE  LoopType' /\ RowsCurrent' /\ LastIsStored' /\ JobRowsCurrent' /\ Current' = Current
  <1>1. /\ loop' = [pc |-> pc, batch |-> loop.batch, to |-> Unread, address |-> address]
        /\ loop.batch \in Seq(JobRow) \ {<<>>}
    BY LoopParts
  <1>2. LoopType' /\ Current' = Current
    BY <1>1, ConstantsAssumption DEF LoopType, Current, Row
  <1>3. JobRowsCurrent'
    BY <1>1, <1>2 DEF JobRowsCurrent, At
  <1> QED
    BY <1>1, <1>2, <1>3 DEF RowsCurrent, LastIsStored, Checking, Delivering, Completing

\* The brief is read, and its monitor activated.
LEMMA CompleteJobKeeps == ASSUME IInv, CompleteJob PROVE IInv'
  <1>1. /\ loop.pc = "job" /\ UNCHANGED <<events, jobs, accepted, inbox, callbacks, failures>>
        /\ \/ Goto("callback") /\ Activate(Current)
           \/ Goto("reject") /\ UNCHANGED <<monitors, due>>
    BY DEF CompleteJob, world, At
  <1>2. loop.pc \in Completing /\ Current \in Monitors /\ "callback" \in Completing
        /\ "reject" \in Completing
    BY <1>1, CompletedRow DEF IInv, Completing
  <1>3. /\ monitors' \in [Monitors -> [status : {"ABSENT", "ACTIVE", "CANCELLED", "EXPIRED"},
                                       hash : Contents \cup {Unread}, changes : Nat]]
        /\ due' \in Seq(Monitors) /\ IsInjective(due')
        /\ \A i \in DOMAIN due' : monitors'[due'[i]] # NoMonitor
        /\ Kept /\ SameHistory
        /\ (Goto("callback") /\ monitors'[Current] # NoMonitor) \/ Goto("reject")
    <2>1. CASE Goto("callback") /\ Activate(Current)
      BY <1>1, <1>2, <2>1, ActivateKeeps DEF IInv, SameHistory
    <2>2. CASE Goto("reject") /\ UNCHANGED <<monitors, due>>
      BY <1>1, <2>2 DEF IInv, TypeOK, Listed, Kept, SameHistory
    <2> QED
      BY <1>1, <2>1, <2>2
  <1>4. /\ LoopType' /\ RowsCurrent' /\ LastIsStored' /\ JobRowsCurrent'
        /\ loop'.pc \in {"callback", "reject"}
    <2>1. loop'.pc \in {"callback", "reject"}
      BY <1>3, LoopParts DEF IInv, Goto
    <2>2. 1 \in 1..Addresses
      BY ConstantsAssumption
    <2> QED
      BY <1>1, <1>2, <1>3, <2>1, <2>2, SameJobKeeps DEF IInv, Goto
  <1>5. TypeOK' /\ Listed'
    BY <1>1, <1>3, <1>4 DEF IInv, TypeOK, Listed
  <1>6. JobsDelivered'
    BY <1>1, <1>3, <1>5, JobsFrame DEF IInv
  <1>7. InboxSound'
    BY <1>1, <1>4, InboxFrame DEF IInv
  <1> QED
    BY <1>3, <1>4, <1>5, <1>6, <1>7, HistoryFrame DEF IInv
\* What the marketplace and the database say of the job at hand.
LEMMA JobAtHand ==
    ASSUME IInv, loop.pc \in Completing, NEW m, m = Current
    PROVE  /\ m \in Jobs /\ m \in Monitors
           /\ jobs[m] = [status |-> jobs[m].status, attempts |-> jobs[m].attempts,
                         valid |-> jobs[m].valid]
           /\ jobs[m].valid \in BOOLEAN /\ jobs[m].status \in Open
           /\ Row.attempts = jobs[m].attempts
           /\ jobs[m].attempts \in Nat /\ jobs[m].attempts < MAX_ATTEMPTS
           /\ callbacks[m] \in Nat /\ failures \in Nat
           /\ Addresses \in Nat
           /\ callbacks[m] <= Addresses * (jobs[m].attempts + failures) + UnderWay(m)
  <1>1. m \in Jobs /\ m \in Monitors /\ 1 \in DOMAIN loop.batch /\ Row = loop.batch[1]
    BY CompletedRow DEF IInv
  <1>2. Row.attempts = jobs[m].attempts /\ jobs[m].status \in Open
    BY <1>1 DEF IInv, JobRowsCurrent, Current
  <1>3. /\ jobs[m] = [status |-> jobs[m].status, attempts |-> jobs[m].attempts,
                      valid |-> jobs[m].valid]
        /\ jobs[m].attempts \in 0..MAX_ATTEMPTS /\ jobs[m].valid \in BOOLEAN
        /\ callbacks[m] \in Nat /\ failures \in Nat
    BY <1>1, ConstantsAssumption DEF IInv, TypeOK
  <1>4. jobs[m].attempts # MAX_ATTEMPTS
    BY <1>1, <1>2 DEF IInv, JobsDelivered, Open
  <1>5. callbacks[m] <= Addresses * (jobs[m].attempts + failures) + UnderWay(m)
    BY <1>1 DEF IInv, JobsDelivered
  <1>6. jobs[m].attempts \in Nat /\ jobs[m].attempts < MAX_ATTEMPTS
    BY <1>3, <1>4, ConstantsAssumption
  <1> QED
    BY <1>1, <1>2, <1>3, <1>5, <1>6, ConstantsAssumption

\* The callback, whose answer may be lost.
LEMMA PostCallbackKeeps == ASSUME IInv, PostCallback PROVE IInv'
  <1> DEFINE c == Current
  <1>1. /\ loop.pc = "callback"
        /\ UNCHANGED <<monitors, due, events, jobs, accepted, inbox, failures>>
        /\ \/ Complete(c) /\ Goto("finish")
           \/ (Complete(c) \/ UNCHANGED callbacks) /\ (NextAddress \/ Goto("reject"))
    BY DEF PostCallback, At, database, AfterFailedCallback
  <1>2. loop.pc \in Completing /\ {"callback", "finish", "reject"} \subseteq Completing
    BY <1>1 DEF Completing
  <1>3. /\ c \in Jobs /\ callbacks[c] \in Nat /\ failures \in Nat /\ jobs[c].attempts \in Nat
        /\ Addresses \in Nat \ {0} /\ loop.address \in 1..Addresses
    BY <1>1, <1>2, JobAtHand, LoopParts, ConstantsAssumption DEF IInv
  <1>4. monitors[c] # NoMonitor
    BY <1>1, <1>2 DEF IInv, JobRowsCurrent
  <1>5. /\ callbacks' \in [Jobs -> Nat]
        /\ \A j \in Jobs : j # c => callbacks'[j] = callbacks[j]
        /\ \/ callbacks'[c] = callbacks[c] /\ ~Goto("finish")
           \/ callbacks'[c] = callbacks[c] + 1
    <2>1. CASE Complete(c)
      BY <1>3, <2>1 DEF Complete, IInv, TypeOK
    <2>2. CASE ~Complete(c)
      <3>1. UNCHANGED callbacks /\ (NextAddress \/ Goto("reject"))
        BY <1>1, <2>2
      <3>2. ~Goto("finish")
        BY <1>1, <3>1, LoopParts DEF IInv, Goto, NextAddress
      <3> QED
        BY <3>1, <3>2 DEF IInv, TypeOK
    <2> QED
      BY <2>1, <2>2
  <1>6. PICK pc \in {"callback", "finish", "reject"}, address \in 1..Addresses :
            /\ loop' = [loop EXCEPT !.pc = pc, !.address = address]
            /\ pc = "callback" => address = loop.address + 1
            /\ pc = "finish" => Goto("finish")
    <2>1. CASE NextAddress
      <3>1. loop.address + 1 \in 1..Addresses
        BY <1>3, <2>1 DEF NextAddress
      <3>2. loop' = [loop EXCEPT !.pc = "callback", !.address = loop.address + 1]
        BY <1>1, <2>1, LoopParts DEF NextAddress, IInv
      <3> QED
        BY <3>1, <3>2
    <2>2. CASE Goto("finish") \/ Goto("reject")
      <3>1. 1 \in 1..Addresses
        BY <1>3
      <3> QED
        BY <2>2, <3>1 DEF Goto
    <2> QED
      BY <1>1, <2>1, <2>2
  <1>7. Kept /\ SameHistory
    BY <1>1 DEF Kept, SameHistory
  <1>8. LoopType' /\ RowsCurrent' /\ LastIsStored' /\ JobRowsCurrent' /\ Current' = c
    <2>1. pc = "finish" => callbacks'[c] > 0
      BY <1>3, <1>5, <1>6
    <2> QED
      BY <1>1, <1>2, <1>4, <1>6, <1>7, <2>1, SameJobKeeps DEF IInv
  <1>9. TypeOK' /\ Listed'
    BY <1>1, <1>5, <1>8 DEF IInv, TypeOK, Listed
  <1>10. loop'.pc = pc /\ loop'.address = address
    BY <1>6, LoopParts DEF IInv
  <1>11. JobsDelivered'
    <2> SUFFICES ASSUME NEW j \in Jobs
                 PROVE  /\ jobs[j].status = "COMPLETED" => callbacks'[j] > 0 /\ monitors[j] # NoMonitor
                        /\ jobs[j].status = "FAILED" <=>
                               jobs[j].attempts = MAX_ATTEMPTS /\ jobs[j].status # "COMPLETED"
                        /\ callbacks'[j] <= Addresses * (jobs[j].attempts + failures) + UnderWay(j)'
      BY <1>1 DEF JobsDelivered
    <2>1. /\ jobs[j].status = "COMPLETED" => callbacks[j] > 0 /\ monitors[j] # NoMonitor
          /\ jobs[j].status = "FAILED" <=>
                 jobs[j].attempts = MAX_ATTEMPTS /\ jobs[j].status # "COMPLETED"
          /\ callbacks[j] <= Addresses * (jobs[j].attempts + failures) + UnderWay(j)
      BY DEF IInv, JobsDelivered
    <2>2. CASE j # c
      <3>1. UnderWay(j) = 0 /\ UnderWay(j)' = 0
        BY <1>8, <2>2 DEF UnderWay
      <3> QED
        BY <1>5, <2>1, <2>2, <3>1
    <2>3. CASE j = c
      <3> DEFINE told == Addresses * (jobs[j].attempts + failures)
      <3>1. told \in Nat
        BY <1>3, <2>3, OneMore
      <3>2. UnderWay(j) = loop.address - 1
        BY <1>1, <2>3 DEF UnderWay, At
      <3>3. UnderWay(j)' = IF pc = "callback" THEN loop.address ELSE Addresses
        BY <1>3, <1>6, <1>8, <1>10, <2>3 DEF UnderWay, At
      <3>4. callbacks[j] <= told + UnderWay(j)
        BY <2>1
      <3> HIDE DEF told
      <3>5. callbacks[j] <= callbacks'[j] /\ callbacks'[j] <= told + UnderWay(j)'
        BY <1>3, <1>5, <2>3, <3>1, <3>2, <3>3, <3>4
      <3>6. jobs[j].status = "COMPLETED" => callbacks'[j] > 0
        BY <1>3, <1>5, <2>1, <2>3
      <3> QED
        BY <2>1, <2>3, <3>5, <3>6 DEF told
    <2> QED
      BY <2>2, <2>3
  <1>12. InboxSound'
    BY <1>1, <1>10, InboxFrame DEF IInv
  <1> QED
    BY <1>7, <1>8, <1>9, <1>11, <1>12, HistoryFrame DEF IInv

\* The outcome of an attempt is written: one attempt more, and the callback that
\* was under way is accounted for.
LEMMA AttemptKeeps ==
    ASSUME IInv, loop.pc \in {"finish", "reject"}, NextJob,
           UNCHANGED <<monitors, due, events, accepted, inbox, callbacks, failures>>,
           NEW status \in {"COMPLETED", "FAILED", "RETRY"},
           jobs' = [jobs EXCEPT ![Current] = [status |-> status, attempts |-> Row.attempts + 1,
                                              valid |-> jobs[Current].valid]],
           status = "COMPLETED" => callbacks[Current] > 0 /\ monitors[Current] # NoMonitor,
           status # "COMPLETED" => (status = "FAILED" <=> Row.attempts + 1 = MAX_ATTEMPTS)
    PROVE  IInv'
  <1> DEFINE c == Current
             row == [status |-> status, attempts |-> Row.attempts + 1, valid |-> jobs[Current].valid]
  <1>1. loop.pc \in Completing
    BY DEF Completing
  <1>2. /\ c \in Jobs /\ jobs[c].valid \in BOOLEAN /\ Row.attempts = jobs[c].attempts
        /\ jobs[c].attempts \in Nat /\ jobs[c].attempts < MAX_ATTEMPTS
        /\ callbacks[c] \in Nat /\ failures \in Nat
        /\ callbacks[c] <= Addresses * (jobs[c].attempts + failures) + Addresses
    <2>1. UnderWay(c) = Addresses
      BY DEF UnderWay, At
    <2> QED
      BY <1>1, <2>1, JobAtHand
  <1>3. row \in [status : {"ABSENT", "COMPLETED", "FAILED"} \cup Open,
                 attempts : 0..MAX_ATTEMPTS, valid : BOOLEAN]
    <2>1. Row.attempts + 1 \in 0..MAX_ATTEMPTS
      BY <1>2, ConstantsAssumption
    <2> QED
      BY <1>2, <2>1 DEF Open
  <1>4. row.status = status /\ row.attempts = jobs[c].attempts + 1 /\ row # NoJob
    BY <1>2 DEF NoJob
  <1>5. jobs' = [jobs EXCEPT ![c] = row]
    OBVIOUS
  <1> HIDE DEF row
  <1>6. /\ jobs' \in [Jobs -> [status : {"ABSENT", "COMPLETED", "FAILED"} \cup Open,
                               attempts : 0..MAX_ATTEMPTS, valid : BOOLEAN]]
        /\ jobs'[c] = row /\ \A j \in Jobs : j # c => jobs'[j] = jobs[j]
    BY <1>2, <1>3, <1>5 DEF IInv, TypeOK
  <1>7. /\ LoopType' /\ RowsCurrent' /\ LastIsStored' /\ JobRowsCurrent'
        /\ loop'.pc \in {"job", "due"}
    BY <1>1, <1>6, NextJobKeeps DEF IInv
  <1>8. TypeOK' /\ Listed' /\ Kept /\ SameHistory
    <2>1. TypeOK'
      BY <1>6, <1>7 DEF IInv, TypeOK
    <2>2. \A i \in DOMAIN accepted : jobs'[accepted[i]] # NoJob
      <3>1. \A i \in DOMAIN accepted : accepted[i] \in Jobs /\ jobs[accepted[i]] # NoJob
        BY DEF IInv, TypeOK, Listed
      <3> QED
        BY <1>4, <1>6, <3>1
    <2> QED
      BY <2>1, <2>2 DEF IInv, Listed, Kept, SameHistory
  <1>9. JobsDelivered'
    <2> SUFFICES ASSUME NEW j \in Jobs
                 PROVE  /\ jobs'[j].status = "COMPLETED" => callbacks[j] > 0 /\ monitors[j] # NoMonitor
                        /\ jobs'[j].status = "FAILED" <=>
                               jobs'[j].attempts = MAX_ATTEMPTS /\ jobs'[j].status # "COMPLETED"
                        /\ callbacks[j] <= Addresses * (jobs'[j].attempts + failures)
      <3>1. ASSUME NEW k \in Jobs PROVE UnderWay(k)' = 0
        BY <1>7 DEF UnderWay
      <3>2. ASSUME NEW k \in Jobs
            PROVE  Addresses * (jobs'[k].attempts + failures) \in Nat
        <4>1. jobs'[k].attempts \in Nat /\ failures \in Nat /\ Addresses \in Nat
          BY <1>6, ConstantsAssumption DEF IInv, TypeOK
        <4> QED
          BY <4>1, OneMore
      <3> QED
        BY <3>1, <3>2 DEF JobsDelivered
    <2>1. CASE j # c
      <3>1. UnderWay(j) = 0
        BY <2>1 DEF UnderWay
      <3>2. callbacks[j] <= Addresses * (jobs[j].attempts + failures) + UnderWay(j)
            /\ Addresses * (jobs[j].attempts + failures) \in Nat
        <4>1. jobs[j].attempts \in Nat /\ failures \in Nat /\ Addresses \in Nat
          BY ConstantsAssumption DEF IInv, TypeOK
        <4> QED
          BY <4>1, OneMore DEF IInv, JobsDelivered
      <3> QED
        BY <1>6, <2>1, <3>1, <3>2 DEF IInv, JobsDelivered
    <2>2. CASE j = c
      <3>1. callbacks[j] <= Addresses * (jobs'[j].attempts + failures)
        <4> DEFINE n == jobs[c].attempts + failures
        <4>1. n \in Nat /\ Addresses \in Nat /\ jobs'[j].attempts + failures = n + 1
          BY <1>2, <1>4, <1>6, <2>2, ConstantsAssumption
        <4>2. callbacks[j] <= Addresses * n + Addresses
          BY <1>2, <2>2
        <4> HIDE DEF n
        <4> QED
          BY <4>1, <4>2, OneMore
      <3>2. jobs'[j].status = "COMPLETED" => callbacks[j] > 0 /\ monitors[j] # NoMonitor
        BY <1>4, <1>6, <2>2
      <3>3. jobs'[j].status = "FAILED" <=>
                jobs'[j].attempts = MAX_ATTEMPTS /\ jobs'[j].status # "COMPLETED"
        BY <1>2, <1>4, <1>6, <2>2
      <3> QED
        BY <3>1, <3>2, <3>3
    <2> QED
      BY <2>1, <2>2
  <1>10. InboxSound'
    BY <1>7, InboxFrame DEF IInv
  <1> QED
    BY <1>7, <1>8, <1>9, <1>10, HistoryFrame DEF IInv

\* The job is completed.
LEMMA FinishJobKeeps == ASSUME IInv, FinishJob PROVE IInv'
  <1>1. /\ loop.pc = "finish" /\ NextJob
        /\ UNCHANGED <<monitors, due, events, accepted, inbox, callbacks, failures>>
        /\ jobs' = [jobs EXCEPT ![Current] =
               [status |-> "COMPLETED", attempts |-> @.attempts + 1, valid |-> @.valid]]
    BY DEF FinishJob, At, world
  <1>2. loop.pc \in Completing
    BY <1>1 DEF Completing
  <1>3. Current \in Jobs /\ Row.attempts = jobs[Current].attempts
    BY <1>2, JobAtHand
  <1>4. jobs' = [jobs EXCEPT ![Current] = [status |-> "COMPLETED", attempts |-> Row.attempts + 1,
                                           valid |-> jobs[Current].valid]]
    BY <1>1, <1>3 DEF IInv, TypeOK
  <1>5. callbacks[Current] > 0 /\ monitors[Current] # NoMonitor
    BY <1>1, <1>2 DEF IInv, JobRowsCurrent, At
  <1> QED
    BY <1>1, <1>4, <1>5, AttemptKeeps

\* The attempt failed.
LEMMA RejectJobKeeps == ASSUME IInv, RejectJob PROVE IInv'
  <1> DEFINE status == IF Attempted >= MAX_ATTEMPTS THEN "FAILED" ELSE "RETRY"
  <1>1. /\ loop.pc = "reject" /\ NextJob
        /\ UNCHANGED <<monitors, due, events, accepted, inbox, callbacks, failures>>
        /\ jobs' = [jobs EXCEPT ![Current] =
               [status |-> status, attempts |-> Attempted, valid |-> @.valid]]
    BY DEF RejectJob, At, world
  <1>2. loop.pc \in Completing
    BY <1>1 DEF Completing
  <1>3. Current \in Jobs /\ Row.attempts \in Nat /\ Row.attempts < MAX_ATTEMPTS
    BY <1>2, JobAtHand
  <1>4. status = "FAILED" <=> Row.attempts + 1 = MAX_ATTEMPTS
    BY <1>3, ConstantsAssumption DEF Attempted
  <1>5. status \in {"FAILED", "RETRY"}
    OBVIOUS
  <1> HIDE DEF status
  <1>6. jobs' = [jobs EXCEPT ![Current] = [status |-> status, attempts |-> Row.attempts + 1,
                                           valid |-> jobs[Current].valid]]
    BY <1>1, <1>3 DEF IInv, TypeOK, Attempted
  <1> QED
    BY <1>1, <1>4, <1>5, <1>6, AttemptKeeps
-----------------------------------------------------------------------------
(* What goes wrong *)

\* A step that only puts the loop to rest, one failure more being counted.
LEMMA CutOffKeeps ==
    ASSUME IInv, Fail, UNCHANGED <<database, world>>, AtRest
    PROVE  IInv'
  <1>1. /\ UNCHANGED <<monitors, due, events, jobs, accepted, inbox, callbacks>>
        /\ failures' = failures + 1 /\ failures' \in 0..MaxFailures
    BY ConstantsAssumption DEF Fail, database, world, IInv, TypeOK
  <1>2. LoopType' /\ RowsCurrent' /\ LastIsStored' /\ JobRowsCurrent'
    BY RestFrame
  <1>3. TypeOK' /\ Listed' /\ Kept /\ SameHistory
    BY <1>1, <1>2 DEF IInv, TypeOK, Listed, Kept, SameHistory
  <1>4. JobsDelivered'
    BY <1>1, <1>3, JobsFrame DEF IInv
  <1>5. InboxSound'
    BY <1>1, InboxFrame DEF IInv, AtRest
  <1> QED
    BY <1>2, <1>3, <1>4, <1>5, HistoryFrame DEF IInv

\* A failed transaction.
LEMMA DatabaseErrorKeeps == ASSUME IInv, DatabaseError PROVE IInv'
  <1>1. CASE loop' = [Wake EXCEPT !.pc = "jobs"] \/ loop' = Wake
    BY <1>1, CutOffKeeps DEF DatabaseError, AtRest, Wake
  <1>2. CASE At("job") /\ Goto("reject")
    <2>1. /\ UNCHANGED <<monitors, due, events, jobs, accepted, inbox, callbacks>>
          /\ failures' = failures + 1 /\ failures' \in 0..MaxFailures
      BY ConstantsAssumption DEF DatabaseError, Fail, database, world, IInv, TypeOK
    <2>2. loop.pc \in Completing /\ "reject" \in Completing
      BY <1>2 DEF At, Completing
    <2>3. Kept /\ SameHistory
      BY <2>1 DEF Kept, SameHistory
    <2>4. LoopType' /\ RowsCurrent' /\ LastIsStored' /\ JobRowsCurrent'
      <3>1. 1 \in 1..Addresses
        BY ConstantsAssumption
      <3> QED
        BY <1>2, <2>1, <2>2, <2>3, <3>1, SameJobKeeps DEF IInv, Goto
    <2>5. TypeOK' /\ Listed'
      BY <2>1, <2>4 DEF IInv, TypeOK, Listed
    <2>6. JobsDelivered'
      BY <2>1, <2>3, <2>5, JobsFrame DEF IInv
    <2>7. loop'.pc = "reject"
      BY <1>2, LoopParts DEF IInv, Goto
    <2>8. InboxSound'
      BY <2>1, <2>7, InboxFrame DEF IInv
    <2> QED
      BY <2>3, <2>4, <2>5, <2>6, <2>8, HistoryFrame DEF IInv
  <1> QED
    BY <1>1, <1>2 DEF DatabaseError

\* An exception that ends the background task, and a restart of the process.
LEMMA SurpriseKeeps == ASSUME IInv, Surprise PROVE IInv'
  BY CutOffKeeps DEF Surprise, AtRest, Wake, Dead

LEMMA RestartKeeps == ASSUME IInv, Restart PROVE IInv'
  BY CutOffKeeps DEF Restart, AtRest, Wake

\* Nothing happens.
LEMMA StutterKeeps == ASSUME IInv, UNCHANGED vars PROVE IInv'
  <1>1. UNCHANGED <<monitors, due, events, jobs, accepted, loop, inbox, callbacks, failures>>
    BY DEF vars
  <1>2. TypeOK' /\ Listed' /\ Kept /\ SameHistory
    BY <1>1 DEF IInv, TypeOK, Listed, LoopType, Kept, SameHistory
  <1>3. RowsCurrent' /\ LastIsStored' /\ JobRowsCurrent'
    BY <1>1, <1>2, RowsFrame DEF IInv
  <1> QED
    BY <1>1, <1>2, <1>3, HistoryFrame, InboxFrame, JobsFrame DEF IInv

-----------------------------------------------------------------------------
(* The theorems *)

LEMMA InitEstablishes == Init => IInv
  <1> SUFFICES ASSUME Init PROVE IInv
    OBVIOUS
  <1>1. /\ <<>> \in Seq(Monitors) /\ IsInjective(<<>>) /\ <<>> \in Seq(Jobs)
        /\ <<>> \in Seq(Event) /\ <<>> \in Seq(Change)
    BY DEF IsInjective
  <1>2. TypeOK
    BY <1>1, ConstantsAssumption DEF Init, TypeOK, LoopType, NoMonitor, NoJob, Wake
  <1>3. Listed
    BY DEF Init, Listed
  <1>4. RowsCurrent /\ LastIsStored /\ JobRowsCurrent
    BY DEF Init, RowsCurrent, LastIsStored, JobRowsCurrent, Wake, Checking, Delivering, Completing
  <1>5. EventsAreHistory
    BY DEF Init, EventsAreHistory, NoMonitor
  <1>6. InboxSound
    <2> SUFFICES ASSUME NEW m \in Monitors PROVE \E heard : Hears(m, heard)
      BY DEF InboxSound
    <2>1. Hears(m, <<>>)
      BY DEF Init, Hears, At, Wake
    <2> QED
      BY <2>1
  <1>7. JobsDelivered
    BY ConstantsAssumption DEF Init, JobsDelivered, UnderWay, NoJob, Wake
  <1> QED
    BY <1>2, <1>3, <1>4, <1>5, <1>6, <1>7 DEF IInv

LEMMA StepKeeps == IInv /\ [Next]_vars => IInv'
  <1> SUFFICES ASSUME IInv, [Next]_vars PROVE IInv'
    OBVIOUS
  <1>1. CASE Loop
    BY <1>1, RunDueKeeps, FetchKeeps, FailCheckKeeps, StoreCheckKeeps, DeliverKeeps, MarkKeeps,
       SelectJobsKeeps, CompleteJobKeeps, PostCallbackKeeps, FinishJobKeeps, RejectJobKeeps DEF Loop
  <1>2. CASE \E c \in Customers : Buy(c)
    BY <1>2, BuyKeeps
  <1>3. CASE \E j \in Jobs : Dispatch(j)
    BY <1>3, DispatchKeeps
  <1>4. CASE \E m \in Monitors : Cancel(m) \/ BecomeDue(m)
    BY <1>4, CancelKeeps, BecomeDueKeeps
  <1>5. CASE DatabaseError \/ Surprise \/ Restart
    BY <1>5, DatabaseErrorKeeps, SurpriseKeeps, RestartKeeps
  <1>6. CASE UNCHANGED vars
    BY <1>6, StutterKeeps
  <1> QED
    BY <1>1, <1>2, <1>3, <1>4, <1>5, <1>6 DEF Next

\* The strengthened invariant, wherever the loop of app.py is cut off.
THEOREM Invariance == Spec => []IInv
  BY InitEstablishes, StepKeeps, PTL DEF Spec

\* Types, and that nothing is due or accepted twice.
THEOREM TypeCorrect == Spec => []TypeOK
  <1>1. IInv => TypeOK
    BY DEF IInv
  <1> QED
    BY <1>1, Invariance, PTL

\* The events of web_monitor_events that a customer polls are the gapless history
\* of what the checks saw, and change_count counts them.
THEOREM EventsAreHistoryTheorem == Spec => []EventsAreHistory
  <1>1. IInv => EventsAreHistory
    BY DEF IInv
  <1> QED
    BY <1>1, Invariance, PTL

\* A webhook hears of stored changes only, in their order, of each one no more often
\* than its host has addresses, and did hear of those that are marked as answered.
THEOREM InboxFaithfulTheorem == Spec => []InboxFaithful
  <1>1. IInv => InboxFaithful
    <2> SUFFICES ASSUME IInv, NEW m \in Monitors
                 PROVE  \E heard \in [DOMAIN inbox[m] -> DOMAIN events[m]] :
                            /\ \A i, k \in DOMAIN inbox[m] : i < k => heard[i] <= heard[k]
                            /\ \A i, k \in DOMAIN inbox[m] :
                                  i + Addresses <= k => heard[i] < heard[k]
                            /\ \A i \in DOMAIN inbox[m] :
                                  /\ inbox[m][i].from = events[m][heard[i]].from
                                  /\ inbox[m][i].to = events[m][heard[i]].to
                            /\ \A e \in DOMAIN events[m] :
                                  events[m][e].webhook = "HTTP" => e \in Range(heard)
      BY DEF InboxFaithful
    <2>1. PICK heard : Hears(m, heard)
      BY DEF IInv, InboxSound
    <2> QED
      BY <2>1 DEF Hears
  <1> QED
    BY <1>1, Invariance, PTL

\* A COMPLETED job was delivered and has its monitor, a FAILED one has used up its
\* attempts, and the marketplace is told no more often than addresses and attempts,
\* with those that a failure left uncounted, allow.
THEOREM JobsDeliveredTheorem == Spec => []JobsDelivered
  <1>1. IInv => JobsDelivered
    BY DEF IInv
  <1> QED
    BY <1>1, Invariance, PTL
\* The rows that run_due and run_pending read before they check the rows ahead of
\* them are not stale when their turn comes, whatever customers do meanwhile.
THEOREM RowsNotStale == Spec => [](RowsCurrent /\ JobRowsCurrent)
  <1>1. IInv => RowsCurrent /\ JobRowsCurrent
    BY DEF IInv
  <1> QED
    BY <1>1, Invariance, PTL

\* What a step may do to the status of a monitor that is not active.
LEMMA NotRevived ==
    ASSUME TypeOK, [Next]_vars, NEW m \in Monitors, monitors[m].status \in {"CANCELLED", "EXPIRED"}
    PROVE  monitors'[m].status \in {"CANCELLED", monitors[m].status}
  <1>1. /\ monitors \in [Monitors -> [status : {"ABSENT", "ACTIVE", "CANCELLED", "EXPIRED"},
                                      hash : Contents \cup {Unread}, changes : Nat]]
        /\ monitors[m] # NoMonitor
    BY DEF TypeOK, NoMonitor
  <1>2. CASE UNCHANGED monitors
    BY <1>2
  <1>3. ASSUME NEW n \in Monitors, Activate(n) PROVE monitors'[m] = monitors[m]
    BY <1>1, <1>3 DEF Activate
  <1>4. ASSUME NEW n \in Monitors, Cancel(n)
        PROVE  monitors'[m].status \in {"CANCELLED", monitors[m].status}
    BY <1>1, <1>4 DEF Cancel
  <1>5. CASE RunDue
    <2>1. PICK over \in SUBSET {n \in Monitors : monitors[n].status = "ACTIVE"} :
              monitors' = [n \in Monitors |->
                  IF n \in over THEN [monitors[n] EXCEPT !.status = "EXPIRED"] ELSE monitors[n]]
      BY <1>5 DEF RunDue
    <2>2. m \notin over
      BY <2>1
    <2> QED
      BY <2>1, <2>2
  <1>6. CASE StoreCheck
    <2>1. Current \in Monitors
      BY <1>6, CheckedRow DEF StoreCheck, At, Checking
    <2>2. PICK changes : monitors' = [monitors EXCEPT ![Current] =
                             [status |-> @.status, hash |-> loop.to, changes |-> changes]]
      BY <1>6 DEF StoreCheck
    <2> QED
      BY <1>1, <2>1, <2>2
  <1>7. CASE CompleteJob
    <2>1. Current \in Monitors
      BY <1>7, CompletedRow DEF CompleteJob, At, Completing
    <2> QED
      BY <1>2, <1>3, <1>7, <2>1 DEF CompleteJob
  <1>8. CASE \E c \in Customers : Buy(c)
    BY <1>3, <1>8 DEF Buy, Monitors
  <1>9. CASE UNCHANGED vars \/ DatabaseError \/ Surprise \/ Restart \/ \E j \in Jobs : Dispatch(j)
    BY <1>2, <1>9 DEF vars, DatabaseError, Surprise, Restart, Dispatch, database
  <1>10. CASE \/ Fetch \/ FailCheck \/ Deliver \/ Mark
              \/ SelectJobs \/ PostCallback \/ FinishJob \/ RejectJob
    BY <1>2, <1>10 DEF Fetch, FailCheck, Deliver, Mark, SelectJobs, PostCallback, FinishJob,
                       RejectJob, database
  <1>11. CASE \E n \in Monitors : BecomeDue(n)
    BY <1>2, <1>11 DEF BecomeDue
  <1> QED
    BY <1>4, <1>5, <1>6, <1>7, <1>8, <1>9, <1>10, <1>11 DEF Next, Loop

\* Neither a repeated purchase nor a repeated job nor a check that was under way
\* revives a monitor that is cancelled or over.
THEOREM NeverRevivedTheorem == Spec => NeverRevived
  <1>1. ASSUME TypeOK, [Next]_vars
        PROVE  \A m \in Monitors :
                   /\ monitors[m].status \in {"CANCELLED", "EXPIRED"} => monitors'[m].status # "ACTIVE"
                   /\ monitors[m].status = "CANCELLED" => monitors'[m].status = "CANCELLED"
    BY <1>1, NotRevived
  <1>2. TypeOK /\ [Next]_vars =>
            [\A m \in Monitors :
                 /\ monitors[m].status \in {"CANCELLED", "EXPIRED"} => monitors'[m].status # "ACTIVE"
                 /\ monitors[m].status = "CANCELLED" => monitors'[m].status = "CANCELLED"]_vars
    BY <1>1
  <1> QED
    BY <1>2, TypeCorrect, PTL DEF Spec, NeverRevived

=============================================================================
