---------------------------- MODULE SourceWatch ----------------------------
(***************************************************************************)
(* monitors.py and marketplace.py: monitors that customers pay for or that *)
(* the marketplace orders, and the background loop of app.py that checks   *)
(* due monitors, delivers webhooks and completes marketplace jobs.  The    *)
(* loop is one thread; customers, the sources, time and the end of the     *)
(* process act between any two of its transactions and network calls.     *)
(*   Times are abstracted to the order in which monitors become due.      *)
(***************************************************************************)
EXTENDS Naturals, Sequences, SequencesExt

CONSTANTS
    Customers,      \* monitors bought over HTTP, by payment proof
    Jobs,           \* marketplace jobs; a job's monitor has the job's name
    Webhooks,       \* the monitors that have a webhook_url
    Changing,       \* the monitors whose source may change
    Contents,       \* what a source may say (its normalized text)
    Limit,          \* run_due's limit
    JobLimit,       \* run_pending's limit
    MAX_ATTEMPTS,   \* of a marketplace job
    Addresses,      \* the most addresses that a host name resolves to
    MaxEvents,      \* bound: changes of a source after which it stays as it is
    MaxFailures     \* bound: failed transactions, surprises and restarts

Monitors == Customers \cup Jobs
Unread == "unread"

ASSUME ConstantsAssumption ==
    /\ Customers \cap Jobs = {} /\ Webhooks \subseteq Monitors /\ Changing \subseteq Monitors
    /\ Contents # {} /\ Unread \notin Contents
    /\ Limit \in Nat \ {0} /\ JobLimit \in Nat \ {0} /\ MAX_ATTEMPTS \in Nat \ {0}
    /\ Addresses \in Nat \ {0}
    /\ MaxEvents \in Nat /\ MaxFailures \in Nat

VARIABLES
    monitors,    \* web_monitors: status, last_content_hash, change_count
    due,         \* monitors whose next_check_at has passed, ORDER BY next_check_at
    events,      \* web_monitor_events of each monitor, oldest first
    jobs,        \* marketplace_events: status, attempts, whether the brief is valid
    accepted,    \* the jobs stored, ORDER BY created_at
    loop,        \* local variables of run_source_watch_checks
    inbox,       \* external: the changes each webhook endpoint received
    callbacks,   \* external: how often the marketplace took "completed" for a job
    failures

database == <<monitors, due, events, jobs, accepted>>
world == <<inbox, callbacks>>
vars == <<monitors, due, events, jobs, accepted, loop, inbox, callbacks, failures>>

NoMonitor == [status |-> "ABSENT", hash |-> Unread, changes |-> 0]
NoJob == [status |-> "ABSENT", attempts |-> 0, valid |-> FALSE]
Open == {"PENDING", "RETRY"}
Wake == [pc |-> "due", batch |-> <<>>, to |-> Unread, address |-> 1]
Dead == [Wake EXCEPT !.pc = "dead"]

Init ==
    /\ monitors = [m \in Monitors |-> NoMonitor]
    /\ due = <<>>
    /\ events = [m \in Monitors |-> <<>>]
    /\ jobs = [j \in Jobs |-> NoJob]
    /\ accepted = <<>>
    /\ loop = Wake
    /\ inbox = [m \in Monitors |-> <<>>]
    /\ callbacks = [j \in Jobs |-> 0]
    /\ failures = 0

-----------------------------------------------------------------------------
(* Helpers *)

At(pc) == loop.pc = pc
Row == Head(loop.batch)            \* the row at hand, as it was selected
Current == Row.id
Goto(pc) == loop' = [loop EXCEPT !.pc = pc, !.address = 1]

\* _safe_https_request: the same request goes to the next address of the host.
NextAddress ==
    loop.address < Addresses /\ loop' = [loop EXCEPT !.address = @ + 1]

\* The next row of a batch; what follows the batch is pc.
NextOf(first, after) ==
    loop' = IF Len(loop.batch) > 1
            THEN [Wake EXCEPT !.pc = first, !.batch = Tail(loop.batch)]
            ELSE [Wake EXCEPT !.pc = after]
NextRow == NextOf("fetch", "jobs")
NextJob == NextOf("job", "due")

\* INSERT OR IGNORE INTO web_monitors, due at once.
ActivateAgain(m) ==                                                   \* mutant
    /\ monitors' = [monitors EXCEPT ![m] = [NoMonitor EXCEPT !.status = "ACTIVE"]]
    /\ due' = IF Contains(due, m) THEN due ELSE Append(due, m)
ActivateTwice(m) ==                                                   \* mutant
    /\ monitors' = [monitors EXCEPT ![m].status = "ACTIVE"]
    /\ due' = Append(due, m)
Activate(m) ==
    IF monitors[m] = NoMonitor
    THEN /\ monitors' = [monitors EXCEPT ![m].status = "ACTIVE"]
         /\ due' = Append(due, m)
    ELSE UNCHANGED <<monitors, due>>

\* next_check_at moves six hours on.  A row at hand is still due: nothing but its
\* own check moves it.
Checked(m) == \E i \in DOMAIN due : due[i] = m /\ due' = RemoveAt(due, i)

\* SELECT ... ORDER BY ... LIMIT: the first of the rows, in that order.
Earlier(order, q, r) == \E i, j \in DOMAIN order : i < j /\ order[i] = q /\ order[j] = r
Selections(rows, order, limit) ==
    {batch \in UNION {[1..n -> rows] : n \in 0..limit} :
        /\ \A i \in DOMAIN batch :
               {r \in rows : Earlier(order, r, batch[i])} = {batch[k] : k \in 1..(i - 1)}
        /\ Len(batch) = limit \/ rows \subseteq Range(batch)}

-----------------------------------------------------------------------------
(* Customers and the marketplace *)

\* The handler activates the monitor of a payment, and again on every retry.
Buy(c) ==
    /\ Activate(c)
    /\ UNCHANGED <<events, jobs, accepted, loop, world, failures>>

\* The holder of the access token cancels, whatever the status.
Cancel(m) ==
    /\ monitors[m] # NoMonitor /\ (m \in Jobs => callbacks[m] > 0)
    /\ monitors' = [monitors EXCEPT ![m].status = "CANCELLED"]
    /\ UNCHANGED <<due, events, jobs, accepted, loop, world, failures>>

\* accept_webhook: a dispatch is stored once, whether or not its brief will turn
\* out to be valid; a duplicate, or another payload under its ID, changes nothing.
Dispatch(j) ==
    /\ jobs[j] = NoJob
    /\ \E valid \in BOOLEAN :
           jobs' = [jobs EXCEPT ![j] = [status |-> "PENDING", attempts |-> 0, valid |-> valid]]
    /\ accepted' = Append(accepted, j)
    /\ UNCHANGED <<monitors, due, events, loop, world, failures>>

-----------------------------------------------------------------------------
(* run_due *)

\* One transaction expires the monitors that are over, whichever they are by now,
\* and selects the oldest due rows.
RunDue ==
    /\ At("due")
    /\ \E over \in SUBSET {m \in Monitors : monitors[m].status = "ACTIVE"} :
       \E batch \in Selections({m \in Range(due) : monitors[m].status = "ACTIVE"} \ over,
                               due, Limit) :
        /\ monitors' = [m \in Monitors |->
               IF m \in over THEN [monitors[m] EXCEPT !.status = "EXPIRED"] ELSE monitors[m]]
        /\ loop' = [Wake EXCEPT
               !.pc = IF batch = <<>> THEN "jobs" ELSE "fetch",
               !.batch = [i \in DOMAIN batch |->
                             [id |-> batch[i], hash |-> monitors[batch[i]].hash]]]
    /\ UNCHANGED <<due, events, jobs, accepted, world, failures>>

\* fetch_public_source: whatever the source says by now, or a MonitorError.  (At
\* which of its addresses makes no difference to a GET.)  What a source says first
\* is its baseline: texts of two sources are never compared, so which text it is
\* does not matter.
Says(m) == IF monitors[m].hash = Unread THEN {CHOOSE text \in Contents : TRUE}
           ELSE IF m \in Changing /\ Len(events[m]) < MaxEvents THEN Contents
           ELSE {monitors[m].hash}
Fetch ==
    /\ At("fetch")
    /\ \/ \E text \in Says(Current) :
              loop' = [loop EXCEPT !.pc = "store", !.to = text]
       \/ Goto("fail")
    /\ UNCHANGED <<database, world, failures>>

\* The failed check is counted and the next one scheduled.
FailedUnscheduled ==                                                  \* mutant
    /\ At("fail")
    /\ NextRow
    /\ UNCHANGED <<database, world, failures>>
FailCheck ==
    /\ At("fail")
    /\ Checked(Current)
    /\ NextRow
    /\ UNCHANGED <<monitors, events, jobs, accepted, world, failures>>

\* The new hash and the event of a change, in one transaction.  The row was read
\* by run_due, before the checks of the rows ahead of it.
ChangedFromAnything(from, to) == from # to                            \* mutant
Changed(from, to) == from # Unread /\ from # to

StoreCheck ==
    LET changed == Changed(Row.hash, loop.to)
        event == [from |-> Row.hash, to |-> loop.to,
                  webhook |-> IF Current \in Webhooks THEN "PENDING" ELSE "none"]
    IN
    /\ At("store")
    /\ monitors' = [monitors EXCEPT ![Current] =
           [status |-> @.status, hash |-> loop.to,
            changes |-> @.changes + (IF changed THEN 1 ELSE 0)]]
    /\ events' = IF changed THEN [events EXCEPT ![Current] = Append(@, event)] ELSE events
    /\ Checked(Current)
    /\ IF changed /\ Current \in Webhooks THEN Goto("deliver") ELSE NextRow
    /\ UNCHANGED <<jobs, accepted, world, failures>>

\* _deliver_webhook: one address after the other is sent the POST until one
\* answers, whatever the status.  A POST may arrive although its answer does not.
AfterFailedPostAgain == "deliver"                                     \* mutant
AfterFailedPost == "unanswered"

Post(m) == inbox' = [inbox EXCEPT ![m] = Append(@, [from |-> Row.hash, to |-> loop.to])]
Deliver ==
    /\ At("deliver")
    /\ \/ Post(Current) /\ Goto("answered")
       \/ /\ Post(Current) \/ UNCHANGED inbox
          /\ NextAddress \/ Goto(AfterFailedPost)
    /\ UNCHANGED <<database, callbacks, failures>>

\* The outcome is written to the event.
Mark ==
    /\ loop.pc \in {"answered", "unanswered"}
    /\ LET outcome == IF At("answered") THEN "HTTP" ELSE "ERROR"
       IN  events' = [events EXCEPT ![Current] = [@ EXCEPT ![Len(@)].webhook = outcome]]
    /\ NextRow
    /\ UNCHANGED <<monitors, due, jobs, accepted, world, failures>>

-----------------------------------------------------------------------------
(* run_pending *)

SelectJobs ==
    /\ At("jobs")
    /\ \E batch \in Selections({j \in Jobs : jobs[j].status \in Open
                                            /\ jobs[j].attempts < MAX_ATTEMPTS},
                               accepted, JobLimit) :
           loop' = [Wake EXCEPT
               !.pc = IF batch = <<>> THEN "due" ELSE "job",
               !.batch = [i \in DOMAIN batch |->
                             [id |-> batch[i], attempts |-> jobs[batch[i]].attempts]]]
    /\ UNCHANGED <<database, world, failures>>

\* _complete_job: the brief is invalid, or the monitor is activated ...
CompleteJob ==
    /\ At("job")
    /\ IF jobs[Current].valid THEN Goto("callback") /\ Activate(Current)
       ELSE Goto("reject") /\ UNCHANGED <<monitors, due>>
    /\ UNCHANGED <<events, jobs, accepted, world, failures>>

\* ... and the marketplace told, at one address after the other until one answers.
CallbackIgnored == "finish"                                           \* mutant
AfterFailedCallback == "reject"

Complete(j) == callbacks' = [callbacks EXCEPT ![j] = @ + 1]
PostCallback ==
    /\ At("callback")
    /\ \/ Complete(Current) /\ Goto("finish")
       \/ /\ Complete(Current) \/ UNCHANGED callbacks
          /\ NextAddress \/ Goto(AfterFailedCallback)
    /\ UNCHANGED <<database, inbox, failures>>

FinishJob ==
    /\ At("finish")
    /\ jobs' = [jobs EXCEPT ![Current] =
           [status |-> "COMPLETED", attempts |-> @.attempts + 1, valid |-> @.valid]]
    /\ NextJob
    /\ UNCHANGED <<monitors, due, events, accepted, world, failures>>

\* The attempt failed: one fewer is left.
RetriesUncounted == Row.attempts                                      \* mutant
Attempted == Row.attempts + 1

RejectJob ==
    /\ At("reject")
    /\ jobs' = [jobs EXCEPT ![Current] =
           [status |-> IF Attempted >= MAX_ATTEMPTS THEN "FAILED" ELSE "RETRY",
            attempts |-> Attempted, valid |-> @.valid]]
    /\ NextJob
    /\ UNCHANGED <<monitors, due, events, accepted, world, failures>>

-----------------------------------------------------------------------------
(* What goes wrong, and the environment *)

Fail == failures < MaxFailures /\ failures' = failures + 1

\* A transaction fails.  In _complete_job that is a failed attempt; elsewhere it
\* ends run_due or run_pending, and the loop goes on with what follows.
DatabaseError ==
    /\ Fail
    /\ \/ /\ loop.pc \in {"due", "fail", "store", "answered", "unanswered"}
          /\ loop' = [Wake EXCEPT !.pc = "jobs"]
       \/ At("job") /\ Goto("reject")
       \/ loop.pc \in {"jobs", "finish", "reject"} /\ loop' = Wake
    /\ UNCHANGED <<database, world>>

\* Reading a source or posting a webhook raises something else than MonitorError,
\* OSError or sqlite3.Error, and nothing between it and the task catches it.
Surprise ==
    /\ Fail
    /\ loop.pc \in {"fetch", "deliver"}
    /\ loop' = Dead
    /\ UNCHANGED <<database, world>>

Restart ==
    /\ Fail
    /\ loop' = Wake
    /\ UNCHANGED <<database, world>>

\* Six hours are over.  Only run_due looks, so they may as well be over just then.
BecomeDue(m) ==
    /\ At("due")
    /\ monitors[m] # NoMonitor /\ ~Contains(due, m)
    /\ due' = Append(due, m)
    /\ UNCHANGED <<monitors, events, jobs, accepted, loop, world, failures>>

Loop ==
    \/ RunDue \/ Fetch \/ FailCheck \/ StoreCheck \/ Deliver \/ Mark
    \/ SelectJobs \/ CompleteJob \/ PostCallback \/ FinishJob \/ RejectJob

Next ==
    \/ Loop
    \/ \E c \in Customers : Buy(c)
    \/ \E j \in Jobs : Dispatch(j)
    \/ \E m \in Monitors : Cancel(m) \/ BecomeDue(m)
    \/ DatabaseError \/ Surprise \/ Restart

Spec == Init /\ [][Next]_vars

\* As long as the background task lives, the event loop resumes it: the sleep
\* ends, every transaction and every network call returns (12 s time-outs).
FairSpec == Spec /\ WF_vars(Loop)

-----------------------------------------------------------------------------
(* Properties *)

Event == [from : Contents, to : Contents, webhook : {"none", "PENDING", "HTTP", "ERROR"}]
Change == [from : Contents, to : Contents]
MonitorRow == [id : Monitors, hash : Contents \cup {Unread}]
JobRow == [id : Jobs, attempts : 0..MAX_ATTEMPTS]
Checking == {"fetch", "fail", "store", "deliver", "answered", "unanswered"}
Completing == {"job", "callback", "finish", "reject"}

\* The loop works on monitors in run_due and on jobs in run_pending.
LoopType ==
    \/ loop.pc \in {"due", "jobs", "dead"} /\ loop = [Wake EXCEPT !.pc = loop.pc]
    \/ loop \in [pc : Checking, batch : Seq(MonitorRow) \ {<<>>}, to : Contents \cup {Unread},
                 address : 1..Addresses]
    \/ loop \in [pc : Completing, batch : Seq(JobRow) \ {<<>>}, to : {Unread},
                 address : 1..Addresses]

\* Types; nothing is due or accepted twice.
TypeOK ==
    /\ monitors \in [Monitors -> [status : {"ABSENT", "ACTIVE", "CANCELLED", "EXPIRED"},
                                  hash : Contents \cup {Unread}, changes : Nat]]
    /\ due \in Seq(Monitors) /\ IsInjective(due)
    /\ events \in [Monitors -> Seq(Event)]
    /\ jobs \in [Jobs -> [status : {"ABSENT", "COMPLETED", "FAILED"} \cup Open,
                          attempts : 0..MAX_ATTEMPTS, valid : BOOLEAN]]
    /\ accepted \in Seq(Jobs) /\ IsInjective(accepted)
    /\ LoopType
    /\ inbox \in [Monitors -> Seq(Change)]
    /\ callbacks \in [Jobs -> Nat] /\ failures \in 0..MaxFailures

\* The events a customer polls are the gapless history of what the checks saw:
\* they start after the baseline, each one starts where the one before ended,
\* the last one ends at the stored hash, and change_count counts them, wherever
\* the loop was cut off.
EventsAreHistory ==
    \A m \in Monitors :
        LET history == events[m] IN
        /\ Len(history) = monitors[m].changes
        /\ \A i \in DOMAIN history :
               /\ history[i].from # history[i].to /\ history[i].from # Unread
               /\ i > 1 => history[i].from = history[i - 1].to
        /\ history # <<>> => Last(history).to = monitors[m].hash

\* A webhook endpoint never hears of a change that is not stored, never out of
\* order, and of one change no more often than its host has addresses, though the
\* loop may be cut off before, between or after its POSTs; and it did hear of each
\* event whose webhook_status says that it answered.
InboxFaithful ==
    \A m \in Monitors : \E heard \in [DOMAIN inbox[m] -> DOMAIN events[m]] :
        /\ \A i, k \in DOMAIN inbox[m] : i < k => heard[i] <= heard[k]
        /\ \A i, k \in DOMAIN inbox[m] : i + Addresses <= k => heard[i] < heard[k]
        /\ \A i \in DOMAIN inbox[m] : /\ inbox[m][i].from = events[m][heard[i]].from
                                      /\ inbox[m][i].to = events[m][heard[i]].to
        /\ \A e \in DOMAIN events[m] : events[m][e].webhook = "HTTP" => e \in Range(heard)

\* A monitor that is cancelled or over never becomes active again: neither a
\* repeated purchase nor a repeated job nor a check that was under way revives it.
NeverRevived ==
    [][\A m \in Monitors :
           /\ monitors[m].status \in {"CANCELLED", "EXPIRED"} => monitors'[m].status # "ACTIVE"
           /\ monitors[m].status = "CANCELLED" => monitors'[m].status = "CANCELLED"]_vars

\* The completions the marketplace may have taken for j in the attempt under way.
UnderWay(j) ==
    IF loop.pc \notin {"callback", "finish", "reject"} \/ Current # j THEN 0
    ELSE IF At("callback") THEN loop.address - 1 ELSE Addresses

\* A job that is COMPLETED was delivered to the marketplace with a monitor of its
\* own, and one that is FAILED has used up its attempts; and the marketplace is
\* told of a completion no more often than its host has addresses for each counted
\* attempt, for each attempt that a failed transaction or a restart left uncounted,
\* and for the one under way.
JobsDelivered ==
    \A j \in Jobs :
        /\ jobs[j].status = "COMPLETED" => callbacks[j] > 0 /\ monitors[j] # NoMonitor
        /\ jobs[j].status = "FAILED" <=>
               jobs[j].attempts = MAX_ATTEMPTS /\ jobs[j].status # "COMPLETED"
        /\ callbacks[j] <= Addresses * (jobs[j].attempts + failures) + UnderWay(j)

\* No job stays open for ever: every one that was accepted is eventually completed
\* or given up, unless the background task has died.
JobsSettled ==
    \A j \in Jobs : []<>(jobs[j].status \notin Open \/ At("dead"))

\* No monitor stays due for ever, starved by others: it is checked, cancelled or
\* over, in the end, unless the background task has died.
DueIsChecked ==
    \A m \in Monitors :
        []<>(~Contains(due, m) \/ monitors[m].status # "ACTIVE" \/ At("dead"))

=============================================================================
