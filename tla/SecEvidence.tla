----------------------------- MODULE SecEvidence -----------------------------
(***************************************************************************)
(* evidence.py: the SEC's list of one issuer's filings, and the two        *)
(* products made of it.  prepare_sec_signal tells the filings accepted     *)
(* since a moment and the moment to ask from next; prepare_sec tells the   *)
(* filings after an accession.  Both run on threads of their own over one  *)
(* cached source, in which every transaction is a step, and the SEC lists  *)
(* more from moment to moment.                                             *)
(*   Filings are numbered in order of acceptance; what the source holds is *)
(* the number of filings listed.  The ticker map, the documents and the    *)
(* company facts are further sources had in the same way, and left out.    *)
(***************************************************************************)
EXTENDS Integers, Sequences, FiniteSets

CONSTANTS
    Threads,
    MaxAge,       \* max_source_age_seconds, at least 60 s
    Transit,      \* bound: from the SEC's answer to its timestamp here
    Lag,          \* external: from a filing's acceptance until it is listed
    MaxFilings,   \* MAX_SEC_FILINGS
    MaxFiled,     \* bound: filings modelled
    MaxResults,   \* bound: results stored
    MaxTime       \* bound: moments modelled

\* An answer travels for less than the least age a request may ask for: the timeout
\* is 30 s, but of every read, so that this is assumed of the SEC, not enforced.
ASSUME ConstantsAssumption ==
    /\ MaxAge \in Nat /\ Transit \in Nat /\ Transit <= MaxAge
    /\ Lag \in Nat /\ MaxFilings \in Nat \ {0}
    /\ MaxFiled \in Nat /\ MaxResults \in Nat /\ MaxTime \in Nat

Contents == 0..MaxFiled
Times == 0..MaxTime
None == -1

VARIABLES
    now,
    accepted,    \* external: acceptanceDateTime, by filing
    listed,      \* external: the moment a filing was first listed, by filing
    retrieved,   \* source_snapshots: retrieved_at or None, by content
    status,      \* source_status: the current content and last_checked_at
    results,     \* prepared_results
    threads

sec == <<accepted, listed>>
vars == <<now, accepted, listed, retrieved, status, results, threads>>

NoStatus == [content |-> None, checked |-> None]
Idle == [pc |-> "idle"]

Init ==
    /\ now = 0
    /\ accepted = <<>> /\ listed = <<>>
    /\ retrieved = [n \in Contents |-> None]
    /\ status = NoStatus
    /\ results = {}
    /\ threads = [t \in Threads |-> Idle]

-----------------------------------------------------------------------------
(* The SEC and the clock *)

Served == Len(listed)

\* A filing is listed that was accepted up to Lag before.
List ==
    /\ Served < MaxFiled
    /\ \E moment \in Times :
          /\ moment <= now /\ now <= moment + Lag
          /\ \A i \in 1..Served : accepted[i] <= moment
          /\ accepted' = Append(accepted, moment)
    /\ listed' = Append(listed, now)
    /\ UNCHANGED <<now, retrieved, status, results, threads>>

At(t, pc) == threads[t].pc = pc

\* An answer waits Transit at most for its timestamp.
Tick ==
    /\ now < MaxTime
    /\ \A t \in Threads : At(t, "store") \/ At(t, "mark") => now < threads[t].at + Transit
    /\ now' = now + 1
    /\ UNCHANGED <<sec, retrieved, status, results, threads>>

-----------------------------------------------------------------------------
(* prepare_sec_signal and prepare_sec begin *)

\* due is history: the filings listed for so long that the result must know them.
Begun(kind, since) ==
    [pc |-> "check", kind |-> kind, since |-> since, seen |-> NoStatus, got |-> None,
     at |-> None, rows |-> None, moment |-> None,
     due |-> {i \in 1..Served : listed[i] < now - MaxAge - Transit}]

\* A signal since the beginning, or since the next_since of an earlier answer.
Signal(t) ==
    /\ At(t, "idle") /\ Cardinality(results) < MaxResults
    /\ \E since \in {0} \cup {r.moment : r \in {q \in results : q.kind = "signal"}} :
          threads' = [threads EXCEPT ![t] = Begun("signal", since)]
    /\ UNCHANGED <<now, sec, retrieved, status, results>>

\* A delta since an accession the client has seen.
Delta(t) ==
    /\ At(t, "idle") /\ Cardinality(results) < MaxResults
    /\ \E accession \in 1..Served : threads' = [threads EXCEPT ![t] = Begun("delta", accession)]
    /\ UNCHANGED <<now, sec, retrieved, status, results>>

-----------------------------------------------------------------------------
(* _fetch_sec_source *)

\* BASELINE_NOT_AVAILABLE and RESULT_LIMIT_EXCEEDED.
Refused(thread) ==
    /\ thread.kind = "delta"
    /\ thread.since > thread.rows \/ thread.rows - thread.since > MaxFilings

\* A snapshot has been had: its rows and its retrieved_at.
WithRows(thread, rows) ==
    LET read == [thread EXCEPT !.pc = "prepare", !.seen = NoStatus, !.rows = rows,
                               !.moment = retrieved[rows]]
    IN  IF Refused(read) THEN Idle ELSE read
Read(t, rows) == threads' = [threads EXCEPT ![t] = WithRows(@, rows)]

\* age_seconds(current.verified_at) <= max_age_seconds.
Fresh(seen) == seen.content # None /\ now - seen.checked <= MaxAge

\* current_snapshot: good enough, or else what to ask the SEC about.
Check(t) ==
    /\ At(t, "check")
    /\ IF Fresh(status) THEN Read(t, status.content)
       ELSE threads' = [threads EXCEPT ![t] = [@ EXCEPT !.pc = "get", !.seen = status]]
    /\ UNCHANGED <<now, sec, retrieved, status, results>>

\* The SEC answers with its list or, if that is what was seen, perhaps with 304:
\* without a Last-Modified from the SEC the same list comes again with 200.
Get(t) ==
    /\ At(t, "get")
    /\ \E then \in {"store", "mark"} :
          /\ then = "mark" => Served = threads[t].seen.content
          /\ threads' = [threads EXCEPT ![t] =
                 [@ EXCEPT !.pc = then, !.got = Served, !.at = now, !.seen = NoStatus]]
    /\ UNCHANGED <<now, sec, retrieved, status, results>>

\* No answer: the snapshot seen before the request, if it is fresh enough still.
UsableAnyway(seen) == seen.content # None                                 \* mutant
Usable(seen) == Fresh(seen)

GetFails(t) ==
    /\ At(t, "get")
    /\ IF Usable(threads[t].seen) THEN Read(t, threads[t].seen.content)
       ELSE threads' = [threads EXCEPT ![t] = Idle]
    /\ UNCHANGED <<now, sec, retrieved, status, results>>

Verified(thread) == [thread EXCEPT !.pc = "reread", !.got = None, !.at = None]

\* _store_snapshot: the time is taken, then one transaction inserts the snapshot
\* unless there is one of that content, and makes it the current one.
StampForgotten(old, stamp) == old                                         \* mutant
StampAgain(old, stamp) == stamp                                           \* mutant
Stamp(old, stamp) == IF old = None THEN stamp ELSE old

Store(t) ==
    LET content == threads[t].got IN
    /\ At(t, "store")
    /\ \E stamp \in threads[t].at..now :
          /\ retrieved' = [retrieved EXCEPT ![content] = Stamp(@, stamp)]
          /\ status' = [content |-> content, checked |-> stamp]
    /\ threads' = [threads EXCEPT ![t] = Verified(@)]
    /\ UNCHANGED <<now, sec, results>>

\* _mark_source_verified: whatever is current is marked.
Mark(t) ==
    /\ At(t, "mark")
    /\ status' = [status EXCEPT !.checked = now]
    /\ threads' = [threads EXCEPT ![t] = Verified(@)]
    /\ UNCHANGED <<now, sec, retrieved, results>>

\* Both return current_snapshot, which another thread may have replaced.
Reread(t) ==
    /\ At(t, "reread")
    /\ Read(t, status.content)
    /\ UNCHANGED <<now, sec, retrieved, status, results>>

-----------------------------------------------------------------------------
(* The result: _cached_prepared and _store_prepared *)

\* _sec_rows_since: strictly after the baseline.  A signal lists the newest.
RowsSince(rows, since) == {i \in 1..rows : accepted[i] > since}
Newest(rows) == {i \in rows : Cardinality({j \in rows : j > i}) < MaxFilings}

NextSinceNow(thread) == now                                               \* mutant
NextSince(thread) == thread.moment

Result(thread) ==
    [kind |-> thread.kind, since |-> thread.since, rows |-> thread.rows,
     moment |-> IF thread.kind = "signal" THEN NextSince(thread) ELSE thread.moment,
     filings |-> IF thread.kind = "signal" THEN Newest(RowsSince(thread.rows, thread.since))
                 ELSE thread.since + 1 .. thread.rows]
SameKey(r, q) == r.kind = q.kind /\ r.since = q.since /\ r.rows = q.rows

\* INSERT OR IGNORE, on the request and the hash of the content.
Prepare(t) ==
    LET result == Result(threads[t]) IN
    /\ At(t, "prepare")
    /\ results' = IF \E r \in results : SameKey(r, result) THEN results ELSE results \cup {result}
    /\ threads' = [threads EXCEPT ![t] = Idle]
    /\ UNCHANGED <<now, sec, retrieved, status>>

Next ==
    \/ List \/ Tick
    \/ \E t \in Threads :
          \/ Signal(t) \/ Delta(t) \/ Check(t) \/ Get(t) \/ GetFails(t)
          \/ Store(t) \/ Mark(t) \/ Reread(t) \/ Prepare(t)

Spec == Init /\ [][Next]_vars

-----------------------------------------------------------------------------
(* Properties *)

Status == [content : Contents \cup {None}, checked : Times \cup {None}]
Thread == [pc : {"check", "get", "store", "mark", "reread", "prepare"},
           kind : {"signal", "delta"}, since : Nat, seen : Status,
           got : Contents \cup {None}, at : Times \cup {None},
           rows : Contents \cup {None}, moment : Times \cup {None}, due : SUBSET Nat]
Prepared == [kind : {"signal", "delta"}, since : Nat, rows : Contents, moment : Times,
             filings : SUBSET Nat]

\* Types; the current content is one that is stored.
TypeOK ==
    /\ now \in Times
    /\ accepted \in Seq(Times) /\ listed \in Seq(Times)
    /\ Len(accepted) = Served /\ Served <= MaxFiled
    /\ retrieved \in [Contents -> Times \cup {None}]
    /\ status \in Status /\ threads \in [Threads -> {Idle} \cup Thread]
    /\ results \subseteq Prepared
    /\ status # NoStatus => status.checked \in Times /\ retrieved[status.content] \in Times
    /\ \A t \in Threads : At(t, "prepare") => threads[t].moment \in Times

\* A result knows every filing that was listed before the request, longer ago
\* than the age asked for and the time an answer travels; whichever threads
\* stored, marked and read the snapshots in between.
FreshAnswers ==
    \A t \in Threads : At(t, "prepare") => threads[t].due \subseteq 1..threads[t].rows

\* A client that asks next from next_since less an overlap of Transit + Lag is
\* told of every filing: what was accepted after since and before that moment
\* is among the filings reported, or as many newer ones are.
WindowComplete ==
    \A r \in results : r.kind = "signal" =>
        \A i \in 1..Served :
            r.since < accepted[i] /\ accepted[i] < r.moment - Transit - Lag =>
                i \in r.filings \/ Cardinality(r.filings) = MaxFilings

\* A stored result tells the moment its content was first had, whichever thread
\* prepared it: preparing it again gives the same result, with the same hash.
ResultsReproducible ==
    \A r \in results : r.moment = retrieved[r.rows]

=============================================================================
