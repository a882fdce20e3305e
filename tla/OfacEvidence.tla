---------------------------- MODULE OfacEvidence ----------------------------
(***************************************************************************)
(* evidence.py: how the OFAC lists are fetched, stored, indexed by content *)
(* hash and looked up, and how results are cached.  A thread is one user   *)
(* of EvidenceService at a time: the background task of app.py or the      *)
(* command line, which refresh a list, or a request that prepares an       *)
(* answer.  Nothing locks one out while another works, so each database    *)
(* transaction and each HTTP exchange is a step.  The file of a list in    *)
(* its version v is written v: content hashes and version strings are      *)
(* version numbers.                                                        *)
(***************************************************************************)
EXTENDS Naturals, FiniteSets

CONSTANTS
    Lists,         \* SDN and CONSOLIDATED
    Subjects,      \* normalized identifiers, narrowed to the networks asked about
    Listed,        \* Listed[l][v]: the subjects in version v of list l
    Questions,     \* requests as they are written: a subject has many spellings
    Subject,       \* Subject[q]: what q asks about once it is normalized
    Names,         \* Names[q]: the lists q names
    Preflights,    \* those written as the free preflight writes its own request
    Threads,
    Refreshers,    \* those threads that refresh
    Workers,       \* those threads that prepare answers (one may do both in turn)
    MaxVersion,    \* bound: versions of each list that are published
    MaxResults,    \* bound: results stored after which nothing more is asked
    MaxFailures    \* bound: restarts and failed transactions

Versions == 1..MaxVersion
Products == {"exact", "preflight", "refresh"}

ASSUME ConstantsAssumption ==
    /\ Threads = Refreshers \cup Workers
    /\ MaxVersion \in Nat \ {0} /\ MaxResults \in Nat /\ MaxFailures \in Nat
    /\ Listed \in [Lists -> [Versions -> SUBSET Subjects]]
    /\ Questions # {} /\ Subject \in [Questions -> Subjects]
    /\ Names \in [Questions -> (SUBSET Lists) \ {{}}]
    /\ Preflights \subseteq Questions /\ \A q \in Preflights : Names[q] = Lists

VARIABLES
    published,   \* external: the version of each list OFAC serves
    status,      \* source_status: current content, its version, verified < 900 s ago
    index,       \* ofac_lookup: <<l, c, v>>, the rows of file v under content hash c
    prepared,    \* prepared_results
    threads,     \* local variables of each thread
    failures,
    disturbed,   \* history: someone acted on a list while it was being imported
    answers      \* history: what was answered, to which question, over which files

vars == <<published, status, index, prepared, threads, failures, disturbed, answers>>

NoStatus == [content |-> 0, version |-> 0, fresh |-> FALSE]
Idle == [pc |-> "idle"]
Dead == [pc |-> "dead"]
NoBundle == [l \in Lists |-> 0]

Init ==
    /\ published = [l \in Lists |-> 1]
    /\ status = [l \in Lists |-> NoStatus]
    /\ index = {}
    /\ prepared = {}
    /\ threads = [t \in Threads |-> Idle]
    /\ failures = 0
    /\ disturbed = FALSE
    /\ answers = {}

-----------------------------------------------------------------------------
(* Helpers *)

At(t, pc) == threads[t].pc = pc
List(t) == threads[t].list

\* import_ofac_file is between its first and its last transaction on list l.
Importing(l) == {t \in Threads : threads[t].pc \in {"readback", "index"} /\ List(t) = l}

\* The local variables of a thread that still needs a snapshot of each list of todo.
Gather(product, question, force, todo, bundle) ==
    [pc |-> IF todo = {} THEN "lookup" ELSE "check", product |-> product,
     question |-> question, force |-> force, todo |-> todo, bundle |-> bundle,
     list |-> CHOOSE l \in Lists : TRUE, seen |-> NoStatus,
     head |-> 0, body |-> 0, filed |-> 0, matched |-> {}]

\* refresh_ofac returns a snapshot of list l: a refresher is done, an answer
\* needs the other lists it names.
Collect(t, l, content) ==
    threads' = [threads EXCEPT ![t] =
        IF @.product = "refresh" THEN Idle
        ELSE Gather(@.product, @.question, @.force, @.todo \ {l},
                    [@.bundle EXCEPT ![l] = content])]

\* The result of a thread's request over the files it gathered.
Stored(product, t, matched) ==
    [product |-> product, question |-> threads[t].question, bundle |-> threads[t].bundle,
     matched |-> matched]

\* An exact answer is returned; a preflight has its own row still to store.
Matched(t, matched) ==
    IF threads[t].product = "exact"
    THEN /\ threads' = [threads EXCEPT ![t] = Idle]
         /\ answers' = answers \cup {Stored("exact", t, matched)}
    ELSE /\ threads' = [threads EXCEPT ![t] = [@ EXCEPT !.pc = "decide", !.matched = matched]]
         /\ UNCHANGED answers

\* The SELECT on ofac_lookup: rows filed under the snapshot's content hash.
MatchesAnyFile(l, content, subject) ==                                \* mutant
    \E row \in index : row[1] = l /\ subject \in Listed[l][row[3]]
Matches(l, content, subject) ==
    \E row \in index : row[1] = l /\ row[2] = content /\ subject \in Listed[l][row[3]]

\* What the files of a bundle really list.
Truth(bundle, subject) == {l \in Lists : bundle[l] # 0 /\ subject \in Listed[l][bundle[l]]}

\* INSERT OR IGNORE INTO prepared_results, unique by product, bundle and the
\* request as it is written: another spelling of a question has a row of its own.
SameKey(q, r) == q.product = r.product /\ q.question = r.question /\ q.bundle = r.bundle
InsertOrIgnore(r) ==
    prepared' = IF \E q \in prepared : SameKey(q, r) THEN prepared ELSE prepared \cup {r}

\* _store_prepared answers with the row it reads back, not with the one it made.
AsComputed(r) == r                                                    \* mutant
ReadAgain(r) == CHOOSE q \in prepared' : SameKey(q, r)

-----------------------------------------------------------------------------
(* refresh_ofac and import_ofac_file *)

\* refresh_ofac is called for a list, forced or not.
Refresh(t) ==
    /\ t \in Refreshers /\ At(t, "idle")
    /\ \E l \in Lists, force \in BOOLEAN :
          threads' = [threads EXCEPT ![t] =
              Gather("refresh", CHOOSE q \in Questions : TRUE, force, {l}, NoBundle)]
    /\ UNCHANGED <<published, status, index, prepared, failures, disturbed, answers>>

\* A request for the evidence, or for the free preflight, which writes the
\* question itself: the address in lower case, one network, both lists.
Request(t) ==
    /\ t \in Workers /\ At(t, "idle")
    /\ Cardinality(prepared) < MaxResults
    /\ \E product \in {"exact", "preflight"}, question \in Questions :
          /\ product = "preflight" => question \in Preflights
          /\ threads' = [threads EXCEPT ![t] =
                 Gather(product, question, FALSE, Names[question], NoBundle)]
    /\ UNCHANGED <<published, status, index, prepared, failures, disturbed, answers>>

\* current_snapshot is read: a fresh one is returned unless force says otherwise.
Check(t) ==
    /\ At(t, "check")
    /\ \E l \in threads[t].todo :
          IF status[l].fresh /\ ~threads[t].force THEN Collect(t, l, status[l].content)
          ELSE threads' = [threads EXCEPT ![t] =
                   [@ EXCEPT !.pc = "head", !.list = l, !.seen = status[l]]]
    /\ UNCHANGED <<published, status, index, prepared, failures, disturbed, answers>>

\* HEAD: the version OFAC serves.  If it is the one read, the file is not fetched.
UpToDateUnlessForced(t, version) == ~threads[t].force                  \* mutant
UpToDate(t, version) == threads[t].seen.version = version /\ ~threads[t].force

Head(t) ==
    LET version == published[List(t)] IN
    /\ At(t, "head")
    /\ threads' = [threads EXCEPT ![t] =
           [@ EXCEPT !.head = version,
                     !.pc = IF UpToDate(t, version) THEN "mark" ELSE "get"]]
    /\ UNCHANGED <<published, status, index, prepared, failures, disturbed, answers>>

\* GET: the file served now, which may be newer than HEAD said.
Get(t) ==
    /\ At(t, "get")
    /\ threads' = [threads EXCEPT ![t] =
           [@ EXCEPT !.pc = "store", !.body = published[List(t)], !.seen = NoStatus]]
    /\ UNCHANGED <<published, status, index, prepared, failures, disturbed, answers>>

\* HEAD or GET fails, or the file does not parse: the error ends the thread.
Unavailable(t) ==
    /\ threads[t].pc \in {"head", "get", "store"}
    /\ threads' = [threads EXCEPT ![t] = Idle]
    /\ UNCHANGED <<published, status, index, prepared, failures, disturbed, answers>>

\* A forced refresh that cannot reach OFAC falls back on a fresh snapshot.
FallBack(t) ==
    /\ threads[t].pc \in {"head", "get"} /\ threads[t].force /\ threads[t].seen.fresh
    /\ Collect(t, List(t), threads[t].seen.content)
    /\ UNCHANGED <<published, status, index, prepared, failures, disturbed, answers>>

\* _mark_source_verified: the UPDATE, then current_snapshot is read again.
Mark(t) ==
    /\ At(t, "mark")
    /\ status' = [status EXCEPT ![List(t)] =
           [@ EXCEPT !.version = threads[t].head, !.fresh = TRUE]]
    /\ threads' = [threads EXCEPT ![t].pc = "marked"]
    /\ UNCHANGED <<published, index, prepared, failures, disturbed, answers>>

Marked(t) ==
    /\ At(t, "marked")
    /\ Collect(t, List(t), status[List(t)].content)
    /\ UNCHANGED <<published, status, index, prepared, failures, disturbed, answers>>

\* _store_snapshot: one transaction stores the file and makes it current ...
Store(t) ==
    /\ At(t, "store")
    /\ status' = [status EXCEPT ![List(t)] =
           [content |-> threads[t].body, version |-> threads[t].head, fresh |-> TRUE]]
    /\ threads' = [threads EXCEPT ![t].pc = "readback"]
    /\ disturbed' = (disturbed \/ Importing(List(t)) # {})
    /\ UNCHANGED <<published, index, prepared, failures, answers>>

\* ... and returns current_snapshot, whatever is current by then.
ReadBack(t) ==
    /\ At(t, "readback")
    /\ threads' = [threads EXCEPT ![t] =
           [@ EXCEPT !.pc = "index", !.filed = status[List(t)].content]]
    /\ UNCHANGED <<published, status, index, prepared, failures, disturbed, answers>>

\* The last transaction of import_ofac_file files the rows parsed from the
\* downloaded file under the content hash of the snapshot it was given back.
Index(t) ==
    /\ At(t, "index")
    /\ index' = index \cup {<<List(t), threads[t].filed, threads[t].body>>}
    /\ Collect(t, List(t), threads[t].filed)
    /\ UNCHANGED <<published, status, prepared, failures, disturbed, answers>>

-----------------------------------------------------------------------------
(* prepare_ofac and prepare_ofac_preflight *)

\* The cached result of the same request over the same files, or the index.
CachedForAnySpelling(t) ==                                            \* mutant
    {r \in prepared : /\ r.product = "exact" /\ r.bundle = threads[t].bundle
                      /\ Subject[r.question] = Subject[threads[t].question]}
Cached(t) == {r \in prepared : SameKey(r, Stored("exact", t, {}))}

Lookup(t) ==
    LET bundle == threads[t].bundle
        subject == Subject[threads[t].question]
        hits == {l \in Lists : bundle[l] # 0 /\ Matches(l, bundle[l], subject)}
    IN
    /\ At(t, "lookup")
    /\ \/ \E r \in Cached(t) : Matched(t, r.matched) /\ UNCHANGED disturbed
       \/ /\ Cached(t) = {}
          /\ threads' = [threads EXCEPT ![t] = [@ EXCEPT !.pc = "persist", !.matched = hits]]
          /\ disturbed' = (disturbed \/ \E l \in Lists : bundle[l] # 0 /\ Importing(l) # {})
          /\ UNCHANGED answers
    /\ UNCHANGED <<published, status, index, prepared, failures>>

\* _store_prepared: the row that is there already wins, and is what is answered.
Persist(t) ==
    LET row == Stored("exact", t, threads[t].matched) IN
    /\ At(t, "persist")
    /\ InsertOrIgnore(row)
    /\ Matched(t, ReadAgain(row).matched)
    /\ UNCHANGED <<published, status, index, failures, disturbed>>

Decide(t) ==
    LET row == Stored("preflight", t, threads[t].matched) IN
    /\ At(t, "decide")
    /\ InsertOrIgnore(row)
    /\ threads' = [threads EXCEPT ![t] = Idle]
    /\ answers' = answers \cup {ReadAgain(row)}
    /\ UNCHANGED <<published, status, index, failures, disturbed>>

-----------------------------------------------------------------------------
(* The environment *)

\* OFAC publishes a new version of a list.
Publish(l) ==
    /\ published[l] < MaxVersion
    /\ published' = [published EXCEPT ![l] = @ + 1]
    /\ UNCHANGED <<status, index, prepared, threads, failures, disturbed, answers>>

\* OFAC_FRESHNESS_SECONDS pass since the list was last checked.
Expire(l) ==
    /\ status[l].fresh
    /\ status' = [status EXCEPT ![l].fresh = FALSE]
    /\ UNCHANGED <<published, index, prepared, threads, failures, disturbed, answers>>

\* The process stops, or a transaction of one thread fails: what was committed
\* stays.
Stop(after) ==
    /\ failures < MaxFailures
    /\ failures' = failures + 1
    /\ threads' = after
    /\ disturbed' = (disturbed \/ \E l \in Lists : \E t \in Importing(l) : after[t] # threads[t])
    /\ UNCHANGED <<published, status, index, prepared, answers>>

Restart == Stop([t \in Threads |-> Idle])

\* A failed transaction ends a request or a command.  The background task
\* survives an EvidenceError only, and refresh_ofac makes one of whatever fails
\* up to the download, but not of what fails in import_ofac_file.
DatabaseError(t) ==
    /\ threads[t].pc \in {"mark", "store", "readback", "index", "persist", "decide"}
    /\ Stop([threads EXCEPT ![t] =
           IF @.product = "refresh" /\ ~@.force /\ @.pc # "mark" THEN Dead ELSE Idle])

Step(t) ==
    \/ Check(t) \/ Head(t) \/ Get(t) \/ Unavailable(t) \/ FallBack(t)
    \/ Mark(t) \/ Marked(t) \/ Store(t) \/ ReadBack(t) \/ Index(t)
    \/ Lookup(t) \/ Persist(t) \/ Decide(t)

Next ==
    \/ \E t \in Threads : Refresh(t) \/ Request(t) \/ Step(t) \/ DatabaseError(t)
    \/ \E l \in Lists : Publish(l) \/ Expire(l)
    \/ Restart

Spec == Init /\ [][Next]_vars

\* The event loop keeps calling the refreshers, and what they call returns.
FairSpec == Spec /\ \A t \in Refreshers : WF_vars(Refresh(t) \/ Step(t))

-----------------------------------------------------------------------------
(* Properties *)

Thread == [pc : {"check", "head", "get", "mark", "marked", "store", "readback", "index",
                 "lookup", "persist", "decide"},
           product : Products, question : Questions, force : BOOLEAN, todo : SUBSET Lists,
           bundle : [Lists -> 0..MaxVersion], list : Lists,
           seen : [content : 0..MaxVersion, version : 0..MaxVersion, fresh : BOOLEAN],
           head : 0..MaxVersion, body : 0..MaxVersion, filed : 0..MaxVersion,
           matched : SUBSET Lists]
Result == [product : Products, question : Questions, bundle : [Lists -> 0..MaxVersion],
           matched : SUBSET Lists]

\* Types; a list that was ever checked has a file, and no bundle that reaches
\* the index lacks one.
TypeOK ==
    /\ published \in [Lists -> Versions]
    /\ status \in [Lists -> [content : 0..MaxVersion, version : 0..MaxVersion, fresh : BOOLEAN]]
    /\ \A l \in Lists : status[l].fresh => status[l].content # 0
    /\ index \subseteq Lists \X Versions \X Versions
    /\ prepared \subseteq Result
    /\ threads \in [Threads -> {Idle, Dead} \cup Thread]
    /\ \A t \in Threads : threads[t].pc \in {"lookup", "persist", "decide"} =>
           threads[t].todo = {} /\ threads[t].bundle # NoBundle
    /\ failures \in 0..MaxFailures /\ disturbed \in BOOLEAN
    /\ answers \subseteq Result

\* As long as no thread touched a list while another was between the two
\* transactions of its import, and no import was cut short there, every stored
\* result says exactly what the files it is bound to say, and the current file of
\* a list is indexed once its import has ended.
ExactUnlessDisturbed ==
    ~disturbed =>
        /\ \A r \in prepared : r.matched = Truth(r.bundle, Subject[r.question])
        /\ \A l \in Lists : (status[l].content # 0 /\ Importing(l) = {})
               => <<l, status[l].content, status[l].content>> \in index

\* A free decision agrees with the paid evidence stored for the question it
\* writes, over the same files, whichever was asked for first and whatever threads
\* raced.  (Another spelling has a row of its own, which may say otherwise.)
PreflightAgrees ==
    \A r \in prepared : r.product = "preflight" =>
        \E q \in prepared : q.product = "exact" /\ q.question = r.question
                            /\ q.bundle = r.bundle /\ q.matched = r.matched

\* The same request over the same files is answered identically for ever, although
\* two workers may have computed different answers to it, and although processes stop.
AnswersStable ==
    \A a, b \in answers : SameKey(a, b) => a.matched = b.matched

\* README.md: the route is an "exact OFAC SDN or Consolidated lookup ... with
\* versioned source proof".  A listed identifier is never answered as not listed.
NoFalseClearance ==
    \A r \in prepared : Truth(r.bundle, Subject[r.question]) \subseteq r.matched

\* app.py, refresh_ofac_sources: "Health/status surfaces the stale state; the loop
\* keeps retrying."
LoopKeepsRetrying ==
    \A t \in Refreshers : []<>At(t, "check")

=============================================================================
