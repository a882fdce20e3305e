------------------------- MODULE OfacEvidence_proofs -------------------------
(***************************************************************************)
(* The stored results about the OFAC lists, for any lists, questions,      *)
(* files, threads, versions and failures.                                  *)
(***************************************************************************)
EXTENDS OfacEvidence, TLAPS

Importers == {"readback", "index"}
Row == [content : 0..MaxVersion, version : 0..MaxVersion, fresh : BOOLEAN]

\* What a thread th that is under way relies on, st being source_status: a list
\* it was told of has a file, what it downloaded is one, an answer names a list.
Grounded(th, st) ==
    th.pc \notin {"idle", "dead"} =>
        /\ th.pc = "check" => th.todo # {}
        /\ th.pc = "head" /\ th.seen.version # 0 => st[th.list].content # 0
        /\ th.pc \in {"head", "get"} /\ th.seen.fresh => th.seen.content # 0
        /\ th.pc \in {"mark", "marked", "readback"} => st[th.list].content # 0
        /\ th.pc \in {"store", "readback", "index"} => th.body # 0
        /\ th.pc = "index" => th.filed # 0
        /\ th.pc \in {"lookup", "persist", "decide"} => th.todo = {} /\ th.bundle # NoBundle

AllGrounded ==
    /\ \A t \in Threads : Grounded(threads[t], status)
    /\ \A l \in Lists : status[l].version # 0 \/ status[l].fresh => status[l].content # 0

\* One result for a request and its files, and nothing else is answered; a preflight
\* is only decided on top of the exact result it repeats.
KeysUnique == \A q, r \in prepared : SameKey(q, r) => q = r
Repeats(th, q) ==
    /\ q.product = "exact" /\ q.question = th.question
    /\ q.bundle = th.bundle /\ q.matched = th.matched
AnswersStored == answers \subseteq prepared
DecidedOnExact ==
    \A t \in Threads : threads[t].pc = "decide" => \E q \in prepared : Repeats(threads[t], q)

\* File v of list l is in the index ix under its own hash, or that is still to be
\* done by the thread of ths that imports it.
Filed(l, v, ix, ths) ==
    v # 0 => \/ <<l, v, v>> \in ix
             \/ \E u \in Threads : ths[u].pc \in Importers /\ ths[u].list = l /\ ths[u].body = v

\* As long as nothing was disturbed, whatever a thread holds is filed, an import
\* reads back the file it stored, and what was found is the truth.
Faithful(th, st, ix, ths) ==
    th.pc \notin {"idle", "dead"} =>
        /\ \A l \in Lists : Filed(l, th.bundle[l], ix, ths)
        /\ th.pc \in {"head", "get"} => Filed(th.list, th.seen.content, ix, ths)
        /\ th.pc = "readback" => st[th.list].content = th.body
        /\ th.pc = "index" => th.filed = th.body
        /\ th.pc \in {"persist", "decide"} => th.matched = Truth(th.bundle, Subject[th.question])

OneImporter(ths) ==
    \A t, u \in Threads :
        ths[t].pc \in Importers /\ ths[u].pc \in Importers /\ ths[t].list = ths[u].list
        => t = u

Undisturbed ==
    /\ \A l \in Lists : Filed(l, status[l].content, index, threads)
    /\ \A t \in Threads : Faithful(threads[t], status, index, threads)
    /\ OneImporter(threads)
    /\ \A row \in index : row[2] = row[3]
    /\ \A r \in prepared : r.matched = Truth(r.bundle, Subject[r.question])

IInv ==
    /\ TypeOK
    /\ AllGrounded
    /\ KeysUnique
    /\ AnswersStored
    /\ DecidedOnExact
    /\ PreflightAgrees
    /\ ~disturbed => Undisturbed
-----------------------------------------------------------------------------
(* What a step of others leaves true of a thread *)

LEMMA GroundedKept ==
    ASSUME NEW th, NEW s1, NEW s2, Grounded(th, s1),
           th.pc \in {"idle", "dead"} \/ th.list \in Lists,
           \A l \in Lists : s1[l].content # 0 => s2[l].content # 0
    PROVE  Grounded(th, s2)
BY DEF Grounded

\* A file stays filed as long as no import of it is cut short.
LEMMA FiledKept ==
    ASSUME NEW i1, NEW i2, NEW f1, NEW f2, i1 \subseteq i2,
           \A u \in Threads : f1[u].pc \in Importers =>
               \/ f2[u].pc \in Importers /\ f2[u].list = f1[u].list /\ f2[u].body = f1[u].body
               \/ <<f1[u].list, f1[u].body, f1[u].body>> \in i2,
           NEW l, NEW v, Filed(l, v, i1, f1)
    PROVE  Filed(l, v, i2, f2)
BY DEF Filed

LEMMA FaithfulKept ==
    ASSUME NEW th, NEW s1, NEW s2, NEW i1, NEW i2, NEW f1, NEW f2, Faithful(th, s1, i1, f1),
           i1 \subseteq i2,
           \A u \in Threads : f1[u].pc \in Importers =>
               \/ f2[u].pc \in Importers /\ f2[u].list = f1[u].list /\ f2[u].body = f1[u].body
               \/ <<f1[u].list, f1[u].body, f1[u].body>> \in i2,
           th.pc = "readback" => s2[th.list].content = s1[th.list].content
    PROVE  Faithful(th, s2, i2, f2)
<1>1. \A l, v : Filed(l, v, i1, f1) => Filed(l, v, i2, f2)
  BY FiledKept
<1> QED
  BY <1>1 DEF Faithful

\* A step of thread t that leaves it with the locals new: types.
LEMMA Move ==
    ASSUME IInv, NEW t \in Threads, NEW new \in {Idle, Dead} \cup Thread,
           threads' = [threads EXCEPT ![t] = new],
           published' = published, failures' \in 0..MaxFailures, disturbed' \in BOOLEAN,
           status' \in [Lists -> Row],
           \A l \in Lists : status'[l].version # 0 \/ status'[l].fresh \/ status[l].content # 0
               => status'[l].content # 0,
           index' \subseteq Lists \X Versions \X Versions, prepared' \subseteq Result,
           answers' \subseteq prepared', Grounded(new, status')
    PROVE  TypeOK' /\ AllGrounded' /\ AnswersStored'
<1>1. TypeOK /\ AllGrounded
  BY DEF IInv
<1>2. threads' \in [Threads -> {Idle, Dead} \cup Thread]
  BY <1>1 DEF TypeOK
<1>3. AllGrounded'
  <2>1. \A u \in Threads : Grounded(threads'[u], status')
    <3> TAKE u \in Threads
    <3>1. CASE u = t
      BY <1>1, <3>1 DEF TypeOK
    <3>2. CASE u # t
      <4>1. /\ threads'[u] = threads[u]
            /\ threads[u].pc \in {"idle", "dead"} \/ threads[u].list \in Lists
        BY <1>1, <3>2 DEF TypeOK, Thread, Idle, Dead
      <4>2. Grounded(threads[u], status)
        BY <1>1 DEF AllGrounded
      <4>3. \A l \in Lists : status[l].content # 0 => status'[l].content # 0
        OBVIOUS
      <4>4. Grounded(threads[u], status')
        BY <4>1, <4>2, <4>3, GroundedKept
      <4> QED
        BY <4>1, <4>4
    <3> QED
      BY <3>1, <3>2
  <2> QED
    BY <2>1 DEF AllGrounded
<1>4. \A u \in Threads : threads'[u].pc \in {"lookup", "persist", "decide"} =>
           threads'[u].todo = {} /\ threads'[u].bundle # NoBundle
  BY <1>3 DEF AllGrounded, Grounded
<1> QED
  BY <1>1, <1>2, <1>3, <1>4 DEF TypeOK, Row, AnswersStored

\* The same step as long as nothing is disturbed.
LEMMA FaithfulMove ==
    ASSUME TypeOK, Undisturbed, NEW t \in Threads, NEW new,
           threads' = [threads EXCEPT ![t] = new],
           index \subseteq index',
           threads[t].pc \in Importers =>
               \/ new.pc \in Importers /\ new.list = List(t) /\ new.body = threads[t].body
               \/ <<List(t), threads[t].body, threads[t].body>> \in index',
           \A u \in Threads \ {t} : threads[u].pc = "readback" =>
               status'[List(u)].content = status[List(u)].content,
           new.pc \in Importers => Importing(new.list) \subseteq {t},
           \A l \in Lists : status'[l].content # status[l].content =>
               Filed(l, status'[l].content, index', threads'),
           Faithful(new, status', index', threads'),
           \A row \in index' : row[2] = row[3],
           \A r \in prepared' : r.matched = Truth(r.bundle, Subject[r.question])
    PROVE  Undisturbed'
<1>1. threads'[t] = new /\ \A u \in Threads \ {t} : threads'[u] = threads[u]
  BY DEF TypeOK
<1>2. \A u \in Threads : threads[u].pc \in Importers =>
         \/ /\ threads'[u].pc \in Importers /\ threads'[u].list = threads[u].list
            /\ threads'[u].body = threads[u].body
         \/ <<threads[u].list, threads[u].body, threads[u].body>> \in index'
  BY <1>1 DEF List
<1>3. \A l \in Lists : Filed(l, status'[l].content, index', threads')
  <2> TAKE l \in Lists
  <2>1. Filed(l, status[l].content, index', threads')
    BY <1>2, FiledKept DEF Undisturbed
  <2> QED
    BY <2>1
<1>4. \A u \in Threads : Faithful(threads'[u], status', index', threads')
  <2> TAKE u \in Threads
  <2>1. CASE u = t
    BY <1>1, <2>1
  <2>2. CASE u # t
    <3>1. Faithful(threads[u], status, index, threads)
      BY DEF Undisturbed
    <3>2. threads[u].pc = "readback" =>
             status'[threads[u].list].content = status[threads[u].list].content
      BY <2>2 DEF List
    <3>3. Faithful(threads[u], status', index', threads')
      BY <1>2, <3>1, <3>2, FaithfulKept
    <3> QED
      BY <1>1, <2>2, <3>3
  <2> QED
    BY <2>1, <2>2
<1>5. OneImporter(threads')
  <2>1. OneImporter(threads)
    BY DEF Undisturbed
  <2> QED
    BY <1>1, <2>1 DEF OneImporter, Importing, Importers, List
<1> QED
  BY <1>3, <1>4, <1>5 DEF Undisturbed

\* The stored results, when none is added.
LEMMA PreparedKept ==
    ASSUME IInv, NEW t \in Threads, NEW new, threads' = [threads EXCEPT ![t] = new],
           prepared' = prepared,
           new.pc = "decide" => \E q \in prepared : Repeats(new, q)
    PROVE  KeysUnique' /\ DecidedOnExact' /\ PreflightAgrees'
<1>1. threads'[t] = new /\ \A u \in Threads \ {t} : threads'[u] = threads[u]
  BY DEF IInv, TypeOK
<1>2. KeysUnique' /\ PreflightAgrees'
  BY DEF IInv, KeysUnique, PreflightAgrees
<1>3. \A u \in Threads : threads'[u].pc = "decide" =>
         \E q \in prepared' : Repeats(threads'[u], q)
  BY <1>1 DEF IInv, DecidedOnExact
<1> QED
  BY <1>2, <1>3 DEF DecidedOnExact

\* A step of thread t that changes its locals only.
LEMMA LocalMove ==
    ASSUME IInv, NEW t \in Threads, NEW new \in {Idle, Dead} \cup Thread,
           threads' = [threads EXCEPT ![t] = new],
           UNCHANGED <<published, status, index, prepared, failures>>,
           disturbed' \in BOOLEAN, disturbed => disturbed', answers' \subseteq prepared,
           Grounded(new, status),
           new.pc = "decide" => \E q \in prepared : Repeats(new, q),
           ~disturbed' /\ threads[t].pc \in Importers => new.pc \in Importers,
           ~disturbed' /\ new.pc \in Importers =>
               /\ threads[t].pc \in Importers
               /\ new.list = List(t) /\ new.body = threads[t].body,
           ~disturbed' /\ Undisturbed => Faithful(new, status, index, threads)
    PROVE  IInv'
<1>1. TypeOK /\ AllGrounded
  BY DEF IInv
<1>2. TypeOK' /\ AllGrounded' /\ AnswersStored'
  <2>1. status' \in [Lists -> Row] /\ index' \subseteq Lists \X Versions \X Versions
    BY <1>1 DEF TypeOK, Row
  <2>2. prepared' \subseteq Result /\ failures' \in 0..MaxFailures
    BY <1>1 DEF TypeOK
  <2>3. \A l \in Lists : status'[l].version # 0 \/ status'[l].fresh \/ status[l].content # 0
               => status'[l].content # 0
    BY <1>1 DEF AllGrounded
  <2>4. Grounded(new, status') /\ answers' \subseteq prepared'
    OBVIOUS
  <2> QED
    BY <2>1, <2>2, <2>3, <2>4, Move
<1>3. KeysUnique' /\ DecidedOnExact' /\ PreflightAgrees'
  BY PreparedKept
<1>4. ASSUME ~disturbed' PROVE Undisturbed'
  <2>1. Undisturbed
    BY <1>4 DEF IInv
  <2>2. threads'[t] = new /\ \A u \in Threads \ {t} : threads'[u] = threads[u]
    BY <1>1 DEF TypeOK
  <2>3. \A u \in Threads : threads[u].pc \in Importers =>
           /\ threads'[u].pc \in Importers /\ threads'[u].list = threads[u].list
           /\ threads'[u].body = threads[u].body
    BY <1>4, <2>2 DEF List
  <2>4. Faithful(new, status, index, threads')
    <3>1. Faithful(new, status, index, threads)
      BY <1>4, <2>1
    <3>2. index \subseteq index
      OBVIOUS
    <3>3. \A u \in Threads : threads[u].pc \in Importers =>
             \/ /\ threads'[u].pc \in Importers /\ threads'[u].list = threads[u].list
                /\ threads'[u].body = threads[u].body
             \/ <<threads[u].list, threads[u].body, threads[u].body>> \in index
      BY <2>3
    <3> HIDE DEF IInv
    <3> QED
      BY <3>1, <3>2, <3>3, FaithfulKept
  <2>5. new.pc \in Importers => Importing(new.list) \subseteq {t}
    BY <1>4, <2>1 DEF Undisturbed, OneImporter, Importing, Importers, List
  <2>6. /\ \A row \in index : row[2] = row[3]
        /\ \A r \in prepared : r.matched = Truth(r.bundle, Subject[r.question])
    BY <2>1 DEF Undisturbed
  <2> QED
    BY <1>1, <1>4, <2>1, <2>4, <2>5, <2>6, FaithfulMove
<1> QED
  BY <1>2, <1>3, <1>4 DEF IInv
-----------------------------------------------------------------------------
(* The locals a step leaves behind *)

LEMMA Constants ==
    /\ MaxVersion \in Nat \ {0} /\ MaxFailures \in Nat
    /\ Versions \subseteq 0..MaxVersion /\ 0 \notin Versions
    /\ \A v \in 0..MaxVersion : v # 0 => v \in Versions
    /\ \A question \in Questions : Names[question] \in SUBSET Lists /\ Names[question] # {}
    /\ (CHOOSE question \in Questions : TRUE) \in Questions
    /\ NoBundle \in [Lists -> 0..MaxVersion] /\ NoStatus \in Row
BY ConstantsAssumption DEF Versions, NoBundle, NoStatus, Row

\* A thread that still needs the lists of todo.
LEMMA GatherMove ==
    ASSUME NEW some \in Lists, NEW product \in Products, NEW question \in Questions,
           NEW force \in BOOLEAN, NEW todo \in SUBSET Lists, NEW bundle \in [Lists -> 0..MaxVersion],
           todo = {} => bundle # NoBundle,
           NEW new, new = Gather(product, question, force, todo, bundle)
    PROVE  /\ new \in Thread /\ new.pc \in {"check", "lookup"} /\ new.bundle = bundle
           /\ new.pc = "check" => new.todo # {}
           /\ new.pc = "lookup" => new.todo = {} /\ new.bundle # NoBundle
<1> DEFINE any == CHOOSE l \in Lists : TRUE
           pc == IF todo = {} THEN "lookup" ELSE "check"
<1>1. any \in Lists
  OBVIOUS
<1>2. pc \in {"check", "lookup"} /\ (pc = "check" <=> todo # {})
  OBVIOUS
<1>3. 0 \in 0..MaxVersion /\ {} \in SUBSET Lists
  BY Constants
<1>4. new = [pc |-> pc, product |-> product, question |-> question,
     force |-> force, todo |-> todo, bundle |-> bundle, list |-> any,
     seen |-> NoStatus, head |-> 0, body |-> 0, filed |-> 0, matched |-> {}]
  BY DEF Gather
<1> HIDE DEF any, pc
<1>5. new \in Thread
  BY <1>1, <1>2, <1>3, <1>4, Constants DEF Thread, Row
<1> QED
  BY <1>2, <1>4, <1>5

\* A thread that was given content as its snapshot of list l.
LEMMA CollectMove ==
    ASSUME TypeOK, NEW t \in Threads, threads[t] \in Thread, NEW l \in Lists,
           NEW content \in Versions, Collect(t, l, content)
    PROVE  \E new \in {Idle, Dead} \cup Thread :
               /\ threads' = [threads EXCEPT ![t] = new]
               /\ \A st : Grounded(new, st)
               /\ new.pc \in {"idle", "check", "lookup"}
               /\ new.pc # "idle" => \A m \in Lists :
                      new.bundle[m] = IF m = l THEN content ELSE threads[t].bundle[m]
<1> PICK old : old = threads[t]
  OBVIOUS
<1>1. CASE old.product = "refresh"
  <2>1. threads' = [threads EXCEPT ![t] = Idle]
    BY <1>1 DEF Collect, TypeOK
  <2>2. Idle \in {Idle, Dead} \cup Thread /\ (\A st : Grounded(Idle, st))
        /\ Idle.pc = "idle"
    BY DEF Grounded, Idle
  <2> QED
    BY <2>1, <2>2
<1>2. CASE old.product # "refresh"
  <2>9. PICK product \in Products, question \in Questions, force \in BOOLEAN,
             todo \in SUBSET Lists :
                /\ product = old.product /\ question = old.question /\ force = old.force
                /\ todo = old.todo \ {l}
    BY DEF Thread
  <2>0. PICK bundle : bundle = [old.bundle EXCEPT ![l] = content]
    OBVIOUS
  <2>1. PICK new : new = Gather(product, question, force, todo, bundle)
    OBVIOUS
  <2>2. threads' = [threads EXCEPT ![t] = new]
    BY <1>2, <2>9, <2>0, <2>1 DEF Collect, TypeOK
  <2>3. old.bundle \in [Lists -> 0..MaxVersion]
    BY DEF Thread
  <2>4. bundle \in [Lists -> 0..MaxVersion] /\ bundle[l] # 0
    BY <2>0, <2>3, Constants
  <2>5. bundle # NoBundle
    BY <2>4 DEF NoBundle
  <2>6. \A m \in Lists : bundle[m] = IF m = l THEN content ELSE old.bundle[m]
    BY <2>0, <2>3
  <2>7. /\ new \in Thread /\ new.pc \in {"check", "lookup"} /\ new.bundle = bundle
        /\ new.pc = "check" => new.todo # {}
        /\ new.pc = "lookup" => new.todo = {} /\ new.bundle # NoBundle
    <3>1. /\ product \in Products /\ question \in Questions /\ force \in BOOLEAN
          /\ todo \in SUBSET Lists
          /\ bundle \in [Lists -> 0..MaxVersion]
      BY <2>9, <2>4
    <3>2. todo = {} => bundle # NoBundle
      BY <2>5
    <3>3. new = Gather(product, question, force, todo, bundle) /\ l \in Lists
      BY <2>1
    <3> QED
      BY ONLY <3>1, <3>2, <3>3, GatherMove
  <2>8. \A st : Grounded(new, st)
    BY <2>7 DEF Grounded
  <2> QED
    BY <2>2, <2>6, <2>7, <2>8
<1> QED
  BY <1>1, <1>2

\* A thread that is neither idle nor dead has locals.
LEMMA Working ==
    ASSUME TypeOK, NEW t \in Threads, threads[t].pc \notin {"idle", "dead"}
    PROVE  threads[t] \in Thread /\ List(t) \in Lists
BY DEF TypeOK, Thread, Idle, Dead, List
-----------------------------------------------------------------------------
(* The steps that change one thread's locals only *)

LEMMA IdleKeeps ==
    ASSUME IInv, NEW t \in Threads, threads[t].pc \notin Importers,
           threads' = [threads EXCEPT ![t] = Idle], answers' \subseteq prepared,
           UNCHANGED <<published, status, index, prepared, failures, disturbed>>
    PROVE  IInv'
<1>1. /\ Idle \in {Idle, Dead} \cup Thread /\ Grounded(Idle, status) /\ Idle.pc = "idle"
      /\ Faithful(Idle, status, index, threads)
  BY DEF Grounded, Idle, Faithful
<1>2. disturbed' \in BOOLEAN
  BY DEF IInv, TypeOK
<1>3. Idle.pc \notin Importers /\ Idle.pc # "decide"
  BY <1>1 DEF Importers
<1> QED
  BY <1>1, <1>2, <1>3, LocalMove

LEMMA RequestKeeps ==
    ASSUME IInv, NEW t \in Threads, Refresh(t) \/ Request(t)
    PROVE  IInv'
<1>0. PICK product \in Products, question \in Questions, force \in BOOLEAN, todo \in SUBSET Lists :
         /\ todo # {}
         /\ threads' = [threads EXCEPT ![t] = Gather(product, question, force, todo, NoBundle)]
  <2>1. CASE Refresh(t)
    <3>1. PICK question \in Questions : question = CHOOSE q \in Questions : TRUE
      BY Constants
    <3>2. PICK l \in Lists, force \in BOOLEAN : threads' = [threads EXCEPT ![t] =
              Gather("refresh", question, force, {l}, NoBundle)]
      BY <2>1, <3>1 DEF Refresh
    <3>3. {l} \in SUBSET Lists /\ {l} # {} /\ "refresh" \in Products
      BY DEF Products
    <3> QED
      BY <3>2, <3>3
  <2>2. CASE Request(t)
    <3>1. PICK product \in {"exact", "preflight"}, question \in Questions :
             threads' = [threads EXCEPT ![t] =
                 Gather(product, question, FALSE, Names[question], NoBundle)]
      BY <2>2 DEF Request
    <3>2. product \in Products /\ FALSE \in BOOLEAN
          /\ Names[question] \in SUBSET Lists /\ Names[question] # {}
      BY Constants DEF Products
    <3> QED
      BY <3>1, <3>2
  <2> QED
    BY <2>1, <2>2
<1>1. PICK new : /\ todo # {} /\ new = Gather(product, question, force, todo, NoBundle)
                 /\ threads' = [threads EXCEPT ![t] = new]
  BY <1>0
<1>2. PICK some \in Lists : some \in todo
  BY <1>1
<1>3. /\ new \in Thread /\ new.pc \in {"check", "lookup"} /\ new.bundle = NoBundle
      /\ new.pc = "check" => new.todo # {}
      /\ new.pc = "lookup" => new.todo = {} /\ new.bundle # NoBundle
  BY <1>1, <1>2, GatherMove, Constants
<1>7. Grounded(new, status)
  BY <1>3 DEF Grounded
<1>4. Faithful(new, status, index, threads)
  BY <1>3 DEF Faithful, Filed, NoBundle
<1>5. /\ UNCHANGED <<published, status, index, prepared, failures, disturbed>>
      /\ threads[t].pc = "idle" /\ answers' \subseteq prepared
  BY DEF Refresh, Request, At, IInv, AnswersStored
<1>6. disturbed' \in BOOLEAN /\ threads[t].pc \notin Importers
      /\ new.pc \notin Importers /\ new.pc # "decide"
  BY <1>3, <1>5 DEF IInv, TypeOK, Importers
<1> QED
  BY <1>1, <1>3, <1>4, <1>5, <1>6, <1>7, LocalMove

\* A snapshot of list l is had from what the thread holds or from what is current.
LEMMA CollectKeeps ==
    ASSUME IInv, NEW t \in Threads, threads[t].pc \in {"check", "head", "get", "marked"},
           NEW l \in Lists, NEW content \in Versions, Collect(t, l, content),
           Undisturbed => Filed(l, content, index, threads),
           UNCHANGED <<published, status, index, prepared, failures, disturbed, answers>>
    PROVE  IInv'
<1>1. TypeOK /\ threads[t] \in Thread
  BY Working DEF IInv
<1>2. PICK new \in {Idle, Dead} \cup Thread :
         /\ threads' = [threads EXCEPT ![t] = new]
         /\ \A st : Grounded(new, st)
         /\ new.pc \in {"idle", "check", "lookup"}
         /\ new.pc # "idle" => \A m \in Lists :
                new.bundle[m] = IF m = l THEN content ELSE threads[t].bundle[m]
  BY <1>1, CollectMove
<1>3. disturbed' \in BOOLEAN /\ threads[t].pc \notin Importers
      /\ new.pc \notin Importers /\ new.pc # "decide" /\ answers' \subseteq prepared
  BY <1>1, <1>2 DEF TypeOK, Importers, IInv, AnswersStored
<1>4. ASSUME Undisturbed PROVE Faithful(new, status, index, threads)
  <2>1. \A m \in Lists : Filed(m, threads[t].bundle[m], index, threads)
    BY <1>4 DEF Undisturbed, Faithful
  <2> QED
    BY <1>2, <1>4, <2>1 DEF Faithful
<1> QED
  BY <1>2, <1>3, <1>4, LocalMove

LEMMA CheckKeeps ==
    ASSUME IInv, NEW t \in Threads, Check(t)
    PROVE  IInv'
<1>1. TypeOK /\ threads[t] \in Thread /\ threads[t].pc = "check"
  BY Working DEF IInv, Check, At
<1>2. UNCHANGED <<published, status, index, prepared, failures, disturbed, answers>>
  BY DEF Check
<1>3. PICK l \in Lists :
         \/ status[l].fresh /\ Collect(t, l, status[l].content)
         \/ threads' = [threads EXCEPT ![t] =
                           [@ EXCEPT !.pc = "head", !.list = l, !.seen = status[l]]]
  BY <1>1 DEF Check, Thread
<1>4. status[l] \in Row /\ (status[l].version # 0 \/ status[l].fresh => status[l].content # 0)
  BY <1>1 DEF IInv, TypeOK, AllGrounded, Row
<1>5. CASE status[l].fresh /\ Collect(t, l, status[l].content)
  <2>1. status[l].content \in Versions
    BY <1>4, <1>5, Constants DEF Row
  <2>2. Undisturbed => Filed(l, status[l].content, index, threads)
    BY DEF Undisturbed
  <2> QED
    BY <1>1, <1>2, <1>5, <2>1, <2>2, CollectKeeps
<1>6. CASE threads' = [threads EXCEPT ![t] =
                          [@ EXCEPT !.pc = "head", !.list = l, !.seen = status[l]]]
  <2>1. PICK old \in Thread : old = threads[t]
    BY <1>1
  <2>2. PICK new : new = [old EXCEPT !.pc = "head", !.list = l, !.seen = status[l]]
    OBVIOUS
  <2>3. threads' = [threads EXCEPT ![t] = new]
    BY <1>1, <1>6, <2>1, <2>2 DEF TypeOK
  <2>4. new \in Thread /\ new.pc = "head" /\ new.list = l /\ new.seen = status[l]
        /\ new.bundle = old.bundle
    BY <1>4, <2>2 DEF Thread, Row
  <2>5. Grounded(new, status)
    BY <1>4, <2>4 DEF Grounded
  <2>6. Undisturbed => Faithful(new, status, index, threads)
    <3>1. Undisturbed => /\ Faithful(old, status, index, threads)
                         /\ Filed(l, status[l].content, index, threads)
      BY <2>1 DEF Undisturbed
    <3> QED
      BY <1>1, <2>1, <2>4, <3>1 DEF Faithful
  <2>7. disturbed' \in BOOLEAN /\ threads[t].pc \notin Importers
        /\ new.pc \notin Importers /\ new.pc # "decide" /\ answers' \subseteq prepared
    BY <1>1, <1>2, <2>4 DEF TypeOK, Importers, IInv, AnswersStored
  <2> QED
    BY <1>2, <2>3, <2>4, <2>5, <2>6, <2>7, LocalMove
<1> QED
  BY <1>3, <1>5, <1>6

LEMMA HeadKeeps ==
    ASSUME IInv, NEW t \in Threads, Head(t)
    PROVE  IInv'
<1>1. TypeOK /\ threads[t].pc = "head"
  BY DEF IInv, Head, At
<1>2. PICK old \in Thread : old = threads[t]
  BY <1>1, Working
<1>3. PICK version \in Versions, pc \in {"mark", "get"} :
         /\ pc = "mark" => old.seen.version = version
         /\ threads' = [threads EXCEPT ![t] = [old EXCEPT !.head = version, !.pc = pc]]
  <2>1. published[List(t)] \in Versions
    BY <1>1, Working DEF TypeOK
  <2> QED
    BY <1>1, <1>2, <2>1 DEF Head, UpToDate, TypeOK
<1>4. PICK new : new = [old EXCEPT !.head = version, !.pc = pc]
  OBVIOUS
<1>5. new \in Thread /\ new.pc = pc /\ new.list = old.list /\ new.seen = old.seen
      /\ new.bundle = old.bundle
  BY <1>3, <1>4, Constants DEF Thread
<1>6. Grounded(old, status)
  BY <1>2 DEF IInv, AllGrounded
<1>7. Grounded(new, status)
  BY <1>1, <1>2, <1>3, <1>5, <1>6, Constants DEF Grounded
<1>8. Undisturbed => Faithful(new, status, index, threads)
  <2>1. Undisturbed => Faithful(old, status, index, threads)
    BY <1>2 DEF Undisturbed
  <2> QED
    BY <1>1, <1>2, <1>3, <1>5, <2>1 DEF Faithful
<1>9. /\ UNCHANGED <<published, status, index, prepared, failures, disturbed>>
      /\ disturbed' \in BOOLEAN /\ threads[t].pc \notin Importers
      /\ new.pc \notin Importers /\ new.pc # "decide" /\ answers' \subseteq prepared
  BY <1>1, <1>3, <1>5 DEF Head, TypeOK, Importers, IInv, AnswersStored
<1> QED
  BY <1>3, <1>4, <1>5, <1>7, <1>8, <1>9, LocalMove

LEMMA GetKeeps ==
    ASSUME IInv, NEW t \in Threads, Get(t)
    PROVE  IInv'
<1>1. TypeOK /\ threads[t].pc = "get"
  BY DEF IInv, Get, At
<1>2. PICK old \in Thread : old = threads[t]
  BY <1>1, Working
<1>3. PICK body \in Versions :
         threads' = [threads EXCEPT ![t] =
             [old EXCEPT !.pc = "store", !.body = body, !.seen = NoStatus]]
  BY <1>1, <1>2, Working DEF Get, TypeOK
<1>4. PICK new : new = [old EXCEPT !.pc = "store", !.body = body, !.seen = NoStatus]
  OBVIOUS
<1>5. new \in Thread /\ new.pc = "store" /\ new.body = body /\ new.bundle = old.bundle
  BY <1>3, <1>4, Constants DEF Thread, Row
<1>6. Grounded(new, status)
  BY <1>3, <1>5, Constants DEF Grounded
<1>7. Undisturbed => Faithful(new, status, index, threads)
  <2>1. Undisturbed => Faithful(old, status, index, threads)
    BY <1>2 DEF Undisturbed
  <2> QED
    BY <1>1, <1>2, <1>5, <2>1 DEF Faithful
<1>8. /\ UNCHANGED <<published, status, index, prepared, failures, disturbed>>
      /\ disturbed' \in BOOLEAN /\ threads[t].pc \notin Importers
      /\ new.pc \notin Importers /\ new.pc # "decide" /\ answers' \subseteq prepared
  BY <1>1, <1>3, <1>5 DEF Get, TypeOK, Importers, IInv, AnswersStored
<1> QED
  BY <1>3, <1>4, <1>5, <1>6, <1>7, <1>8, LocalMove

LEMMA ReadBackKeeps ==
    ASSUME IInv, NEW t \in Threads, ReadBack(t)
    PROVE  IInv'
<1>1. TypeOK /\ threads[t].pc = "readback" /\ List(t) \in Lists
  BY Working DEF IInv, ReadBack, At
<1>2. PICK old \in Thread : old = threads[t]
  BY <1>1, Working
<1>3. PICK filed \in Versions :
         /\ filed = status[old.list].content
         /\ threads' = [threads EXCEPT ![t] = [old EXCEPT !.pc = "index", !.filed = filed]]
  <2>1. status[List(t)].content # 0
    BY <1>1 DEF IInv, AllGrounded, Grounded, List
  <2>2. status[List(t)].content \in Versions
    BY <1>1, <2>1, Constants DEF TypeOK
  <2> QED
    BY <1>1, <1>2, <2>2 DEF ReadBack, TypeOK, List
<1>4. PICK new : new = [old EXCEPT !.pc = "index", !.filed = filed]
  OBVIOUS
<1>5. new \in Thread /\ new.pc = "index" /\ new.filed = filed /\ new.bundle = old.bundle
      /\ new.body = old.body /\ new.list = old.list
  BY <1>3, <1>4, Constants DEF Thread
<1>6. Grounded(new, status)
  <2>1. old.body # 0
    BY <1>1, <1>2 DEF IInv, AllGrounded, Grounded
  <2> QED
    BY <1>3, <1>5, <2>1, Constants DEF Grounded
<1>7. Undisturbed => Faithful(new, status, index, threads)
  <2>1. Undisturbed => Faithful(old, status, index, threads)
    BY <1>2 DEF Undisturbed
  <2> QED
    BY <1>1, <1>2, <1>3, <1>5, <2>1 DEF Faithful
<1>8. /\ UNCHANGED <<published, status, index, prepared, failures, disturbed>>
      /\ disturbed' \in BOOLEAN /\ threads[t].pc \in Importers /\ new.pc \in Importers
      /\ new.list = List(t) /\ new.body = threads[t].body /\ new.pc # "decide"
      /\ answers' \subseteq prepared
  BY <1>1, <1>2, <1>5 DEF ReadBack, TypeOK, Importers, List, IInv, AnswersStored
<1> QED
  BY <1>3, <1>4, <1>5, <1>6, <1>7, <1>8, LocalMove

LEMMA UnavailableKeeps ==
    ASSUME IInv, NEW t \in Threads, Unavailable(t)
    PROVE  IInv'
BY IdleKeeps DEF Unavailable, Importers, IInv, AnswersStored

LEMMA FallBackKeeps ==
    ASSUME IInv, NEW t \in Threads, FallBack(t)
    PROVE  IInv'
<1>1. /\ TypeOK /\ threads[t].pc \in {"head", "get"} /\ threads[t].seen.fresh
      /\ Collect(t, List(t), threads[t].seen.content)
      /\ UNCHANGED <<published, status, index, prepared, failures, disturbed, answers>>
  BY DEF IInv, FallBack
<1>2. threads[t] \in Thread /\ List(t) \in Lists
  BY <1>1, Working
<1>3. threads[t].seen.content # 0
  BY <1>1 DEF IInv, AllGrounded, Grounded
<1>4. threads[t].seen.content \in Versions
  BY <1>2, <1>3, Constants DEF Thread
<1>5. Undisturbed => Filed(List(t), threads[t].seen.content, index, threads)
  BY <1>1 DEF Undisturbed, Faithful, List
<1> QED
  BY <1>1, <1>2, <1>4, <1>5, CollectKeeps

LEMMA MarkedKeeps ==
    ASSUME IInv, NEW t \in Threads, Marked(t)
    PROVE  IInv'
<1>1. /\ TypeOK /\ threads[t].pc = "marked"
      /\ Collect(t, List(t), status[List(t)].content)
      /\ UNCHANGED <<published, status, index, prepared, failures, disturbed, answers>>
  BY DEF IInv, Marked, At
<1>2. threads[t] \in Thread /\ List(t) \in Lists
  BY <1>1, Working
<1>3. status[List(t)].content # 0
  BY <1>1 DEF IInv, AllGrounded, Grounded, List
<1>4. status[List(t)].content \in Versions
  BY <1>1, <1>2, <1>3, Constants DEF TypeOK
<1>5. Undisturbed => Filed(List(t), status[List(t)].content, index, threads)
  BY <1>2 DEF Undisturbed
<1> QED
  BY <1>1, <1>2, <1>4, <1>5, CollectKeeps

LEMMA LookupKeeps ==
    ASSUME IInv, NEW t \in Threads, Lookup(t)
    PROVE  IInv'
<1>1. TypeOK /\ threads[t].pc = "lookup"
      /\ UNCHANGED <<published, status, index, prepared, failures>>
  BY DEF IInv, Lookup, At
<1>2. PICK old \in Thread : old = threads[t]
  BY <1>1, Working
<1>3. old.todo = {} /\ old.bundle # NoBundle
  BY <1>1, <1>2 DEF TypeOK
<1>4. Undisturbed => Faithful(old, status, index, threads)
  BY <1>2 DEF Undisturbed
<1> DEFINE subject == Subject[old.question]
           hits == {l \in Lists : old.bundle[l] # 0 /\ Matches(l, old.bundle[l], subject)}
<1>5. ASSUME NEW r \in Cached(t), Matched(t, r.matched), UNCHANGED disturbed
      PROVE  IInv'
  <2>1. /\ r \in prepared /\ r.product = "exact" /\ r.question = old.question
        /\ r.bundle = old.bundle /\ r.matched \in SUBSET Lists /\ r = Stored("exact", t, r.matched)
    BY <1>1, <1>2, <1>5 DEF Cached, SameKey, Stored, TypeOK, Result
  <2>2. CASE old.product = "exact"
    <3>1. threads' = [threads EXCEPT ![t] = Idle] /\ answers' \subseteq prepared
      BY <1>1, <1>2, <1>5, <2>1, <2>2 DEF Matched, TypeOK, IInv, AnswersStored
    <3> QED
      BY <1>1, <1>5, <3>1, IdleKeeps DEF Importers
  <2>3. CASE old.product # "exact"
    <3>1. PICK new : new = [old EXCEPT !.pc = "decide", !.matched = r.matched]
      OBVIOUS
    <3>2. threads' = [threads EXCEPT ![t] = new] /\ answers' \subseteq prepared
      BY <1>1, <1>2, <1>5, <2>3, <3>1 DEF Matched, TypeOK, IInv, AnswersStored
    <3>3. new \in Thread /\ new.pc = "decide" /\ new.question = old.question
          /\ new.bundle = old.bundle /\ new.matched = r.matched /\ new.todo = old.todo
      BY <2>1, <3>1 DEF Thread
    <3>4. Grounded(new, status) /\ Repeats(new, r)
      BY <1>3, <2>1, <3>3 DEF Grounded, Repeats
    <3>5. Undisturbed => Faithful(new, status, index, threads)
      <4>1. Undisturbed => r.matched = Truth(r.bundle, Subject[r.question])
        BY <2>1 DEF Undisturbed
      <4> QED
        BY <1>1, <1>2, <1>4, <2>1, <3>3, <4>1 DEF Faithful
    <3>6. disturbed' \in BOOLEAN /\ threads[t].pc \notin Importers /\ new.pc \notin Importers
      BY <1>1, <1>5, <3>3 DEF TypeOK, Importers
    <3> QED
      BY <1>1, <1>5, <2>1, <3>2, <3>3, <3>4, <3>5, <3>6, LocalMove
  <2> QED
    BY <2>2, <2>3
<1>6. ASSUME threads' = [threads EXCEPT ![t] = [@ EXCEPT !.pc = "persist", !.matched = hits]],
             disturbed' = (disturbed \/
                 \E l \in Lists : old.bundle[l] # 0 /\ Importing(l) # {}),
             UNCHANGED answers
      PROVE  IInv'
  <2>1. PICK matched \in SUBSET Lists : matched = hits
    OBVIOUS
  <2>2. PICK new : new = [old EXCEPT !.pc = "persist", !.matched = matched]
    OBVIOUS
  <2>3. threads' = [threads EXCEPT ![t] = new]
    BY <1>1, <1>2, <1>6, <2>1, <2>2 DEF TypeOK
  <2>4. new \in Thread /\ new.pc = "persist" /\ new.question = old.question
        /\ new.bundle = old.bundle /\ new.matched = matched /\ new.todo = old.todo
    BY <2>1, <2>2 DEF Thread
  <2>5. Grounded(new, status)
    BY <1>3, <2>4 DEF Grounded
  <2>6. ASSUME ~disturbed', Undisturbed PROVE Faithful(new, status, index, threads)
    <3>1. \A l \in Lists : old.bundle[l] # 0 => <<l, old.bundle[l], old.bundle[l]>> \in index
      <4> SUFFICES ASSUME NEW l \in Lists, old.bundle[l] # 0
                   PROVE  <<l, old.bundle[l], old.bundle[l]>> \in index
        OBVIOUS
      <4>1. Filed(l, old.bundle[l], index, threads)
        BY <1>1, <1>2, <1>4, <2>6 DEF Faithful
      <4>2. Importing(l) = {}
        BY <1>6, <2>6
      <4> QED
        BY <4>1, <4>2 DEF Filed, Importing, Importers, List
    <3>2. \A row \in index : row[2] = row[3]
      BY <2>6 DEF Undisturbed
    <3>3. matched = Truth(old.bundle, Subject[old.question])
      BY <2>1, <3>1, <3>2 DEF Truth, Matches
    <3> QED
      BY <1>1, <1>2, <1>4, <2>4, <2>6, <3>3 DEF Faithful
  <2>7. /\ disturbed' \in BOOLEAN /\ threads[t].pc \notin Importers
        /\ disturbed => disturbed'
        /\ new.pc \notin Importers /\ new.pc # "decide" /\ answers' \subseteq prepared
    BY <1>1, <1>6, <2>4 DEF TypeOK, Importers, IInv, AnswersStored
  <2> QED
    BY <1>1, <2>3, <2>4, <2>5, <2>6, <2>7, LocalMove
<1> QED
  BY <1>2, <1>5, <1>6 DEF Lookup
-----------------------------------------------------------------------------
(* The steps that write source_status or the index *)

LEMMA MarkKeeps ==
    ASSUME IInv, NEW t \in Threads, Mark(t)
    PROVE  IInv'
<1>1. TypeOK /\ threads[t].pc = "mark" /\ List(t) \in Lists
      /\ UNCHANGED <<published, index, prepared, failures, disturbed, answers>>
  BY Working DEF IInv, Mark, At
<1>2. PICK old \in Thread : old = threads[t]
  BY <1>1, Working
<1>3. PICK new : new = [old EXCEPT !.pc = "marked"]
  OBVIOUS
<1>4. threads' = [threads EXCEPT ![t] = new]
  BY <1>1, <1>2, <1>3 DEF Mark, TypeOK
<1>5. new \in Thread /\ new.pc = "marked" /\ new.list = old.list /\ new.bundle = old.bundle
  BY <1>3 DEF Thread
<1>6. status[List(t)].content # 0
  BY <1>1, <1>2 DEF IInv, AllGrounded, Grounded, List
<1>7. PICK row : row = [status[List(t)] EXCEPT !.version = old.head, !.fresh = TRUE]
  OBVIOUS
<1>8. row \in Row /\ row.content = status[List(t)].content
  BY <1>1, <1>7 DEF TypeOK, Row, Thread
<1>9. status' = [status EXCEPT ![List(t)] = row]
  BY <1>1, <1>2, <1>7 DEF Mark, TypeOK
<1>10. /\ status' \in [Lists -> Row]
       /\ \A l \in Lists : status'[l].content = status[l].content
       /\ \A l \in Lists : status'[l].version # 0 \/ status'[l].fresh \/ status[l].content # 0
              => status'[l].content # 0
  BY <1>1, <1>6, <1>8, <1>9 DEF IInv, AllGrounded, TypeOK, Row
<1>11. Grounded(new, status')
  BY <1>1, <1>2, <1>5, <1>6, <1>10 DEF Grounded, List
<1>12. /\ failures' \in 0..MaxFailures /\ disturbed' \in BOOLEAN /\ prepared' \subseteq Result
       /\ index' \subseteq Lists \X Versions \X Versions /\ published' = published
       /\ answers' \subseteq prepared'
  BY <1>1 DEF TypeOK, IInv, AnswersStored
<1>13. TypeOK' /\ AllGrounded' /\ AnswersStored'
  BY <1>4, <1>5, <1>10, <1>11, <1>12, Move
<1>14. KeysUnique' /\ DecidedOnExact' /\ PreflightAgrees'
  BY <1>1, <1>4, <1>5, PreparedKept
<1>15. ASSUME ~disturbed' PROVE Undisturbed'
  <2>1. Undisturbed
    BY <1>1, <1>15 DEF IInv
  <2>2. \A m \in Lists : Filed(m, old.bundle[m], index, threads)
    BY <1>1, <1>2, <2>1 DEF Undisturbed, Faithful
  <2>3. \A u \in Threads : threads[u].pc \in Importers => threads'[u] = threads[u]
    BY <1>1, <1>4 DEF TypeOK, Importers
  <2>4. \A m \in Lists : Filed(m, new.bundle[m], index', threads')
    BY <1>1, <1>5, <2>2, <2>3 DEF Filed
  <2>5. Faithful(new, status', index', threads')
    BY <1>5, <2>4 DEF Faithful
  <2>6. \A u \in Threads \ {t} : threads[u].pc = "readback" =>
           status'[List(u)].content = status[List(u)].content
    BY <1>1, <1>10, Working
  <2>7. threads[t].pc \notin Importers /\ new.pc \notin Importers
    BY <1>1, <1>5 DEF Importers
  <2>8. (\A row2 \in index' : row2[2] = row2[3])
        /\ \A r \in prepared' : r.matched = Truth(r.bundle, Subject[r.question])
    BY <1>1, <2>1 DEF Undisturbed
  <2> QED
    BY <1>1, <1>4, <1>10, <2>1, <2>5, <2>6, <2>7, <2>8, FaithfulMove
<1> QED
  BY <1>13, <1>14, <1>15 DEF IInv

LEMMA StoreKeeps ==
    ASSUME IInv, NEW t \in Threads, Store(t)
    PROVE  IInv'
<1>1. TypeOK /\ threads[t].pc = "store" /\ List(t) \in Lists
      /\ UNCHANGED <<published, index, prepared, failures, answers>>
  BY Working DEF IInv, Store, At
<1>2. PICK old \in Thread : old = threads[t]
  BY <1>1, Working
<1>3. PICK new : new = [old EXCEPT !.pc = "readback"]
  OBVIOUS
<1>4. threads' = [threads EXCEPT ![t] = new]
  BY <1>1, <1>2, <1>3 DEF Store, TypeOK
<1>5. new \in Thread /\ new.pc = "readback" /\ new.list = old.list /\ new.bundle = old.bundle
      /\ new.body = old.body
  BY <1>3 DEF Thread
<1>6. old.body # 0
  BY <1>1, <1>2 DEF IInv, AllGrounded, Grounded
<1>7. PICK row : row = [content |-> old.body, version |-> old.head, fresh |-> TRUE]
  OBVIOUS
<1>8. row \in Row /\ row.content = old.body
  BY <1>7 DEF Row, Thread
<1>9. status' = [status EXCEPT ![List(t)] = row]
  BY <1>2, <1>7 DEF Store
<1>10. /\ status' \in [Lists -> Row] /\ status'[old.list].content = old.body
       /\ \A l \in Lists : l # old.list => status'[l] = status[l]
       /\ \A l \in Lists : status'[l].version # 0 \/ status'[l].fresh \/ status[l].content # 0
              => status'[l].content # 0
  BY <1>1, <1>2, <1>6, <1>8, <1>9 DEF IInv, AllGrounded, TypeOK, Row, List
<1>11. Grounded(new, status')
  BY <1>5, <1>6, <1>10 DEF Grounded
<1>12. /\ failures' \in 0..MaxFailures /\ disturbed' \in BOOLEAN /\ prepared' \subseteq Result
       /\ index' \subseteq Lists \X Versions \X Versions /\ published' = published
       /\ answers' \subseteq prepared'
  BY <1>1 DEF TypeOK, Store, IInv, AnswersStored
<1>13. TypeOK' /\ AllGrounded' /\ AnswersStored'
  BY <1>4, <1>5, <1>10, <1>11, <1>12, Move
<1>14. KeysUnique' /\ DecidedOnExact' /\ PreflightAgrees'
  BY <1>1, <1>4, <1>5, PreparedKept
<1>15. ASSUME ~disturbed' PROVE Undisturbed'
  <2>1. Undisturbed /\ Importing(old.list) = {}
    BY <1>1, <1>2, <1>15 DEF IInv, Store, List
  <2>2. \A m \in Lists : Filed(m, old.bundle[m], index, threads)
    BY <1>1, <1>2, <2>1 DEF Undisturbed, Faithful
  <2>3. \A u \in Threads : threads[u].pc \in Importers => threads'[u] = threads[u]
    BY <1>1, <1>4 DEF TypeOK, Importers
  <2>4. \A m \in Lists : Filed(m, new.bundle[m], index', threads')
    BY <1>1, <1>5, <2>2, <2>3 DEF Filed
  <2>5. Faithful(new, status', index', threads')
    BY <1>5, <1>10, <2>4 DEF Faithful
  <2>6. \A u \in Threads \ {t} : threads[u].pc = "readback" =>
           status'[List(u)].content = status[List(u)].content
    <3> SUFFICES ASSUME NEW u \in Threads \ {t}, threads[u].pc = "readback"
                 PROVE  status'[List(u)].content = status[List(u)].content
      OBVIOUS
    <3>1. List(u) \in Lists /\ List(u) # old.list
      BY <1>1, <2>1, Working DEF Importing
    <3> QED
      BY <1>10, <3>1
  <2>7. threads[t].pc \notin Importers /\ Importing(new.list) \subseteq {t}
    BY <1>1, <1>5, <2>1 DEF Importers
  <2>8. (\A entry \in index' : entry[2] = entry[3])
        /\ \A r \in prepared' : r.matched = Truth(r.bundle, Subject[r.question])
    BY <1>1, <2>1 DEF Undisturbed
  <2>9. \A l \in Lists : status'[l].content # status[l].content =>
            Filed(l, status'[l].content, index', threads')
    <3> SUFFICES ASSUME NEW l \in Lists, l = old.list
                 PROVE  Filed(l, old.body, index', threads')
      BY <1>10
    <3>1. threads'[t] = new
      BY <1>1, <1>4 DEF TypeOK
    <3> QED
      BY <1>5, <3>1 DEF Filed, Importers
  <2> QED
    BY <1>1, <1>4, <2>1, <2>5, <2>6, <2>7, <2>8, <2>9, FaithfulMove
<1> QED
  BY <1>13, <1>14, <1>15 DEF IInv

LEMMA IndexKeeps ==
    ASSUME IInv, NEW t \in Threads, Index(t)
    PROVE  IInv'
<1>1. TypeOK /\ threads[t].pc = "index" /\ List(t) \in Lists
      /\ UNCHANGED <<published, status, prepared, failures, disturbed, answers>>
      /\ Collect(t, List(t), threads[t].filed)
  BY Working DEF IInv, Index, At
<1>2. PICK old \in Thread : old = threads[t]
  BY <1>1, Working
<1>3. old.filed \in Versions /\ old.body \in Versions /\ old.list \in Lists
  <2>1. old.filed # 0 /\ old.body # 0
    BY <1>1, <1>2 DEF IInv, AllGrounded, Grounded
  <2> QED
    BY <2>1, Constants DEF Thread
<1>4. PICK new \in {Idle, Dead} \cup Thread :
         /\ threads' = [threads EXCEPT ![t] = new]
         /\ \A st : Grounded(new, st)
         /\ new.pc \in {"idle", "check", "lookup"}
         /\ new.pc # "idle" => \A m \in Lists :
                new.bundle[m] = IF m = old.list THEN old.filed ELSE old.bundle[m]
  <2>1. PICK l \in Lists, content \in Versions : l = old.list /\ content = old.filed
    BY <1>3
  <2>2. TypeOK /\ threads[t] \in Thread /\ Collect(t, l, content)
    BY <1>1, <1>2, <2>1 DEF List
  <2>3. \E new \in {Idle, Dead} \cup Thread :
           /\ threads' = [threads EXCEPT ![t] = new]
           /\ \A st : Grounded(new, st)
           /\ new.pc \in {"idle", "check", "lookup"}
           /\ new.pc # "idle" => \A m \in Lists :
                  new.bundle[m] = IF m = l THEN content ELSE threads[t].bundle[m]
    BY <2>2, CollectMove
  <2> QED
    BY <1>2, <2>1, <2>3
<1>5. index' = index \cup {<<old.list, old.filed, old.body>>}
  BY <1>2 DEF Index, List
<1>6. /\ failures' \in 0..MaxFailures /\ disturbed' \in BOOLEAN /\ prepared' \subseteq Result
      /\ index' \subseteq Lists \X Versions \X Versions /\ published' = published
      /\ status' \in [Lists -> Row]
      /\ \A l \in Lists : status'[l].version # 0 \/ status'[l].fresh \/ status[l].content # 0
             => status'[l].content # 0
      /\ answers' \subseteq prepared'
  BY <1>1, <1>3, <1>5 DEF TypeOK, IInv, AllGrounded, Row, AnswersStored
<1>7. TypeOK' /\ AllGrounded' /\ AnswersStored'
  BY <1>4, <1>6, Move
<1>8. KeysUnique' /\ DecidedOnExact' /\ PreflightAgrees'
  BY <1>1, <1>4, PreparedKept
<1>9. ASSUME ~disturbed' PROVE Undisturbed'
  <2>1. Undisturbed
    BY <1>1, <1>9 DEF IInv
  <2>2. old.filed = old.body /\ \A m \in Lists : Filed(m, old.bundle[m], index, threads)
    BY <1>1, <1>2, <2>1 DEF Undisturbed, Faithful
  <2>3. index \subseteq index' /\ <<old.list, old.body, old.body>> \in index'
    BY <1>5, <2>2
  <2>4. \A u \in Threads : threads[u].pc \in Importers =>
           \/ /\ threads'[u].pc \in Importers /\ threads'[u].list = threads[u].list
              /\ threads'[u].body = threads[u].body
           \/ <<threads[u].list, threads[u].body, threads[u].body>> \in index'
    BY <1>1, <1>2, <1>4, <2>3 DEF TypeOK
  <2>5. \A m \in Lists : Filed(m, old.bundle[m], index', threads')
    BY <2>2, <2>3, <2>4, FiledKept
  <2>6. Filed(old.list, old.filed, index', threads')
    BY <2>2, <2>3 DEF Filed
  <2>7. Faithful(new, status', index', threads')
    BY <1>4, <2>5, <2>6 DEF Faithful
  <2>8. new.pc \notin Importers /\ <<List(t), threads[t].body, threads[t].body>> \in index'
    BY <1>2, <1>4, <2>3 DEF Importers, List
  <2>9. (\A entry \in index' : entry[2] = entry[3])
        /\ \A r \in prepared' : r.matched = Truth(r.bundle, Subject[r.question])
    BY <1>1, <1>5, <2>1, <2>2 DEF Undisturbed
  <2> QED
    BY <1>1, <1>4, <2>1, <2>3, <2>7, <2>8, <2>9, FaithfulMove
<1> QED
  BY <1>7, <1>8, <1>9 DEF IInv
-----------------------------------------------------------------------------
(* The steps that store a result *)

\* A row of a result that is stored unless its key is there.
LEMMA InsertKeeps ==
    ASSUME IInv, NEW new \in Result, InsertOrIgnore(new)
    PROVE  /\ prepared \subseteq prepared' /\ prepared' \subseteq prepared \cup {new}
           /\ KeysUnique' /\ \E r \in prepared' : SameKey(r, new)
BY DEF IInv, KeysUnique, InsertOrIgnore, SameKey

LEMMA PersistKeeps ==
    ASSUME IInv, NEW t \in Threads, Persist(t)
    PROVE  IInv'
<1>1. TypeOK /\ threads[t].pc = "persist"
      /\ UNCHANGED <<published, status, index, failures, disturbed>>
  BY DEF IInv, Persist, At
<1>2. PICK old \in Thread : old = threads[t]
  BY <1>1, Working
<1>3. old.todo = {} /\ old.bundle # NoBundle
  BY <1>1, <1>2 DEF TypeOK
<1>4. PICK row : row = Stored("exact", t, threads[t].matched)
  OBVIOUS
<1>5. row \in Result /\ row.product = "exact" /\ row.question = old.question
      /\ row.bundle = old.bundle /\ row.matched = old.matched
  BY <1>2, <1>4 DEF Stored, Result, Thread, Products
<1>6. /\ prepared \subseteq prepared' /\ prepared' \subseteq prepared \cup {row}
      /\ KeysUnique' /\ \E r \in prepared' : SameKey(r, row)
  BY <1>4, <1>5, InsertKeeps DEF Persist
<1>7. PICK kept \in prepared' : SameKey(kept, row) /\ Matched(t, kept.matched)
  BY <1>4, <1>6 DEF Persist, ReadAgain
<1>8. prepared' \subseteq Result
  BY <1>1, <1>5, <1>6 DEF TypeOK
<1>9. kept.product = "exact" /\ kept.question = old.question /\ kept.bundle = old.bundle
      /\ kept.matched \in SUBSET Lists /\ kept = Stored("exact", t, kept.matched)
  BY <1>2, <1>5, <1>7, <1>8 DEF SameKey, Result, Stored
<1>10. PICK new \in {Idle, Dead} \cup Thread :
          /\ threads' = [threads EXCEPT ![t] = new]
          /\ \/ new = Idle
             \/ new = [old EXCEPT !.pc = "decide", !.matched = kept.matched]
  <2>1. CASE old.product = "exact"
    BY <1>1, <1>2, <1>7, <2>1 DEF Matched, TypeOK
  <2>2. CASE old.product # "exact"
    <3>1. PICK new : new = [old EXCEPT !.pc = "decide", !.matched = kept.matched]
      OBVIOUS
    <3>2. new \in Thread
      BY <1>9, <3>1 DEF Thread
    <3>3. threads' = [threads EXCEPT ![t] = new]
      BY <1>1, <1>2, <1>7, <2>2, <3>1 DEF Matched, TypeOK
    <3> QED
      BY <3>1, <3>2, <3>3
  <2> QED
    BY <2>1, <2>2
<1>11. \/ new.pc = "idle"
       \/ /\ new.pc = "decide" /\ new.question = old.question /\ new.bundle = old.bundle
          /\ new.matched = kept.matched /\ new.todo = old.todo
  <2>1. CASE new = Idle
    BY <2>1 DEF Idle
  <2>2. CASE new = [old EXCEPT !.pc = "decide", !.matched = kept.matched]
    BY <2>2 DEF Thread
  <2> QED
    BY <1>10, <2>1, <2>2
<1>12. Grounded(new, status')
  BY <1>3, <1>11 DEF Grounded
<1>13. TypeOK' /\ AllGrounded' /\ AnswersStored'
  <2>0. answers' \subseteq prepared'
    BY <1>6, <1>7, <1>9 DEF Matched, IInv, AnswersStored
  <2>1. /\ failures' \in 0..MaxFailures /\ disturbed' \in BOOLEAN
        /\ index' \subseteq Lists \X Versions \X Versions /\ published' = published
        /\ status' \in [Lists -> Row]
        /\ \A l \in Lists : status'[l].version # 0 \/ status'[l].fresh \/ status[l].content # 0
               => status'[l].content # 0
    BY <1>1 DEF TypeOK, IInv, AllGrounded, Row
  <2> QED
    BY <1>8, <1>10, <1>12, <2>0, <2>1, Move
<1>14. DecidedOnExact'
  <2> SUFFICES ASSUME NEW u \in Threads, threads'[u].pc = "decide"
               PROVE  \E q \in prepared' : Repeats(threads'[u], q)
    BY DEF DecidedOnExact
  <2>1. CASE u = t
    <3>1. threads'[u] = new
      BY <1>1, <1>10, <2>1 DEF TypeOK
    <3>2. Repeats(new, kept)
      BY <1>9, <1>11, <3>1 DEF Repeats
    <3> QED
      BY <3>1, <3>2
  <2>2. CASE u # t
    <3>1. threads'[u] = threads[u]
      BY <1>1, <1>10, <2>2 DEF TypeOK
    <3> QED
      BY <1>6, <3>1 DEF IInv, DecidedOnExact
  <2> QED
    BY <2>1, <2>2
<1>15. PreflightAgrees'
  BY <1>5, <1>6 DEF IInv, PreflightAgrees
<1>16. ASSUME ~disturbed' PROVE Undisturbed'
  <2>1. Undisturbed
    BY <1>1, <1>16 DEF IInv
  <2>2. old.matched = Truth(old.bundle, Subject[old.question])
        /\ \A m \in Lists : Filed(m, old.bundle[m], index, threads)
    BY <1>1, <1>2, <2>1 DEF Undisturbed, Faithful
  <2>3. \A r \in prepared' : r.matched = Truth(r.bundle, Subject[r.question])
    BY <1>5, <1>6, <2>1, <2>2 DEF Undisturbed
  <2>4. \A u \in Threads : threads[u].pc \in Importers => threads'[u] = threads[u]
    BY <1>1, <1>10 DEF TypeOK, Importers
  <2>5. \A m \in Lists : Filed(m, old.bundle[m], index', threads')
    BY <1>1, <2>2, <2>4 DEF Filed
  <2>6. kept.matched = Truth(old.bundle, Subject[old.question])
    BY <1>9, <2>3
  <2>7. Faithful(new, status', index', threads')
    BY <1>11, <2>5, <2>6 DEF Faithful
  <2>8. threads[t].pc \notin Importers /\ new.pc \notin Importers
    BY <1>1, <1>11 DEF Importers
  <2>9. \A entry \in index' : entry[2] = entry[3]
    BY <1>1, <2>1 DEF Undisturbed
  <2> QED
    BY <1>1, <1>10, <2>1, <2>3, <2>7, <2>8, <2>9, FaithfulMove
<1> QED
  BY <1>6, <1>13, <1>14, <1>15, <1>16 DEF IInv

LEMMA DecideKeeps ==
    ASSUME IInv, NEW t \in Threads, Decide(t)
    PROVE  IInv'
<1>1. TypeOK /\ threads[t].pc = "decide" /\ threads' = [threads EXCEPT ![t] = Idle]
      /\ UNCHANGED <<published, status, index, failures, disturbed>>
  BY DEF IInv, Decide, At
<1>2. PICK old \in Thread : old = threads[t]
  BY <1>1, Working
<1>3. PICK row : row = Stored("preflight", t, threads[t].matched)
  OBVIOUS
<1>4. row \in Result /\ row.product = "preflight" /\ row.question = old.question
      /\ row.bundle = old.bundle /\ row.matched = old.matched
  BY <1>2, <1>3 DEF Stored, Result, Thread, Products
<1>5. /\ prepared \subseteq prepared' /\ prepared' \subseteq prepared \cup {row}
      /\ KeysUnique' /\ answers' \subseteq prepared'
  BY <1>3, <1>4, InsertKeeps DEF Decide, ReadAgain, IInv, AnswersStored
<1>6. Idle.pc = "idle" /\ Idle \in {Idle, Dead} \cup Thread /\ Grounded(Idle, status')
      /\ Faithful(Idle, status', index', threads')
  BY DEF Idle, Grounded, Faithful
<1>7. TypeOK' /\ AllGrounded' /\ AnswersStored'
  <2>1. /\ failures' \in 0..MaxFailures /\ disturbed' \in BOOLEAN
        /\ index' \subseteq Lists \X Versions \X Versions /\ published' = published
        /\ status' \in [Lists -> Row] /\ prepared' \subseteq Result
        /\ \A l \in Lists : status'[l].version # 0 \/ status'[l].fresh \/ status[l].content # 0
               => status'[l].content # 0
    BY <1>1, <1>4, <1>5 DEF TypeOK, IInv, AllGrounded, Row
  <2> QED
    BY <1>1, <1>5, <1>6, <2>1, Move
<1>8. DecidedOnExact'
  BY <1>1, <1>5, <1>6 DEF IInv, DecidedOnExact, TypeOK
<1>9. PreflightAgrees'
  <2>1. PICK exact \in prepared : Repeats(old, exact)
    BY <1>1, <1>2 DEF IInv, DecidedOnExact
  <2> QED
    BY <1>4, <1>5, <2>1 DEF IInv, PreflightAgrees, Repeats
<1>10. ASSUME ~disturbed' PROVE Undisturbed'
  <2>1. Undisturbed
    BY <1>1, <1>10 DEF IInv
  <2>2. old.matched = Truth(old.bundle, Subject[old.question])
    BY <1>1, <1>2, <2>1 DEF Undisturbed, Faithful
  <2>3. \A r \in prepared' : r.matched = Truth(r.bundle, Subject[r.question])
    BY <1>4, <1>5, <2>1, <2>2 DEF Undisturbed
  <2>4. threads[t].pc \notin Importers /\ Idle.pc \notin Importers
    BY <1>1, <1>6 DEF Importers
  <2>5. \A entry \in index' : entry[2] = entry[3]
    BY <1>1, <2>1 DEF Undisturbed
  <2> QED
    BY <1>1, <1>6, <2>1, <2>3, <2>4, <2>5, FaithfulMove
<1> QED
  BY <1>5, <1>7, <1>8, <1>9, <1>10 DEF IInv
-----------------------------------------------------------------------------
(* The environment *)

LEMMA PublishKeeps ==
    ASSUME IInv, NEW l \in Lists, Publish(l)
    PROVE  IInv'
<1>1. /\ UNCHANGED <<status, index, prepared, threads, failures, disturbed, answers>>
      /\ published' \in [Lists -> Versions]
  BY Constants DEF IInv, Publish, TypeOK, Versions
<1> QED
  BY <1>1 DEF IInv, TypeOK, AllGrounded, KeysUnique, AnswersStored, DecidedOnExact,
              PreflightAgrees,
              Undisturbed, OneImporter

LEMMA ExpireKeeps ==
    ASSUME IInv, NEW l \in Lists, Expire(l)
    PROVE  IInv'
<1>1. /\ UNCHANGED <<published, index, prepared, threads, failures, disturbed, answers>>
      /\ status' = [status EXCEPT ![l].fresh = FALSE] /\ TypeOK
  BY DEF IInv, Expire
<1>2. /\ status' \in [Lists -> Row]
      /\ \A m \in Lists : /\ status'[m].content = status[m].content
                          /\ status'[m].version = status[m].version
                          /\ status'[m].fresh => status[m].fresh
  BY <1>1 DEF TypeOK, Row
<1>3. \A m \in Lists : status[m].content # 0 => status'[m].content # 0
  BY <1>2
<1>4. TypeOK' /\ KeysUnique' /\ AnswersStored' /\ DecidedOnExact' /\ PreflightAgrees'
  BY <1>1, <1>2 DEF IInv, TypeOK, Row, KeysUnique, AnswersStored, DecidedOnExact, PreflightAgrees
<1>5. AllGrounded'
  <2>1. \A u \in Threads : Grounded(threads[u], status')
    <3> TAKE u \in Threads
    <3>1. threads[u].pc \in {"idle", "dead"} \/ threads[u].list \in Lists
      BY <1>1, Working DEF List
    <3>2. Grounded(threads[u], status)
      BY DEF IInv, AllGrounded
    <3> QED
      BY <1>3, <3>1, <3>2, GroundedKept
  <2> QED
    BY <1>1, <1>2, <2>1 DEF IInv, AllGrounded
<1>6. ASSUME ~disturbed' PROVE Undisturbed'
  <2>1. Undisturbed
    BY <1>1, <1>6 DEF IInv
  <2>2. \A u \in Threads : Faithful(threads[u], status', index, threads)
    <3> TAKE u \in Threads
    <3>1. threads[u].pc \in {"idle", "dead"} \/ threads[u].list \in Lists
      BY <1>1, Working DEF List
    <3>2. Faithful(threads[u], status, index, threads)
      BY <2>1 DEF Undisturbed
    <3> QED
      BY <1>2, <3>1, <3>2 DEF Faithful
  <2>3. \A m \in Lists : Filed(m, status'[m].content, index, threads)
    BY <1>2, <2>1 DEF Undisturbed
  <2> QED
    BY <1>1, <2>1, <2>2, <2>3 DEF Undisturbed
<1> QED
  BY <1>4, <1>5, <1>6 DEF IInv

\* Threads that are stopped drop their locals; stopping an import disturbs.
LEMMA StopKeeps ==
    ASSUME IInv, NEW after \in [Threads -> {Idle, Dead} \cup Thread],
           \A u \in Threads : after[u] = threads[u] \/ after[u] \in {Idle, Dead},
           Stop(after)
    PROVE  IInv'
<1>1. /\ UNCHANGED <<published, status, index, prepared, answers>> /\ TypeOK
      /\ threads' = after /\ failures' \in 0..MaxFailures /\ disturbed' \in BOOLEAN
  BY Constants DEF IInv, Stop, TypeOK
<1>2. \A u \in Threads : after[u] = threads[u] \/ after[u].pc \in {"idle", "dead"}
  BY DEF Idle, Dead
<1>3. \A u \in Threads : Grounded(after[u], status)
  BY <1>2 DEF IInv, AllGrounded, Grounded
<1>4. TypeOK' /\ AllGrounded'
  BY <1>1, <1>2, <1>3 DEF TypeOK, IInv, AllGrounded
<1>5. KeysUnique' /\ AnswersStored' /\ DecidedOnExact' /\ PreflightAgrees'
  BY <1>1, <1>2 DEF IInv, KeysUnique, AnswersStored, DecidedOnExact, PreflightAgrees
<1>6. ASSUME ~disturbed' PROVE Undisturbed'
  <2>1. /\ ~disturbed
        /\ ~ \E l \in Lists : \E t \in Importing(l) : after[t] # threads[t]
    BY <1>6 DEF Stop
  <2>2. Undisturbed
    BY <2>1 DEF IInv
  <2>3. \A u \in Threads : threads[u].pc \in Importers => after[u] = threads[u]
    <3> SUFFICES ASSUME NEW u \in Threads, threads[u].pc \in Importers
                 PROVE  after[u] = threads[u]
      OBVIOUS
    <3>1. List(u) \in Lists
      BY <1>1, Working DEF Importers
    <3> QED
      BY <2>1, <3>1 DEF Importing, Importers
  <2>4. \A l, v : Filed(l, v, index, threads) => Filed(l, v, index, after)
    BY <2>3 DEF Filed
  <2>5. \A u \in Threads : Faithful(after[u], status, index, after)
    <3> TAKE u \in Threads
    <3>1. Faithful(threads[u], status, index, threads)
      BY <2>2 DEF Undisturbed
    <3> QED
      BY <1>2, <2>4, <3>1 DEF Faithful
  <2>6. OneImporter(after)
    <3>1. OneImporter(threads)
      BY <2>2 DEF Undisturbed
    <3> QED
      BY <1>2, <3>1 DEF OneImporter, Importers
  <2>7. \A l \in Lists : Filed(l, status[l].content, index, after)
    BY <2>2, <2>4 DEF Undisturbed
  <2> QED
    BY <1>1, <2>2, <2>5, <2>6, <2>7 DEF Undisturbed
<1> QED
  BY <1>4, <1>5, <1>6 DEF IInv

LEMMA RestartKeeps == ASSUME IInv, Restart PROVE IInv'
<1>1. PICK after : after = [t \in Threads |-> Idle]
  OBVIOUS
<1>2. /\ after \in [Threads -> {Idle, Dead} \cup Thread] /\ Stop(after)
      /\ \A u \in Threads : after[u] \in {Idle, Dead}
  BY <1>1 DEF Restart
<1> QED
  BY <1>2, StopKeeps

LEMMA DatabaseErrorKeeps ==
    ASSUME IInv, NEW t \in Threads, DatabaseError(t)
    PROVE  IInv'
<1>1. TypeOK
  BY DEF IInv
<1>2. PICK end \in {Idle, Dead} : Stop([threads EXCEPT ![t] = end])
  BY <1>1 DEF DatabaseError, TypeOK
<1>3. PICK after : after = [threads EXCEPT ![t] = end]
  OBVIOUS
<1>4. /\ after \in [Threads -> {Idle, Dead} \cup Thread] /\ Stop(after)
      /\ \A u \in Threads : after[u] = threads[u] \/ after[u] \in {Idle, Dead}
  BY <1>1, <1>2, <1>3 DEF TypeOK
<1> QED
  BY <1>4, StopKeeps
-----------------------------------------------------------------------------
(* The theorems *)

LEMMA IInvInit == Init => IInv
<1> SUFFICES ASSUME Init PROVE IInv
  OBVIOUS
<1>1. TypeOK
  <2>1. published \in [Lists -> Versions]
    BY Constants DEF Init, Versions
  <2>2. status \in [Lists -> Row] /\ \A l \in Lists : ~status[l].fresh
    BY Constants DEF Init, NoStatus
  <2>3. /\ threads \in [Threads -> {Idle, Dead} \cup Thread]
        /\ \A t \in Threads : threads[t].pc = "idle"
    <3>1. threads = [t \in Threads |-> Idle]
      BY DEF Init
    <3>2. Idle.pc = "idle"
      BY DEF Idle
    <3> QED
      BY <3>1, <3>2
  <2>4. index = {} /\ prepared = {} /\ failures = 0 /\ disturbed = FALSE /\ answers = {}
    BY DEF Init
  <2>5. failures \in 0..MaxFailures /\ disturbed \in BOOLEAN
    <3>1. 0 \in 0..MaxFailures
      BY ConstantsAssumption
    <3>2. FALSE \in BOOLEAN
      OBVIOUS
    <3> QED
      BY <2>4, <3>1, <3>2
  <2> QED
    BY <2>1, <2>2, <2>3, <2>4, <2>5 DEF TypeOK, Row
<1>2. AllGrounded /\ DecidedOnExact
  BY DEF Init, AllGrounded, Grounded, DecidedOnExact, NoStatus, Idle
<1>3. KeysUnique /\ AnswersStored /\ PreflightAgrees
  BY DEF Init, KeysUnique, AnswersStored, PreflightAgrees
<1>4. Undisturbed
  BY DEF Init, Undisturbed, Filed, Faithful, OneImporter, NoStatus, Idle, Importers
<1> QED
  BY <1>1, <1>2, <1>3, <1>4 DEF IInv

LEMMA IInvNext == IInv /\ [Next]_vars => IInv'
<1> SUFFICES ASSUME IInv, [Next]_vars PROVE IInv'
  OBVIOUS
<1>1. CASE \E t \in Threads : Refresh(t) \/ Request(t)
  BY <1>1, RequestKeeps
<1>2. CASE \E t \in Threads : Step(t)
  <2>1. PICK t \in Threads : Step(t)
    BY <1>2
  <2> QED
    BY <2>1, CheckKeeps, HeadKeeps, GetKeeps, UnavailableKeeps, FallBackKeeps, MarkKeeps,
       MarkedKeeps, StoreKeeps, ReadBackKeeps, IndexKeeps, LookupKeeps, PersistKeeps,
       DecideKeeps DEF Step
<1>3. CASE \E t \in Threads : DatabaseError(t)
  BY <1>3, DatabaseErrorKeeps
<1>4. CASE \E l \in Lists : Publish(l) \/ Expire(l)
  BY <1>4, PublishKeeps, ExpireKeeps
<1>5. CASE Restart
  BY <1>5, RestartKeeps
<1>6. CASE UNCHANGED vars
  BY <1>6 DEF vars, IInv, TypeOK, AllGrounded, KeysUnique, AnswersStored, DecidedOnExact,
              PreflightAgrees,
              Undisturbed, OneImporter
<1> QED
  BY <1>1, <1>2, <1>3, <1>4, <1>5, <1>6 DEF Next

\* The inductive invariant: what every thread relies on and, as long as nobody
\* acted on a list while it was being imported, that every file is filed under
\* its own hash.
THEOREM Invariance == Spec => []IInv
BY IInvInit, IInvNext, PTL DEF Spec

\* The state of the evidence service keeps its types; a list that was checked has
\* a file, and no answer looks up a bundle without one (refresh_ofac, prepare_ofac).
THEOREM TypeCorrect == Spec => []TypeOK
<1>1. IInv => TypeOK
  BY DEF IInv
<1> QED
  BY <1>1, Invariance, PTL

\* Undisturbed, every stored result says exactly what its files say, and the
\* current file of a list is indexed once its import has ended (import_ofac_file).
THEOREM ExactUnlessDisturbedTheorem == Spec => []ExactUnlessDisturbed
<1>1. IInv => ExactUnlessDisturbed
  BY DEF IInv, ExactUnlessDisturbed, Undisturbed, Filed, Importing, Importers, List
<1> QED
  BY <1>1, Invariance, PTL

\* The free decision agrees with the paid evidence stored for the question it
\* writes, over the same files (prepare_ofac_preflight).
THEOREM PreflightAgreesTheorem == Spec => []PreflightAgrees
<1>1. IInv => PreflightAgrees
  BY DEF IInv
<1> QED
  BY <1>1, Invariance, PTL

\* What was answered to a request over its files is answered to it again: only
\* stored rows are answered, and there is one for a request and its files
\* (_cached_prepared, _store_prepared).
THEOREM AnswersStableTheorem == Spec => []AnswersStable
<1>1. IInv => AnswersStable
  BY DEF IInv, AnswersStored, KeysUnique, AnswersStable
<1> QED
  BY <1>1, Invariance, PTL

=============================================================================
