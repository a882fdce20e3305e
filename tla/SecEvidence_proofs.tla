------------------------- MODULE SecEvidence_proofs -------------------------
(***************************************************************************)
(* What is told of an issuer's filings, for any threads, any ages, delays  *)
(* and limits, and any order in which the SEC lists more; and, at the end, *)
(* of the Form D filings that a client pages through (FormDSearch).        *)
(***************************************************************************)
EXTENDS SecEvidence, FormDSearch, FiniteSetTheorems, TLAPS

\* A filing is listed after its acceptance, within Lag.
Listing == \A i \in 1..Served : listed[i] <= now /\ listed[i] <= accepted[i] + Lag

\* n filings had at moment m: none is missing that was listed before m - Transit.
Complete(n, m) ==
    /\ n \in 0..Served
    /\ \A i \in 1..Served : listed[i] + Transit < m => i <= n

\* What is current was complete when it was checked, what is stored when it was
\* first had.
Source ==
    /\ status = NoStatus \/ status.content # None
    /\ status.content # None =>
          /\ Complete(status.content, status.checked)
          /\ status.checked \in 0..now
          /\ \A i \in 1..status.content : listed[i] <= status.checked
          /\ retrieved[status.content] # None
    /\ \A n \in Contents : retrieved[n] # None => Complete(n, retrieved[n]) /\ retrieved[n] <= now

\* What a thread th that is under way relies on: the filings it must know were
\* listed long ago, what it saw is stale, the answer it holds is recent and
\* complete, and the snapshot it reads has all that is due.
Known(th) ==
    th.pc # "idle" =>
        /\ \A i \in th.due : i \in 1..Served /\ listed[i] + MaxAge + Transit < now
        /\ th.pc = "get" => th.seen.content = None \/ th.seen.checked + MaxAge < now
        /\ th.pc \in {"store", "mark"} =>
              /\ th.at \in 0..now /\ now <= th.at + Transit
              /\ th.got \in 0..Served
              /\ \A i \in 1..Served : listed[i] < th.at => i <= th.got
              /\ \A i \in 1..th.got : listed[i] <= th.at
        /\ th.pc = "reread" => status.content # None /\ \A i \in th.due : i <= status.content
        /\ th.pc = "prepare" =>
              /\ th.rows \in Contents /\ th.moment \in Times /\ th.moment = retrieved[th.rows]
              /\ \A i \in th.due : i <= th.rows

AllKnown == \A t \in Threads : Known(threads[t])

\* The content that thread th takes to be current, or older than what is: no
\* thread is about to make an older one current.
Floor(th) ==
    IF th.pc = "get" THEN th.seen.content ELSE IF th.pc = "mark" THEN th.got ELSE None
NoneOlder ==
    \A t \in Threads :
        /\ Floor(threads[t]) <= status.content
        /\ \A u \in Threads : At(u, "store") => Floor(threads[t]) <= threads[u].got

\* A signal tells of every filing of its snapshot, or of as many newer ones.
Told(r) ==
    /\ r.moment = retrieved[r.rows]
    /\ r.kind = "signal" =>
          \A i \in 1..r.rows :
              accepted[i] > r.since => i \in r.filings \/ Cardinality(r.filings) = MaxFilings
AllTold == \A r \in results : Told(r)

IInv ==
    /\ TypeOK
    /\ Listing
    /\ Source
    /\ AllKnown
    /\ NoneOlder
    /\ AllTold
-----------------------------------------------------------------------------
(* The newest of a set of filings *)

\* All of them, or MaxFilings: the number of newer ones is a one-to-one ranking.
LEMMA NewestFull ==
    ASSUME ConstantsAssumption, NEW n \in Nat, NEW R \in SUBSET (1..n)
    PROVE  Newest(R) = R \/ Cardinality(Newest(R)) = MaxFilings
<1> DEFINE Newer(i) == {j \in R : j > i}
           rank == [i \in R |-> Cardinality(Newer(i))]
           c == Cardinality(R)
<1>1. IsFiniteSet(R)
  <2>1. IsFiniteSet(1..n)
    BY FS_Interval
  <2> QED
    BY <2>1, FS_Subset
<1>2. c \in Nat
  BY <1>1, FS_CardinalityType
<1>3. \A i \in R : IsFiniteSet(Newer(i)) /\ Cardinality(Newer(i)) \in 0..c - 1
  <2> TAKE i \in R
  <2>1. IsFiniteSet(Newer(i)) /\ Cardinality(Newer(i)) <= c
    <3>1. Newer(i) \in SUBSET R
      OBVIOUS
    <3> QED
      BY <1>1, <3>1, FS_Subset
  <2>2. Cardinality(Newer(i)) # c
    <3>1. i \in R /\ i \notin Newer(i)
      OBVIOUS
    <3>2. Newer(i) \in SUBSET R /\ Newer(i) # R
      BY <3>1
    <3> QED
      BY <1>1, <3>2, FS_Subset
  <2>3. Cardinality(Newer(i)) \in Nat
    BY <2>1, FS_CardinalityType
  <2> QED
    BY <1>2, <2>1, <2>2, <2>3
<1>4. \A i, k \in R : i < k => Cardinality(Newer(k)) < Cardinality(Newer(i))
  <2> TAKE i, k \in R
  <2> HAVE i < k
  <2>0. R \in SUBSET Int /\ i \in Int /\ k \in Int
    OBVIOUS
  <2>1. Newer(k) \in SUBSET Newer(i) /\ k \in Newer(i) /\ k \notin Newer(k)
    <3>1. \A j \in R : j > k => j > i
      <4>1. \A j \in Int : j > k => j > i
        BY <2>0
      <4> QED
        BY <2>0, <4>1
    <3>2. Newer(k) \in SUBSET Newer(i)
      BY <3>1
    <3>3. k > i /\ ~(k > k)
      BY <2>0
    <3> QED
      BY <3>2, <3>3
  <2>2. Newer(k) # Newer(i)
    BY <2>1
  <2>3. IsFiniteSet(Newer(i)) /\ Cardinality(Newer(i)) \in Nat /\ Cardinality(Newer(k)) \in Nat
    BY <1>3, <1>2
  <2>4. Cardinality(Newer(k)) <= Cardinality(Newer(i)) /\ Cardinality(Newer(i)) # Cardinality(Newer(k))
    BY <2>1, <2>2, <2>3, FS_Subset
  <2> QED
    BY <2>3, <2>4
<1>5. rank \in Injection(R, 0..c - 1)
  <2> HIDE DEF Newer, c
  <2>1. rank \in [R -> 0..c - 1]
    BY <1>3
  <2>2. \A i, k \in R : rank[i] = rank[k] => i = k
    BY <1>2, <1>3, <1>4
  <2> QED
    BY <2>1, <2>2 DEF Injection, IsInjective
<1>6. IsFiniteSet(0..c - 1) /\ Cardinality(0..c - 1) = c
  <2> HIDE DEF c
  <2>1. 0 \in Int /\ c - 1 \in Int
    BY <1>2
  <2>2. IsFiniteSet(0..c - 1) /\ Cardinality(0..c - 1) = IF 0 > c - 1 THEN 0 ELSE c - 1 - 0 + 1
    BY <2>1, FS_Interval
  <2> QED
    BY <1>2, <2>2
<1>7. rank \in Surjection(R, 0..c - 1)
  BY <1>5, <1>6, FS_Injection
<1>8. ASSUME NEW i \in R, i \notin Newest(R)
      PROVE  Cardinality(Newest(R)) = MaxFilings
  <2> DEFINE small == [k \in Newest(R) |-> rank[k]]
  <2>1. MaxFilings \in Nat
    BY DEF ConstantsAssumption
  <2>2. MaxFilings <= rank[i]
    <3>1. ~(Cardinality(Newer(i)) < MaxFilings)
      BY <1>8 DEF Newest
    <3>2. Cardinality(Newer(i)) \in Nat
      BY <1>2, <1>3
    <3> HIDE DEF Newer
    <3> QED
      BY <2>1, <3>1, <3>2
  <2>3. rank[i] \in 0..c - 1
    BY <1>5 DEF Injection
  <2>4. Newest(R) = {k \in R : rank[k] < MaxFilings}
    BY DEF Newest
  <2> HIDE DEF rank, c
  <2>5. rank \in [R -> 0..c - 1]
    BY <1>5 DEF Injection
  <2>6. small \in [Newest(R) -> 0..MaxFilings - 1]
    <3>1. \A k \in R : rank[k] \in 0..c - 1
      BY <2>5
    <3>2. \A k \in Newest(R) : k \in R /\ rank[k] < MaxFilings
      BY <2>4
    <3>3. \A k \in Newest(R) : rank[k] \in 0..MaxFilings - 1
      <4> TAKE k \in Newest(R)
      <4>1. rank[k] \in 0..c - 1 /\ rank[k] < MaxFilings
        BY <3>1, <3>2
      <4> QED
        BY <4>1, <2>1, <1>2
    <3> QED
      BY <3>3
  <2>7. \A x, y \in Newest(R) : small[x] = small[y] => x = y
    BY <1>5, <2>4 DEF Injection, IsInjective
  <2>8. \A v \in 0..MaxFilings - 1 : \E k \in Newest(R) : small[k] = v
    <3> TAKE v \in 0..MaxFilings - 1
    <3>1. v \in 0..c - 1
      BY <1>2, <2>1, <2>2, <2>3
    <3>2. PICK k \in R : rank[k] = v
      BY <1>7, <3>1 DEF Surjection
    <3>3. k \in Newest(R)
      BY <2>1, <2>4, <3>2
    <3> QED
      BY <3>2, <3>3
  <2>9. small \in Bijection(Newest(R), 0..MaxFilings - 1)
    BY <2>6, <2>7, <2>8 DEF Bijection, Injection, IsInjective, Surjection
  <2>10. IsFiniteSet(Newest(R))
    BY <1>1, FS_Subset DEF Newest
  <2>11. Cardinality(0..MaxFilings - 1) = Cardinality(Newest(R))
    <3>1. ExistsBijection(Newest(R), 0..MaxFilings - 1)
      BY <2>9 DEF ExistsBijection
    <3> QED
      BY <2>10, <3>1, FS_Bijection
  <2>12. Cardinality(0..MaxFilings - 1) = MaxFilings
    <3>1. 0 \in Int /\ MaxFilings - 1 \in Int
      BY <2>1
    <3>2. Cardinality(0..MaxFilings - 1) =
              IF 0 > MaxFilings - 1 THEN 0 ELSE MaxFilings - 1 - 0 + 1
      BY <3>1, FS_Interval
    <3> QED
      BY <2>1, <3>2
  <2> QED
    BY <2>11, <2>12
<1> QED
  BY <1>8 DEF Newest

-----------------------------------------------------------------------------
(* The initial state, the SEC and the clock *)

LEMMA InitInv == ConstantsAssumption /\ Init => IInv
<1> SUFFICES ASSUME ConstantsAssumption, Init PROVE IInv
  OBVIOUS
<1>1. Served = 0
  BY DEF Init, Served
<1>2. TypeOK
  <2>1. now \in Times /\ accepted \in Seq(Times) /\ listed \in Seq(Times) /\ Len(accepted) = Served
        /\ Served <= MaxFiled
    BY <1>1 DEF Init, Served, Times, ConstantsAssumption
  <2>2. retrieved \in [Contents -> Times \cup {None}] /\ status \in Status
    BY DEF Init, Status, NoStatus
  <2>3. threads \in [Threads -> {Idle} \cup Thread] /\ results \subseteq Prepared
    BY DEF Init
  <2>4. \A t \in Threads : ~At(t, "prepare")
    BY DEF Init, At, Idle
  <2> QED
    BY <2>1, <2>2, <2>3, <2>4 DEF TypeOK, Init
<1>3. Listing
  BY <1>1 DEF Listing
<1>4. Source
  BY DEF Source, Init, NoStatus
<1>5. AllKnown
  BY DEF AllKnown, Known, Init, Idle
<1>6. NoneOlder
  BY DEF NoneOlder, Floor, Init, NoStatus, Idle, At, None
<1>7. AllTold
  BY DEF AllTold, Init
<1> QED
  BY <1>2, <1>3, <1>4, <1>5, <1>6, <1>7 DEF IInv

LEMMA ListStep == ConstantsAssumption /\ IInv /\ List => IInv'
<1> SUFFICES ASSUME ConstantsAssumption, IInv, List PROVE IInv'
  OBVIOUS
<1>0. TypeOK /\ Listing /\ Source /\ AllKnown /\ NoneOlder /\ AllTold
  BY DEF IInv
<1>1. PICK moment \in Times : /\ now <= moment + Lag
                              /\ accepted' = Append(accepted, moment)
  BY DEF List
<1>2. listed' = Append(listed, now) /\ Served < MaxFiled
  BY DEF List
<1>3. now' = now
  BY DEF List
<1>4. retrieved' = retrieved /\ status' = status
  BY DEF List
<1>5. results' = results /\ threads' = threads
  BY DEF List
<1>6. now \in Nat /\ accepted \in Seq(Times) /\ listed \in Seq(Times) /\ Len(accepted) = Served
      /\ now \in Times /\ Served \in Nat
  BY <1>0 DEF TypeOK, Times, Served, ConstantsAssumption
<1>7. /\ accepted' \in Seq(Times) /\ listed' \in Seq(Times)
      /\ Len(accepted') = Served + 1 /\ Served' = Served + 1
      /\ \A i \in 1..Served : accepted'[i] = accepted[i] /\ listed'[i] = listed[i]
      /\ accepted'[Served + 1] = moment /\ listed'[Served + 1] = now
  BY <1>1, <1>2, <1>6 DEF Served
<1>8. \A i \in 1..Served' : i \in 1..Served \/ i = Served + 1
  BY <1>6, <1>7
<1>9. \A i \in 1..Served : i \in 1..Served' /\ listed[i] \in Nat /\ accepted[i] \in Nat
  <2> TAKE i \in 1..Served
  <2>1. i \in 1..Served + 1
    BY <1>6
  <2>2. listed[i] \in Times /\ accepted[i] \in Times
    BY <1>6 DEF Served
  <2> QED
    BY <1>7, <2>1, <2>2 DEF Times
<1>10. moment \in Nat /\ Lag \in Nat /\ Transit \in Nat /\ MaxAge \in Nat /\ MaxFiled \in Nat
  BY DEF Times, ConstantsAssumption
<1>11. TypeOK'
  <2>1. (/\ now \in Times /\ accepted \in Seq(Times) /\ listed \in Seq(Times)
         /\ Len(accepted) = Served /\ Served <= MaxFiled)'
    BY <1>2, <1>3, <1>6, <1>7, <1>10
  <2>2. (/\ retrieved \in [Contents -> Times \cup {None}]
         /\ status \in Status /\ threads \in [Threads -> {Idle} \cup Thread]
         /\ results \subseteq Prepared)'
    BY <1>0, <1>4, <1>5 DEF TypeOK
  <2>3. (status # NoStatus => status.checked \in Times /\ retrieved[status.content] \in Times)'
    BY <1>0, <1>4 DEF TypeOK
  <2>4. (\A t \in Threads : At(t, "prepare") => threads[t].moment \in Times)'
    BY <1>0, <1>5 DEF TypeOK, At
  <2> QED
    BY <2>1, <2>2, <2>3, <2>4 DEF TypeOK
<1>12. Listing'
  <2> SUFFICES ASSUME NEW i \in 1..Served'
               PROVE  listed'[i] <= now' /\ listed'[i] <= accepted'[i] + Lag
    BY DEF Listing
  <2>1. CASE i \in 1..Served
    BY <1>0, <1>3, <1>7, <2>1 DEF Listing
  <2>2. CASE i = Served + 1
    BY <1>1, <1>3, <1>6, <1>7, <2>2
  <2> QED
    BY <1>8, <2>1, <2>2
<1>13. \A n, m : Complete(n, m) /\ m \in Int /\ m <= now => Complete(n, m)'
  <2> SUFFICES ASSUME NEW n, NEW m, Complete(n, m), m \in Int, m <= now
               PROVE  Complete(n, m)'
    OBVIOUS
  <2>1. n \in 0..Served'
    BY <1>6, <1>7 DEF Complete
  <2>2. ASSUME NEW i \in 1..Served', listed'[i] + Transit < m
        PROVE  i <= n
    <3>1. CASE i \in 1..Served
      BY <1>7, <2>2, <3>1 DEF Complete
    <3>2. CASE i = Served + 1
      BY <1>6, <1>7, <1>10, <2>2, <3>2
    <3> QED
      BY <1>8, <3>1, <3>2
  <2> QED
    BY <2>1, <2>2 DEF Complete
<1>14. Source'
  <2>1. (status = NoStatus \/ status.content # None)'
    BY <1>0, <1>4 DEF Source
  <2>2. ASSUME status'.content # None
        PROVE  (/\ Complete(status.content, status.checked)
                /\ status.checked \in 0..now
                /\ \A i \in 1..status.content : listed[i] <= status.checked
                /\ retrieved[status.content] # None)'
    <3>1. /\ Complete(status.content, status.checked)
          /\ status.checked \in 0..now
          /\ \A i \in 1..status.content : listed[i] <= status.checked
          /\ retrieved[status.content] # None
      BY <1>0, <1>4, <2>2 DEF Source
    <3>2. status.checked \in Int /\ status.checked <= now
      BY <1>6, <3>1
    <3>3. Complete(status.content, status.checked)'
      <4>1. \A m, n : status.content = n /\ status.checked = m => Complete(n, m)'
        BY <1>13, <3>1, <3>2
      <4> QED
        BY <4>1, <1>4 DEF Complete
    <3>4. \A i \in 1..status.content : i \in 1..Served
      BY <1>6, <3>1 DEF Complete
    <3> QED
      BY <1>3, <1>4, <1>7, <3>1, <3>3, <3>4
  <2>3. ASSUME NEW n \in Contents, retrieved'[n] # None
        PROVE  (Complete(n, retrieved[n]) /\ retrieved[n] <= now)'
    <3>1. Complete(n, retrieved[n]) /\ retrieved[n] <= now
      BY <1>0, <1>4, <2>3 DEF Source
    <3>2. retrieved[n] \in Int
      BY <1>0, <1>4, <2>3, <1>6 DEF TypeOK, Times
    <3>3. \A m : retrieved[n] = m => Complete(n, m)'
      BY <1>13, <3>1, <3>2
    <3> QED
      BY <3>1, <3>3, <1>3, <1>4 DEF Complete
  <2> QED
    BY <2>1, <2>2, <2>3 DEF Source
<1>15. AllKnown'
  <2> SUFFICES ASSUME NEW t \in Threads PROVE Known(threads[t])'
    BY DEF AllKnown
  <2>1. PICK th \in {Idle} \cup Thread : th = threads[t]
    BY <1>0 DEF TypeOK
  <2>2. Known(th)
    BY <1>0, <2>1 DEF AllKnown
  <2>3. Known(th)'
    <3> SUFFICES ASSUME th.pc # "idle" PROVE Known(th)'
      BY DEF Known
    <3>1. th \in Thread
      BY DEF Idle
    <3>2. \A i \in th.due : i \in 1..Served' /\ listed'[i] + MaxAge + Transit < now'
      BY <1>3, <1>7, <1>9, <2>2 DEF Known
    <3>3. ASSUME th.pc \in {"store", "mark"}
          PROVE  (/\ th.at \in 0..now /\ now <= th.at + Transit
                  /\ th.got \in 0..Served
                  /\ \A i \in 1..Served : listed[i] < th.at => i <= th.got
                  /\ \A i \in 1..th.got : listed[i] <= th.at)'
      <4>1. /\ th.at \in 0..now /\ now <= th.at + Transit
            /\ th.got \in 0..Served
            /\ \A i \in 1..Served : listed[i] < th.at => i <= th.got
            /\ \A i \in 1..th.got : listed[i] <= th.at
        BY <2>2, <3>3 DEF Known
      <4>2. th.got \in 0..Served'
        BY <1>6, <1>7, <4>1
      <4>3. \A i \in 1..Served' : listed'[i] < th.at => i <= th.got
        <5> TAKE i \in 1..Served'
        <5>1. CASE i \in 1..Served
          BY <1>7, <4>1, <5>1
        <5>2. CASE i = Served + 1
          BY <1>6, <1>7, <4>1, <5>2
        <5> QED
          BY <1>8, <5>1, <5>2
      <4>4. \A i \in 1..th.got : i \in 1..Served
        BY <1>6, <4>1
      <4> QED
        BY <1>3, <1>7, <4>1, <4>2, <4>3, <4>4
    <3>4. /\ th.pc = "get" => th.seen.content = None \/ th.seen.checked + MaxAge < now'
          /\ th.pc = "reread" => status'.content # None /\ \A i \in th.due : i <= status'.content
          /\ th.pc = "prepare" =>
                /\ th.rows \in Contents /\ th.moment \in Times /\ th.moment = retrieved'[th.rows]
                /\ \A i \in th.due : i <= th.rows
      BY <1>3, <1>4, <2>2 DEF Known
    <3> QED
      BY <3>2, <3>3, <3>4 DEF Known
  <2> QED
    BY <1>5, <2>1, <2>3 DEF Known
<1>16. NoneOlder'
  BY <1>0, <1>4, <1>5 DEF NoneOlder, At, Floor
<1>17. AllTold'
  <2> SUFFICES ASSUME NEW r \in results PROVE Told(r)'
    BY <1>5 DEF AllTold
  <2>1. Told(r) /\ r.rows \in Contents /\ r.moment \in Times
    BY <1>0 DEF AllTold, TypeOK, Prepared
  <2>2. retrieved[r.rows] # None
    BY <2>1 DEF Told, Times, None
  <2>3. r.rows \in 0..Served
    BY <1>0, <2>1, <2>2 DEF Source, Complete
  <2>4. \A i \in 1..r.rows : i \in 1..Served
    BY <1>6, <2>3
  <2>5. \A i \in 1..r.rows : accepted'[i] = accepted[i]
    BY <1>7, <2>4
  <2> QED
    BY <1>4, <2>1, <2>5 DEF Told
<1> QED
  BY <1>11, <1>12, <1>14, <1>15, <1>16, <1>17 DEF IInv

LEMMA TickStep == ConstantsAssumption /\ IInv /\ Tick => IInv'
<1> SUFFICES ASSUME ConstantsAssumption, IInv, Tick PROVE IInv'
  OBVIOUS
<1>0. TypeOK /\ Listing /\ Source /\ AllKnown /\ NoneOlder /\ AllTold
  BY DEF IInv
<1>1. now' = now + 1 /\ now < MaxTime /\ now \in Nat /\ now' \in Times
  BY <1>0 DEF Tick, TypeOK, Times, ConstantsAssumption
<1>2. accepted' = accepted /\ listed' = listed /\ Served' = Served
  BY DEF Tick, sec, Served
<1>3. retrieved' = retrieved /\ status' = status
  BY DEF Tick
<1>4. results' = results /\ threads' = threads
  BY DEF Tick
<1>5. \A i \in 1..Served : listed[i] \in Nat
  BY <1>0 DEF TypeOK, Served, Times
<1>6. Transit \in Nat /\ MaxAge \in Nat
  BY DEF ConstantsAssumption
<1>7. TypeOK'
  <2>1. (/\ now \in Times /\ accepted \in Seq(Times) /\ listed \in Seq(Times)
         /\ Len(accepted) = Served /\ Served <= MaxFiled)'
    BY <1>0, <1>1, <1>2 DEF TypeOK
  <2>2. (/\ retrieved \in [Contents -> Times \cup {None}]
         /\ status \in Status /\ threads \in [Threads -> {Idle} \cup Thread]
         /\ results \subseteq Prepared)'
    BY <1>0, <1>3, <1>4 DEF TypeOK
  <2>3. (status # NoStatus => status.checked \in Times /\ retrieved[status.content] \in Times)'
    BY <1>0, <1>3 DEF TypeOK
  <2>4. (\A t \in Threads : At(t, "prepare") => threads[t].moment \in Times)'
    BY <1>0, <1>4 DEF TypeOK, At
  <2> QED
    BY <2>1, <2>2, <2>3, <2>4 DEF TypeOK
<1>8. Listing'
  BY <1>0, <1>1, <1>2, <1>5 DEF Listing
<1>9. Source'
  <2>1. \A n, m : Complete(n, m) => Complete(n, m)'
    BY <1>2 DEF Complete
  <2>2. \A n \in Contents : retrieved[n] # None => retrieved[n] \in Int
    BY <1>0 DEF TypeOK, Times
  <2>3. status'.content # None => Complete(status.content, status.checked)'
    BY <1>0, <1>2, <1>3 DEF Source, Complete
  <2>4. \A n \in Contents : retrieved'[n] # None => Complete(n, retrieved[n])' /\ retrieved'[n] <= now'
    BY <1>0, <1>1, <1>2, <1>3, <2>2 DEF Source, Complete
  <2>5. status'.content # None =>
          /\ status'.checked \in 0..now'
          /\ \A i \in 1..status'.content : listed'[i] <= status'.checked
          /\ retrieved'[status'.content] # None
    BY <1>0, <1>1, <1>2, <1>3 DEF Source
  <2> QED
    BY <1>0, <1>3, <2>3, <2>4, <2>5 DEF Source
<1>10. AllKnown'
  <2> SUFFICES ASSUME NEW t \in Threads PROVE Known(threads[t])'
    BY DEF AllKnown
  <2>1. PICK th \in {Idle} \cup Thread : th = threads[t]
    BY <1>0 DEF TypeOK
  <2>2. Known(th) /\ (th.pc \in {"store", "mark"} => now < th.at + Transit)
    BY <1>0, <2>1 DEF AllKnown, Tick, At
  <2>3. Known(th)'
    <3> SUFFICES ASSUME th.pc # "idle" PROVE Known(th)'
      BY DEF Known
    <3>1. th \in Thread
      BY DEF Idle
    <3>2. \A i \in th.due : i \in 1..Served' /\ listed'[i] + MaxAge + Transit < now'
      BY <1>1, <1>2, <1>5, <1>6, <2>2 DEF Known
    <3>3. ASSUME th.pc \in {"store", "mark"}
          PROVE  th.at \in 0..now' /\ now' <= th.at + Transit
      <4>1. th.at \in 0..now /\ now < th.at + Transit
        BY <2>2, <3>3 DEF Known
      <4> QED
        BY <4>1, <1>1, <1>6
    <3>4. ASSUME th.pc = "get" PROVE th.seen.content = None \/ th.seen.checked + MaxAge < now'
      <4>1. th.seen.content = None \/ th.seen.checked + MaxAge < now
        BY <2>2, <3>4 DEF Known
      <4>2. th.seen.checked \in Int
        BY <3>1 DEF Thread, Status, Times, None
      <4> QED
        BY <4>1, <4>2, <1>1, <1>6
    <3> QED
      BY <1>2, <1>3, <2>2, <3>2, <3>3, <3>4 DEF Known
  <2> QED
    BY <1>4, <2>1, <2>3 DEF Known
<1>11. NoneOlder'
  BY <1>0, <1>3, <1>4 DEF NoneOlder, At, Floor
<1>12. AllTold'
  BY <1>0, <1>2, <1>3, <1>4 DEF AllTold, Told
<1> QED
  BY <1>7, <1>8, <1>9, <1>10, <1>11, <1>12 DEF IInv

-----------------------------------------------------------------------------
(* The steps of the threads *)

LEMMA Facts ==
    ASSUME ConstantsAssumption, IInv
    PROVE  /\ now \in Nat /\ Served \in Nat /\ Served <= MaxFiled
           /\ Transit \in Nat /\ MaxAge \in Nat /\ MaxFiled \in Nat /\ Transit <= MaxAge
           /\ \A i \in 1..Served : listed[i] \in Nat
           /\ status.content \in Contents \cup {None} /\ status.checked \in Int
           /\ \A t \in Threads : threads[t].pc = "idle" \/ threads[t] \in Thread
<1>0. TypeOK
  BY DEF IInv
<1>1. /\ now \in Nat /\ Served \in Nat /\ Served <= MaxFiled
      /\ Transit \in Nat /\ MaxAge \in Nat /\ MaxFiled \in Nat /\ Transit <= MaxAge
  BY <1>0 DEF TypeOK, Times, Served, ConstantsAssumption
<1>2. \A i \in 1..Served : listed[i] \in Nat
  BY <1>0 DEF TypeOK, Times, Served
<1>3. status.content \in Contents \cup {None} /\ status.checked \in Int
  BY <1>0 DEF TypeOK, Status, Times, None
<1>4. \A t \in Threads : threads[t].pc = "idle" \/ threads[t] \in Thread
  BY <1>0 DEF TypeOK, Idle
<1> QED
  BY <1>1, <1>2, <1>3, <1>4

\* The filings of one thread's answer are at least those of what it replaces.
Above(new, t) ==
    /\ Floor(new) <= status.content
    /\ \A u \in Threads : u # t /\ At(u, "store") => Floor(new) <= threads[u].got
    /\ new.pc = "store" => \A u \in Threads : u # t => Floor(threads[u]) <= new.got

LEMMA NoneOlderKept ==
    ASSUME ConstantsAssumption, IInv, NEW t \in Threads, NEW new \in {Idle} \cup Thread,
           threads' = [threads EXCEPT ![t] = new], status' = status,
           Above(new, t)
    PROVE  NoneOlder'
<1>0. TypeOK /\ NoneOlder
  BY DEF IInv
<1>1. \A u \in Threads : threads'[u] = IF u = t THEN new ELSE threads[u]
  BY <1>0 DEF TypeOK
<1> SUFFICES ASSUME NEW u \in Threads
             PROVE  /\ Floor(threads'[u]) <= status'.content
                    /\ \A w \in Threads : threads'[w].pc = "store"
                           => Floor(threads'[u]) <= threads'[w].got
  BY DEF NoneOlder, At, Floor
<1>2. Floor(threads'[u]) <= status'.content
  BY <1>0, <1>1 DEF NoneOlder, Above
<1>3. ASSUME NEW w \in Threads, threads'[w].pc = "store"
      PROVE  Floor(threads'[u]) <= threads'[w].got
  <2>1. CASE u = t /\ w = t
    <3>1. Floor(threads'[u]) = None /\ threads'[w].got \in Contents \cup {None}
      BY <1>1, <1>3, <2>1 DEF Floor, Thread, Idle
    <3> QED
      BY <3>1 DEF None, Contents, ConstantsAssumption
  <2>2. CASE u = t /\ w # t
    BY <1>1, <1>3, <2>2 DEF Above, At
  <2>3. CASE u # t /\ w = t
    BY <1>1, <1>3, <2>3 DEF Above
  <2>4. CASE u # t /\ w # t
    BY <1>0, <1>1, <1>3, <2>4 DEF NoneOlder, At
  <2> QED
    BY <2>1, <2>2, <2>3, <2>4
<1> QED
  BY <1>2, <1>3

\* A step of thread t alone, that leaves it with the locals new.
LEMMA Move ==
    ASSUME ConstantsAssumption, IInv, NEW t \in Threads, NEW new \in {Idle} \cup Thread,
           threads' = [threads EXCEPT ![t] = new],
           UNCHANGED <<now, sec, retrieved, status, results>>,
           Known(new), Above(new, t)
    PROVE  IInv'
<1>0. TypeOK /\ Listing /\ Source /\ AllKnown /\ NoneOlder /\ AllTold
  BY DEF IInv
<1>1. now' = now /\ accepted' = accepted /\ listed' = listed /\ Served' = Served
  BY DEF sec, Served
<1>2. retrieved' = retrieved /\ status' = status /\ results' = results
  OBVIOUS
<1>3. \A u \in Threads : threads'[u] = IF u = t THEN new ELSE threads[u]
  BY <1>0 DEF TypeOK
<1>4. TypeOK'
  <2>1. (/\ now \in Times /\ accepted \in Seq(Times) /\ listed \in Seq(Times)
         /\ Len(accepted) = Served /\ Served <= MaxFiled)'
    BY <1>0, <1>1 DEF TypeOK
  <2>2. (/\ retrieved \in [Contents -> Times \cup {None}]
         /\ status \in Status
         /\ results \subseteq Prepared)'
    BY <1>0, <1>2 DEF TypeOK
  <2>3. threads' \in [Threads -> {Idle} \cup Thread]
    BY <1>0 DEF TypeOK
  <2>4. (status # NoStatus => status.checked \in Times /\ retrieved[status.content] \in Times)'
    BY <1>0, <1>2 DEF TypeOK
  <2>5. \A u \in Threads : threads'[u].pc = "prepare" => threads'[u].moment \in Times
    <3>1. new.pc = "prepare" => new.moment \in Times
      BY DEF Known
    <3> QED
      BY <1>0, <1>3, <3>1 DEF TypeOK, At
  <2> QED
    BY <2>1, <2>2, <2>3, <2>4, <2>5 DEF TypeOK, At
<1>5. Listing'
  BY <1>0, <1>1 DEF Listing
<1>6. Source'
  BY <1>0, <1>1, <1>2 DEF Source, Complete
<1>7. \A th : Known(th) => Known(th)'
  BY <1>1, <1>2 DEF Known
<1>8. AllKnown'
  <2> SUFFICES ASSUME NEW u \in Threads PROVE Known(threads[u])'
    BY DEF AllKnown
  <2>1. \A th : threads'[u] = th /\ Known(th) => Known(threads[u])'
    <3> SUFFICES ASSUME NEW th, threads'[u] = th, Known(th) PROVE Known(threads[u])'
      OBVIOUS
    <3>1. Known(th)'
      BY <1>7
    <3> QED
      BY <3>1 DEF Known
  <2>2. CASE u = t
    BY <1>3, <2>1, <2>2
  <2>3. CASE u # t
    BY <1>0, <1>3, <2>1, <2>3 DEF AllKnown
  <2> QED
    BY <2>2, <2>3
<1>9. NoneOlder'
  BY NoneOlderKept
<1>10. AllTold'
  BY <1>0, <1>1, <1>2 DEF AllTold, Told
<1> QED
  BY <1>4, <1>5, <1>6, <1>8, <1>9, <1>10 DEF IInv

\* A thread that holds nothing or only what it read is above nothing.
LEMMA AboveIdle ==
    ASSUME ConstantsAssumption, IInv, NEW t \in Threads, NEW new,
           new.pc \in {"idle", "check", "reread", "prepare"}
    PROVE  Above(new, t)
<1>1. Floor(new) = None /\ new.pc # "store"
  BY DEF Floor
<1>2. status.content \in Contents \cup {None}
  BY Facts
<1>3. \A u \in Threads : At(u, "store") => threads[u].got \in Contents \cup {None}
  BY Facts DEF At, Thread
<1>4. \A n \in Contents \cup {None} : None <= n
  BY DEF None, Contents, ConstantsAssumption
<1> QED
  BY <1>1, <1>2, <1>3, <1>4 DEF Above

LEMMA IdleKnown == Known(Idle) /\ Idle.pc = "idle"
BY DEF Known, Idle

LEMMA SignalStep ==
    ASSUME ConstantsAssumption, IInv, NEW t \in Threads, Signal(t)
    PROVE  IInv'
<1>0. TypeOK
  BY DEF IInv
<1>1. PICK since \in {0} \cup {r.moment : r \in {q \in results : q.kind = "signal"}} :
          threads' = [threads EXCEPT ![t] = Begun("signal", since)]
  BY DEF Signal
<1>2. since \in Nat
  BY <1>0 DEF TypeOK, Prepared, Times
<1>3. Begun("signal", since) \in Thread /\ Known(Begun("signal", since))
  BY <1>2, Facts DEF Begun, Thread, Known, Status, NoStatus
<1>4. Above(Begun("signal", since), t)
  BY AboveIdle DEF Begun
<1> QED
  BY <1>1, <1>3, <1>4, Move DEF Signal

LEMMA DeltaStep ==
    ASSUME ConstantsAssumption, IInv, NEW t \in Threads, Delta(t)
    PROVE  IInv'
<1>1. PICK since \in 1..Served : threads' = [threads EXCEPT ![t] = Begun("delta", since)]
  BY DEF Delta
<1>2. since \in Nat
  BY Facts
<1>3. Begun("delta", since) \in Thread /\ Known(Begun("delta", since))
  BY <1>2, Facts DEF Begun, Thread, Known, Status, NoStatus
<1>4. Above(Begun("delta", since), t)
  BY AboveIdle DEF Begun
<1> QED
  BY <1>1, <1>3, <1>4, Move DEF Delta

\* A thread reads a snapshot that has all that is due.
LEMMA ReadStep ==
    ASSUME ConstantsAssumption, IInv, NEW t \in Threads, threads[t].pc # "idle",
           NEW rows, Read(t, rows),
           UNCHANGED <<now, sec, retrieved, status, results>>,
           rows \in Contents, retrieved[rows] # None,
           \A i \in threads[t].due : i <= rows
    PROVE  IInv'
<1>0. TypeOK /\ AllKnown
  BY DEF IInv
<1>1. PICK th \in Thread : th = threads[t]
  BY Facts
<1>2. Known(th) /\ th.pc # "idle"
  BY <1>0, <1>1 DEF AllKnown
<1>3. retrieved[rows] \in Times
  BY <1>0 DEF TypeOK
<1> DEFINE read == [th EXCEPT !.pc = "prepare", !.seen = NoStatus, !.rows = rows,
                              !.moment = retrieved[rows]]
<1>4. read \in Thread
  BY <1>3 DEF Thread, Status, NoStatus
<1>5. read.pc = "prepare" /\ read.rows = rows /\ read.moment = retrieved[rows] /\ read.due = th.due
  BY DEF Thread
<1>6. Known(read)
  <2> HIDE DEF read
  <2> QED
    BY <1>1, <1>2, <1>3, <1>5 DEF Known
<1>7. PICK new \in {Idle, read} : new = WithRows(th, rows)
  BY DEF WithRows
<1>8. new \in {Idle} \cup Thread /\ Known(new) /\ Above(new, t)
  <2> HIDE DEF read
  <2>1. CASE new = Idle
    BY <2>1, IdleKnown, AboveIdle
  <2>2. CASE new = read
    BY <2>2, <1>4, <1>5, <1>6, AboveIdle
  <2> QED
    BY <2>1, <2>2
<1>9. threads' = [threads EXCEPT ![t] = new]
  BY <1>0, <1>1, <1>7 DEF Read, TypeOK
<1> QED
  BY <1>8, <1>9, Move

LEMMA CheckStep ==
    ASSUME ConstantsAssumption, IInv, NEW t \in Threads, Check(t)
    PROVE  IInv'
<1>0. TypeOK /\ Listing /\ Source /\ AllKnown
  BY DEF IInv
<1>1. PICK th \in Thread : th = threads[t]
  BY Facts DEF Check, At
<1>2. Known(th) /\ th.pc = "check"
  BY <1>0, <1>1 DEF AllKnown, Check, At
<1>3. \A i \in th.due : i \in 1..Served /\ listed[i] \in Nat /\ listed[i] + MaxAge + Transit < now
  BY <1>2, Facts DEF Known
<1>4. UNCHANGED <<now, sec, retrieved, status, results>>
  BY DEF Check
<1>5. status.content # None =>
          /\ status.content \in Contents /\ retrieved[status.content] # None
          /\ status.checked \in 0..now
          /\ \A i \in 1..Served : listed[i] + Transit < status.checked => i <= status.content
          /\ \A i \in 1..status.content : listed[i] <= status.checked
          /\ status.content \in 0..Served
  BY <1>0, Facts DEF Source, Complete
<1>6. CASE Fresh(status)
  <2>1. status.content # None /\ now - status.checked <= MaxAge /\ Read(t, status.content)
    BY <1>6 DEF Fresh, Check
  <2>2. \A i \in th.due : i <= status.content
    <3> TAKE i \in th.due
    <3>1. i \in 1..Served /\ listed[i] \in Nat /\ listed[i] + MaxAge + Transit < now
      BY <1>3
    <3>2. listed[i] + Transit < status.checked
      BY <3>1, <2>1, Facts
    <3> QED
      BY <1>5, <2>1, <3>1, <3>2
  <2>3. threads[t].pc # "idle"
    BY <1>1, <1>2
  <2> QED
    BY <1>1, <1>4, <1>5, <2>1, <2>2, <2>3, ReadStep
<1>7. CASE ~Fresh(status)
  <2> DEFINE new == [th EXCEPT !.pc = "get", !.seen = status]
  <2>1. threads' = [threads EXCEPT ![t] = new]
    BY <1>0, <1>1, <1>7 DEF Check, TypeOK
  <2>2. new \in Thread /\ new.pc = "get" /\ new.seen = status /\ new.due = th.due
    BY <1>0 DEF Thread, TypeOK
  <2> HIDE DEF new
  <2>3. status.content = None \/ status.checked + MaxAge < now
    BY <1>7, Facts DEF Fresh
  <2>4. Known(new)
    BY <1>3, <2>2, <2>3 DEF Known
  <2>5. Floor(new) = status.content
    BY <2>2 DEF Floor
  <2>6. ASSUME NEW u \in Threads, At(u, "store")
        PROVE  status.content <= threads[u].got
    <3>1. PICK tu \in Thread : tu = threads[u]
      BY <2>6, Facts DEF At
    <3>2. /\ tu.at \in 0..now /\ now <= tu.at + Transit
          /\ tu.got \in 0..Served
          /\ \A i \in 1..Served : listed[i] < tu.at => i <= tu.got
      BY <1>0, <2>6, <3>1 DEF AllKnown, Known, At
    <3>3. CASE status.content = None
      BY <3>1, <3>2, <3>3, Facts DEF None
    <3>4. CASE status.content = 0
      BY <3>1, <3>2, <3>4, Facts
    <3>5. CASE status.content # None /\ status.content # 0
      <4>1. PICK i \in 1..Served : i = status.content
        BY <1>5, <3>5, Facts
      <4>2. listed[i] <= status.checked /\ listed[i] \in Nat
        BY <1>5, <3>5, <4>1, Facts
      <4>3. status.checked + MaxAge < now
        BY <2>3, <3>5
      <4>4. listed[i] < tu.at
        BY <3>2, <4>2, <4>3, Facts
      <4> QED
        BY <3>1, <3>2, <4>1, <4>4
    <3> QED
      BY <3>3, <3>4, <3>5
  <2>7. status.content <= status.content
    BY Facts DEF None, Contents
  <2>8. Above(new, t)
    BY <2>2, <2>5, <2>6, <2>7 DEF Above
  <2> QED
    BY <1>4, <2>1, <2>2, <2>4, <2>8, Move
<1> QED
  BY <1>6, <1>7

LEMMA GetStep ==
    ASSUME ConstantsAssumption, IInv, NEW t \in Threads, Get(t)
    PROVE  IInv'
<1>0. TypeOK /\ Listing /\ Source /\ AllKnown /\ NoneOlder
  BY DEF IInv
<1>1. PICK th \in Thread : th = threads[t]
  BY Facts DEF Get, At
<1>2. Known(th) /\ th.pc = "get"
  BY <1>0, <1>1 DEF AllKnown, Get, At
<1>3. PICK pc \in {"mark", "store"} :
         /\ pc = "mark" => Served = th.seen.content
         /\ threads' = [threads EXCEPT ![t] =
                [th EXCEPT !.pc = pc, !.got = Served, !.at = now, !.seen = NoStatus]]
  BY <1>0, <1>1 DEF Get, TypeOK
<1> DEFINE new == [th EXCEPT !.pc = pc, !.got = Served, !.at = now, !.seen = NoStatus]
<1>4. threads' = [threads EXCEPT ![t] = new]
  BY <1>3
<1>5. /\ new \in Thread /\ new.pc = pc /\ new.got = Served /\ new.at = now
      /\ new.due = th.due
  <2>1. Served \in Contents /\ now \in Times /\ NoStatus \in Status
    BY <1>0, Facts DEF Contents, TypeOK, NoStatus, Status
  <2> QED
    BY <2>1 DEF Thread
<1> HIDE DEF new
<1>6. Known(new)
  <2>1. \A i \in new.due : i \in 1..Served /\ listed[i] + MaxAge + Transit < now
    BY <1>2, <1>5 DEF Known
  <2>2. /\ now \in 0..now /\ now <= now + Transit
        /\ Served \in 0..Served
        /\ \A i \in 1..Served : listed[i] < now => i <= Served
    BY Facts
  <2>3. \A i \in 1..Served : listed[i] <= now
    BY <1>0 DEF Listing
  <2> QED
    BY <1>3, <1>5, <2>1, <2>2, <2>3 DEF Known
<1>7. Above(new, t)
  <2>1. CASE pc = "mark"
    <3>1. Served = th.seen.content
      BY <1>3, <2>1
    <3>2. Floor(new) = Floor(threads[t])
      BY <1>1, <1>2, <1>5, <2>1, <3>1 DEF Floor
    <3> QED
      BY <1>0, <1>5, <2>1, <3>2 DEF Above, NoneOlder
  <2>2. CASE pc = "store"
    <3>1. Floor(new) = None
      BY <1>5, <2>2 DEF Floor
    <3>2. status.content \in 0..Served \/ status.content = None
      BY <1>0 DEF Source, Complete
    <3>3. None <= status.content /\ status.content <= Served
      BY <3>2, Facts DEF None
    <3>4. ASSUME NEW u \in Threads, At(u, "store") PROVE None <= threads[u].got
      <4>1. threads[u].got \in Contents \cup {None}
        BY <3>4, Facts DEF At, Thread
      <4> QED
        BY <4>1, Facts DEF None, Contents
    <3>5. ASSUME NEW u \in Threads PROVE Floor(threads[u]) <= Served
      <4>1. Floor(threads[u]) <= status.content
        BY <1>0 DEF NoneOlder
      <4>2. Floor(threads[u]) \in Contents \cup {None}
        BY Facts DEF Floor, Thread, Status
      <4>3. \A x, y \in Contents \cup {None} : x <= y /\ y <= Served => x <= Served
        BY Facts DEF Contents, None
      <4>4. status.content \in Contents \cup {None}
        BY Facts
      <4> QED
        BY <3>3, <4>1, <4>2, <4>3, <4>4
    <3> QED
      BY <1>5, <2>2, <3>1, <3>3, <3>4, <3>5 DEF Above
  <2> QED
    BY <1>3, <2>1, <2>2
<1> QED
  BY <1>4, <1>5, <1>6, <1>7, Move DEF Get

LEMMA GetFailsStep ==
    ASSUME ConstantsAssumption, IInv, NEW t \in Threads, GetFails(t)
    PROVE  IInv'
<1>0. TypeOK /\ AllKnown
  BY DEF IInv
<1>1. PICK th \in Thread : th = threads[t]
  BY Facts DEF GetFails, At
<1>2. th.seen.content = None \/ th.seen.checked + MaxAge < now
  BY <1>0, <1>1 DEF AllKnown, Known, GetFails, At
<1>3. th.seen.checked \in Int
  BY DEF Thread, Status, Times, None
<1>4. ~Usable(threads[t].seen)
  BY <1>1, <1>2, <1>3, Facts DEF Usable, Fresh
<1>5. threads' = [threads EXCEPT ![t] = Idle]
  BY <1>4 DEF GetFails
<1>6. Known(Idle) /\ Above(Idle, t)
  BY IdleKnown, AboveIdle
<1> QED
  BY <1>5, <1>6, Move DEF GetFails

LEMMA RereadStep ==
    ASSUME ConstantsAssumption, IInv, NEW t \in Threads, Reread(t)
    PROVE  IInv'
<1>0. Source /\ AllKnown
  BY DEF IInv
<1>1. threads[t].pc = "reread" /\ Read(t, status.content)
  BY DEF Reread, At
<1>2. status.content # None /\ \A i \in threads[t].due : i <= status.content
  BY <1>0, <1>1 DEF AllKnown, Known
<1>3. status.content \in Contents /\ retrieved[status.content] # None
  BY <1>0, <1>2, Facts DEF Source
<1> QED
  BY <1>1, <1>2, <1>3, ReadStep DEF Reread

\* The three transactions that change the database leave the clock and the SEC.
Durable == \A n \in Contents : retrieved[n] # None => retrieved'[n] = retrieved[n]

LEMMA KnownKept ==
    ASSUME NEW th, Known(th), now' = now, UNCHANGED sec, Durable,
           th.pc = "reread" => status'.content # None /\ \A i \in th.due : i <= status'.content
    PROVE  Known(th)'
<1>1. accepted' = accepted /\ listed' = listed /\ Served' = Served
  BY DEF sec, Served
<1>2. th.pc = "prepare" => th.moment = retrieved'[th.rows]
  BY DEF Known, Durable, Times, None
<1> QED
  BY <1>1, <1>2 DEF Known

LEMMA ToldKept ==
    ASSUME IInv, NEW r \in results, UNCHANGED sec, Durable
    PROVE  Told(r)'
<1>1. Told(r) /\ r.rows \in Contents /\ r.moment \in Times
  BY DEF IInv, AllTold, TypeOK, Prepared
<1>2. retrieved'[r.rows] = retrieved[r.rows]
  BY <1>1 DEF Told, Durable, Times, None
<1> QED
  BY <1>1, <1>2 DEF Told, sec

\* A step of thread t that writes the status and maybe a snapshot.
LEMMA WriteStep ==
    ASSUME ConstantsAssumption, IInv, NEW t \in Threads, NEW th \in Thread, th = threads[t],
           threads' = [threads EXCEPT ![t] = Verified(th)],
           now' = now, UNCHANGED sec, results' = results, Durable,
           retrieved' \in [Contents -> Times \cup {None}],
           status' \in Status, status'.content \in Contents,
           \A n \in Contents : retrieved'[n] # None => Complete(n, retrieved'[n]) /\ retrieved'[n] <= now,
           retrieved'[status'.content] # None,
           Complete(status'.content, status'.checked), status'.checked \in 0..now,
           \A i \in 1..status'.content : listed[i] <= status'.checked,
           \A i \in th.due : i <= status'.content,
           \A u \in Threads \ {t} : threads[u].pc = "reread" => \A i \in threads[u].due : i <= status'.content,
           \A u \in Threads \ {t} : Floor(threads[u]) <= status'.content
    PROVE  IInv'
<1>0. TypeOK /\ Listing /\ Source /\ AllKnown /\ NoneOlder /\ AllTold
  BY DEF IInv
<1>1. accepted' = accepted /\ listed' = listed /\ Served' = Served
  BY DEF sec, Served
<1> DEFINE new == Verified(th)
<1>2. new \in Thread /\ new.pc = "reread" /\ new.due = th.due
  BY DEF Verified, Thread
<1> HIDE DEF new
<1>3. \A u \in Threads : threads'[u] = IF u = t THEN new ELSE threads[u]
  BY <1>0 DEF TypeOK, new
<1>4. status'.content # None /\ status' # NoStatus
  BY DEF Contents, None, NoStatus
<1>5. TypeOK'
  <2>1. (/\ now \in Times /\ accepted \in Seq(Times) /\ listed \in Seq(Times)
         /\ Len(accepted) = Served /\ Served <= MaxFiled)'
    BY <1>0, <1>1 DEF TypeOK
  <2>2. threads' \in [Threads -> {Idle} \cup Thread]
    BY <1>0, <1>2 DEF TypeOK, new
  <2>3. results' \subseteq Prepared
    BY <1>0 DEF TypeOK
  <2>4. status'.checked \in Times /\ retrieved'[status'.content] \in Times
    BY <1>0 DEF TypeOK, Times, ConstantsAssumption
  <2>5. \A u \in Threads : threads'[u].pc = "prepare" => threads'[u].moment \in Times
    BY <1>0, <1>2, <1>3 DEF TypeOK, At
  <2> QED
    BY <2>1, <2>2, <2>3, <2>4, <2>5 DEF TypeOK, At
<1>6. Listing'
  BY <1>0, <1>1 DEF Listing
<1>7. Source'
  BY <1>1, <1>4 DEF Source, Complete
<1>8. \A u \in Threads : Known(threads[u])'
  <2> TAKE u \in Threads
  <2>1. \A w : threads'[u] = w /\ Known(w)' => Known(threads[u])'
    BY DEF Known
  <2>2. CASE u = t
    <3>1. Known(th)
      BY <1>0 DEF AllKnown
    <3>2. \A i \in th.due : i \in 1..Served /\ listed[i] + MaxAge + Transit < now
      BY <3>1, Facts DEF Known, Thread
    <3>3. Known(new)'
      BY <1>1, <1>2, <1>4, <3>2 DEF Known
    <3> QED
      BY <1>3, <2>1, <2>2, <3>3
  <2>3. CASE u # t
    <3>1. PICK tu \in {Idle} \cup Thread : tu = threads[u]
      BY <1>0 DEF TypeOK
    <3>2. Known(tu)'
      <4>1. Known(tu)
        BY <1>0, <3>1 DEF AllKnown
      <4>2. tu.pc = "reread" => status'.content # None /\ \A i \in tu.due : i <= status'.content
        BY <1>4, <2>3, <3>1
      <4> QED
        BY <4>1, <4>2, KnownKept
    <3> QED
      BY <1>3, <2>1, <2>3, <3>1, <3>2
  <2> QED
    BY <2>2, <2>3
<1>9. NoneOlder'
  <2>1. Floor(new) = None
    BY <1>2 DEF Floor
  <2>2. \A n \in Contents \cup {None} : None <= n
    BY DEF None, Contents, ConstantsAssumption
  <2>3. \A w \in Threads : threads[w].pc = "store" => threads[w].got \in Contents \cup {None}
    BY Facts DEF Thread
  <2> SUFFICES ASSUME NEW u \in Threads
               PROVE  /\ Floor(threads'[u]) <= status'.content
                      /\ \A w \in Threads : threads'[w].pc = "store"
                             => Floor(threads'[u]) <= threads'[w].got
    BY DEF NoneOlder, At, Floor
  <2>4. CASE u = t
    BY <1>2, <1>3, <2>1, <2>2, <2>3, <2>4
  <2>5. CASE u # t
    BY <1>0, <1>2, <1>3, <2>5 DEF NoneOlder, At
  <2> QED
    BY <2>4, <2>5
<1>10. AllTold'
  BY ToldKept DEF AllTold
<1> QED
  BY <1>5, <1>6, <1>7, <1>8, <1>9, <1>10 DEF IInv, AllKnown

LEMMA StoreStep ==
    ASSUME ConstantsAssumption, IInv, NEW t \in Threads, Store(t)
    PROVE  IInv'
<1>0. TypeOK /\ Listing /\ Source /\ AllKnown /\ NoneOlder
  BY DEF IInv
<1>1. PICK th \in Thread : th = threads[t]
  BY Facts DEF Store, At
<1>2. PICK stamp \in th.at..now :
          /\ retrieved' = [retrieved EXCEPT ![th.got] = Stamp(retrieved[th.got], stamp)]
          /\ status' = [content |-> th.got, checked |-> stamp]
  BY <1>1 DEF Store
<1>3. /\ th.at \in 0..now /\ now <= th.at + Transit
      /\ th.got \in 0..Served
      /\ \A i \in 1..Served : listed[i] < th.at => i <= th.got
      /\ \A i \in 1..th.got : listed[i] <= th.at
  BY <1>0, <1>1 DEF AllKnown, Known, Store, At
<1>4. th.got \in Contents /\ stamp \in 0..now /\ th.at <= stamp /\ stamp \in Times
  BY <1>0, <1>2, <1>3, Facts DEF Contents, TypeOK, Times
<1>5. Complete(th.got, stamp)
  BY <1>2, <1>3, Facts DEF Complete
<1>6. \A i \in 1..th.got : listed[i] <= stamp
  <2> TAKE i \in 1..th.got
  <2>1. i \in 1..Served /\ listed[i] <= th.at
    BY <1>3, Facts
  <2> QED
    BY <1>3, <1>4, <2>1, Facts
<1>7. \A n \in Contents : retrieved'[n] =
          IF n = th.got THEN (IF retrieved[n] = None THEN stamp ELSE retrieved[n])
          ELSE retrieved[n]
  BY <1>0, <1>2, <1>4 DEF TypeOK, Stamp
<1>8. Durable
  BY <1>7 DEF Durable
<1>9. retrieved' \in [Contents -> Times \cup {None}]
  BY <1>0, <1>2, <1>4 DEF TypeOK, Stamp
<1>10. status'.content = th.got /\ status'.checked = stamp /\ status' \in Status
  BY <1>2, <1>4 DEF Status
<1>11. \A n \in Contents : retrieved'[n] # None => Complete(n, retrieved'[n]) /\ retrieved'[n] <= now
  <2> TAKE n \in Contents
  <2>1. retrieved[n] # None => Complete(n, retrieved[n]) /\ retrieved[n] <= now
    BY <1>0 DEF Source
  <2>2. stamp <= now
    BY <1>4, Facts
  <2> QED
    BY <1>5, <1>7, <2>1, <2>2
<1>12. retrieved'[th.got] # None
  BY <1>4, <1>7 DEF None, Times
<1>13. ASSUME NEW i \in 1..Served, listed[i] + MaxAge + Transit < now
       PROVE  i <= th.got
  BY <1>3, <1>13, Facts
<1>14. \A u \in Threads : threads[u].pc # "idle" => \A i \in threads[u].due : i <= th.got
  BY <1>0, <1>13 DEF AllKnown, Known
<1>15. \A u \in Threads : Floor(threads[u]) <= th.got
  BY <1>0, <1>1 DEF NoneOlder, Store
<1>16. threads' = [threads EXCEPT ![t] = Verified(th)]
  BY <1>0, <1>1 DEF Store, TypeOK
<1>17. now' = now /\ UNCHANGED sec /\ results' = results
  BY DEF Store
<1>18. \A i \in th.due : i <= th.got
  BY <1>1, <1>14 DEF Store, At
<1> QED
  BY <1>1, <1>4, <1>5, <1>6, <1>8, <1>9, <1>10, <1>11, <1>12, <1>14, <1>15, <1>16, <1>17, <1>18,
     WriteStep

LEMMA MarkStep ==
    ASSUME ConstantsAssumption, IInv, NEW t \in Threads, Mark(t)
    PROVE  IInv'
<1>0. TypeOK /\ Listing /\ Source /\ AllKnown /\ NoneOlder
  BY DEF IInv
<1>1. PICK th \in Thread : th = threads[t]
  BY Facts DEF Mark, At
<1>2. th.pc = "mark"
  BY <1>1 DEF Mark, At
<1>3. /\ th.at \in 0..now /\ now <= th.at + Transit
      /\ th.got \in 0..Served
      /\ \A i \in 1..Served : listed[i] < th.at => i <= th.got
  BY <1>0, <1>1, <1>2 DEF AllKnown, Known
<1>4. th.got <= status.content
  BY <1>0, <1>1, <1>2 DEF NoneOlder, Floor
<1>5. status.content \in Contents
  BY <1>3, <1>4, Facts DEF None
<1>6. /\ status.content \in 0..Served /\ status.checked \in 0..now
      /\ \A i \in 1..status.content : listed[i] <= status.checked
      /\ retrieved[status.content] # None
  BY <1>0, <1>5 DEF Source, Complete, Contents, None
<1>7. status'.content = status.content /\ status'.checked = now /\ status' \in Status
  BY <1>0 DEF Mark, TypeOK, Status
<1>8. Complete(status.content, now)
  <2> SUFFICES ASSUME NEW i \in 1..Served, listed[i] + Transit < now PROVE i <= status.content
    BY <1>6 DEF Complete
  <2>1. i <= th.got
    BY <1>3, Facts
  <2> QED
    BY <1>3, <1>4, <1>6, <2>1, Facts
<1>9. \A i \in 1..status.content : listed[i] <= now
  BY <1>0, <1>6, Facts DEF Listing
<1>10. ASSUME NEW i \in 1..Served, listed[i] + MaxAge + Transit < now
       PROVE  i <= status.content
  BY <1>8, <1>10, Facts DEF Complete
<1>11. \A u \in Threads : threads[u].pc # "idle" => \A i \in threads[u].due : i <= status.content
  BY <1>0, <1>10 DEF AllKnown, Known
<1>12. \A u \in Threads : Floor(threads[u]) <= status.content
  BY <1>0 DEF NoneOlder
<1>13. now' = now /\ UNCHANGED sec /\ results' = results /\ retrieved' = retrieved
  BY DEF Mark
<1>14. threads' = [threads EXCEPT ![t] = Verified(th)]
  BY <1>0, <1>1 DEF Mark, TypeOK
<1>15. \A n \in Contents : retrieved[n] # None => Complete(n, retrieved[n]) /\ retrieved[n] <= now
  BY <1>0 DEF Source
<1>16. now \in 0..now
  BY Facts
<1>17. \A i \in th.due : i <= status.content
  BY <1>1, <1>2, <1>11
<1>18. retrieved \in [Contents -> Times \cup {None}] /\ Durable
  BY <1>0, <1>13 DEF TypeOK, Durable
<1> QED
  BY <1>1, <1>5, <1>6, <1>7, <1>8, <1>9, <1>11, <1>12, <1>13, <1>14, <1>15, <1>16, <1>17, <1>18,
     WriteStep

LEMMA PrepareStep ==
    ASSUME ConstantsAssumption, IInv, NEW t \in Threads, Prepare(t)
    PROVE  IInv'
<1>0. TypeOK /\ Listing /\ Source /\ AllKnown /\ NoneOlder /\ AllTold
  BY DEF IInv
<1>1. PICK th \in Thread : th = threads[t]
  BY Facts DEF Prepare, At
<1>2. Known(th) /\ th.pc = "prepare"
  BY <1>0, <1>1 DEF AllKnown, Prepare, At
<1>3. th.rows \in Contents /\ th.moment \in Times /\ th.moment = retrieved[th.rows] /\ th.rows \in Nat
  BY <1>2 DEF Known, Contents
<1>4. now' = now /\ accepted' = accepted /\ listed' = listed /\ Served' = Served
  BY DEF Prepare, sec, Served
<1>5. retrieved' = retrieved /\ status' = status
  BY DEF Prepare
<1>6. threads' = [threads EXCEPT ![t] = Idle]
  BY DEF Prepare
<1> DEFINE told == RowsSince(th.rows, th.since)
<1>7. told \in SUBSET (1..th.rows) /\ \A i \in 1..th.rows : accepted[i] > th.since => i \in told
  BY DEF RowsSince
<1>8. Newest(told) = told \/ Cardinality(Newest(told)) = MaxFilings
  <2> HIDE DEF told
  <2> QED
    BY <1>3, <1>7, NewestFull
<1>9. Newest(told) \in SUBSET Nat
  BY <1>7, <1>3 DEF Newest
<1>10. PICK result : result = Result(th)
  OBVIOUS
<1>11. /\ result.kind = th.kind /\ result.since = th.since
       /\ result.rows = th.rows /\ result.moment = th.moment
       /\ th.kind = "signal" => result.filings = Newest(told)
  BY <1>10 DEF Result, NextSince
<1>12. result \in Prepared
  <2>1. th.since + 1 .. th.rows \in SUBSET Nat
    BY <1>3 DEF Thread
  <2>2. th.kind \in {"signal", "delta"} /\ th.since \in Nat
    BY DEF Thread
  <2> HIDE DEF told
  <2>3. result = [kind |-> th.kind, since |-> th.since, rows |-> th.rows, moment |-> th.moment,
                  filings |-> IF th.kind = "signal" THEN Newest(told) ELSE th.since + 1 .. th.rows]
    BY <1>10 DEF Result, NextSince, told
  <2> QED
    BY <1>3, <1>9, <2>1, <2>2, <2>3 DEF Prepared
<1>13. Told(result)
  <2> HIDE DEF told
  <2> QED
    BY <1>3, <1>7, <1>8, <1>11 DEF Told
<1>14. results' = results \/ results' = results \cup {result}
  BY <1>1, <1>10 DEF Prepare
<1>15. results' \subseteq Prepared
  BY <1>0, <1>12, <1>14 DEF TypeOK
<1>16. TypeOK'
  <2>1. (/\ now \in Times /\ accepted \in Seq(Times) /\ listed \in Seq(Times)
         /\ Len(accepted) = Served /\ Served <= MaxFiled)'
    BY <1>0, <1>4 DEF TypeOK
  <2>2. (retrieved \in [Contents -> Times \cup {None}] /\ status \in Status)'
    BY <1>0, <1>5 DEF TypeOK
  <2>3. threads' \in [Threads -> {Idle} \cup Thread]
    BY <1>0, <1>6 DEF TypeOK
  <2>4. (status # NoStatus => status.checked \in Times /\ retrieved[status.content] \in Times)'
    BY <1>0, <1>5 DEF TypeOK
  <2>5. \A u \in Threads : threads'[u].pc = "prepare" => threads'[u].moment \in Times
    BY <1>0, <1>6 DEF TypeOK, At, Idle
  <2> QED
    BY <1>15, <2>1, <2>2, <2>3, <2>4, <2>5 DEF TypeOK, At
<1>17. Listing'
  BY <1>0, <1>4 DEF Listing
<1>18. Source'
  BY <1>0, <1>4, <1>5 DEF Source, Complete
<1>19. AllKnown'
  <2> SUFFICES ASSUME NEW u \in Threads PROVE Known(threads[u])'
    BY DEF AllKnown
  <2>1. PICK tu \in {Idle} \cup Thread : tu = threads[u]
    BY <1>0 DEF TypeOK
  <2>2. Known(tu)' /\ Known(Idle)'
    BY <1>0, <1>4, <1>5, <2>1, IdleKnown DEF AllKnown, Known
  <2>3. threads'[u] = IF u = t THEN Idle ELSE tu
    BY <1>0, <1>6, <2>1 DEF TypeOK
  <2> QED
    BY <2>2, <2>3 DEF Known
<1>20. NoneOlder'
  <2>1. Above(Idle, t)
    BY IdleKnown, AboveIdle
  <2> QED
    BY <1>5, <1>6, <2>1, NoneOlderKept
<1>21. AllTold'
  <2>1. \A r : Told(r) => Told(r)'
    BY <1>4, <1>5 DEF Told
  <2> QED
    BY <1>0, <1>13, <1>14, <2>1 DEF AllTold
<1> QED
  BY <1>16, <1>17, <1>18, <1>19, <1>20, <1>21 DEF IInv

-----------------------------------------------------------------------------
(* The theorems *)

LEMMA NextStep ==
    ASSUME ConstantsAssumption, IInv, [Next]_vars
    PROVE  IInv'
<1>1. CASE UNCHANGED vars
  BY <1>1 DEF vars, IInv, TypeOK, Listing, Source, Complete, AllKnown, Known, NoneOlder, Floor,
              AllTold, Told, Served, At
<1>2. CASE List
  BY <1>2, ListStep
<1>3. CASE Tick
  BY <1>3, TickStep
<1>4. ASSUME NEW t \in Threads,
             \/ Signal(t) \/ Delta(t) \/ Check(t) \/ Get(t) \/ GetFails(t)
             \/ Store(t) \/ Mark(t) \/ Reread(t) \/ Prepare(t)
      PROVE  IInv'
  BY <1>4, SignalStep, DeltaStep, CheckStep, GetStep, GetFailsStep, StoreStep, MarkStep,
     RereadStep, PrepareStep
<1> QED
  BY <1>1, <1>2, <1>3, <1>4 DEF Next

\* The inductive invariant: what is stored was complete when it was had, what a
\* thread holds is no older than what it replaces, and what was told stays told.
THEOREM Invariance == Spec => []IInv
<1>1. ConstantsAssumption
  BY ConstantsAssumption
<1>2. Init => IInv
  BY <1>1, InitInv
<1>3. IInv /\ [Next]_vars => IInv'
  BY <1>1, NextStep
<1> QED
  BY <1>2, <1>3, PTL DEF Spec

\* The tables and the threads' locals keep their types; the current content is
\* one that is stored.
THEOREM TypeCorrect == Spec => []TypeOK
<1>1. IInv => TypeOK
  BY DEF IInv
<1> QED
  BY <1>1, Invariance, PTL

\* A result knows every filing listed longer before its request than the age asked
\* for and the time an answer travels, whatever the other threads stored meanwhile.
THEOREM FreshAnswersTheorem == Spec => []FreshAnswers
<1>1. IInv => FreshAnswers
  <2> SUFFICES ASSUME IInv, NEW t \in Threads, At(t, "prepare")
               PROVE  threads[t].due \subseteq 1..threads[t].rows
    BY DEF FreshAnswers
  <2>1. /\ \A i \in threads[t].due : i \in 1..Served /\ i <= threads[t].rows
        /\ threads[t].rows \in Contents
    BY DEF IInv, AllKnown, Known, At
  <2> SUFFICES ASSUME NEW i \in threads[t].due PROVE i \in 1..threads[t].rows
    OBVIOUS
  <2>2. i \in 1..Served /\ Served \in Nat /\ i <= threads[t].rows /\ threads[t].rows \in Int
    BY <2>1 DEF IInv, TypeOK, Served, Contents
  <2> QED
    BY <2>2
<1> QED
  BY <1>1, Invariance, PTL

\* A client that asks next from next_since less Transit and Lag misses no filing,
\* unless as many newer ones are told as one signal may hold.
THEOREM WindowCompleteTheorem == Spec => []WindowComplete
<1>1. ASSUME ConstantsAssumption, IInv PROVE WindowComplete
  <2> SUFFICES ASSUME NEW r \in results, r.kind = "signal", NEW i \in 1..Served,
                      r.since < accepted[i], accepted[i] < r.moment - Transit - Lag
               PROVE  i \in r.filings \/ Cardinality(r.filings) = MaxFilings
    BY DEF WindowComplete
  <2>1. Told(r) /\ r.rows \in Contents /\ r.moment \in Times /\ r.since \in Nat
    BY <1>1 DEF IInv, AllTold, TypeOK, Prepared
  <2>2. retrieved[r.rows] = r.moment /\ r.moment # None /\ r.moment \in Nat
    BY <2>1 DEF Told, Times, None
  <2>3. Complete(r.rows, r.moment)
    BY <1>1, <2>1, <2>2 DEF IInv, Source
  <2>4. listed[i] \in Nat /\ accepted[i] \in Nat /\ Lag \in Nat /\ Transit \in Nat
    <3>1. i \in 1..Len(accepted) /\ accepted \in Seq(Times)
      BY <1>1 DEF IInv, TypeOK
    <3> QED
      BY <1>1, <3>1, Facts DEF Times, ConstantsAssumption
  <2>5. listed[i] <= accepted[i] + Lag
    BY <1>1 DEF IInv, Listing
  <2>6. listed[i] + Transit < r.moment
    BY <2>2, <2>4, <2>5
  <2>7. i <= r.rows /\ r.rows \in Nat /\ i \in 1..r.rows
    BY <1>1, <2>1, <2>3, <2>6, Facts DEF Complete, Contents
  <2>8. accepted[i] > r.since
    BY <2>1, <2>4
  <2> QED
    BY <2>1, <2>7, <2>8 DEF Told
<1>2. ConstantsAssumption
  BY ConstantsAssumption
<1>3. IInv => WindowComplete
  BY <1>1, <1>2
<1> QED
  BY <1>3, Invariance, PTL

\* A stored result tells the moment its content was first had, so that preparing it
\* again gives the same result.
THEOREM ResultsReproducibleTheorem == Spec => []ResultsReproducible
<1>1. IInv => ResultsReproducible
  BY DEF IInv, AllTold, Told, ResultsReproducible
<1> QED
  BY <1>1, Invariance, PTL

(***************************************************************************)
(* FormDSearch, for any filings, days, page limits and number of clients.  *)
(* Its inductive invariant: what lies up to and including the row a page   *)
(* ended on has been scanned, in the indexes no page had to do without.    *)
(***************************************************************************)
Behind(cursor, r) == cursor # NoCursor /\ ~Precedes(<<cursor, 1>>, r)

ScannedSoFar(walk) ==
    \A r \in Candidates(walk.present \ walk.missed) :
        (walk.pc = "done" \/ Behind(walk.cursor, r)) => r \in walk.scanned

WalkInv == WalksTypeOK /\ \A c \in Clients : walks[c] # NoWalk => ScannedSoFar(walks[c])

-----------------------------------------------------------------------------
(* Lemmas about rows and pages *)

\* A row is an accession and a number from 1.
LEMMA RowType ==
    ASSUME NEW r \in Rows
    PROVE  r = <<r[1], r[2]>> /\ r[1] \in Accessions /\ r[1] \in Nat \ {0} /\ r[2] \in Nat \ {0}
  <1>1. PICK a \in Accessions : r \in {a} \X (1..Issuers[a])
    BY DEF Rows
  <1>2. Issuers[a] \in Nat
    BY FormDAssumption
  <1> QED
    BY <1>1, <1>2, FormDAssumption

\* What lies up to the last row of a page is behind the cursor it was asked
\* with, or on the page.
LEMMA PageCovers ==
    ASSUME NEW available, NEW cursor \in Accessions \cup {NoCursor}, NEW limit,
           NEW page, page \subseteq After(available, cursor),
           IsPage(page, After(available, cursor), limit),
           NEW row, IsLast(row, page),
           NEW r \in Candidates(available), Behind(row[1], r)
    PROVE  Behind(cursor, r) \/ r \in page
  <1>1. SUFFICES ASSUME r \in After(available, cursor) PROVE r \in page
    BY DEF After, Behind
  <1>2. r \in Rows /\ row \in Rows /\ row \in page
    BY DEF Candidates, After, IsLast
  <1>3. r = row \/ Precedes(r, row)
    BY <1>2, RowType DEF Behind, Precedes
  <1> QED
    BY <1>1, <1>2, <1>3 DEF IsPage

-----------------------------------------------------------------------------
(* Invariance *)

\* What one page does to a walk keeps both parts of the invariant.
LEMMA AnswerKeeps ==
    ASSUME WalkInv, NEW c \in Clients, NEW available \in SUBSET published, Answer(c, available)
    PROVE  WalkInv'
  <1>1. PICK walk \in Walk : walk = walks[c] /\ walk.pc = "paging" /\ walk # NoWalk
    <2>1. walks[c] \in {NoWalk} \cup Walk
      BY DEF WalkInv, WalksTypeOK
    <2> QED
      BY <2>1 DEF Answer, NoWalk
  <1> DEFINE candidates == After(available, walk.cursor)
  <1>2. available \subseteq Days /\ candidates \subseteq Rows
    BY DEF WalkInv, WalksTypeOK, After, Candidates
  <1>3. walk.cursor \in Accessions \cup {NoCursor} /\ walk.missed \subseteq walk.present
    BY <1>1 DEF Walk, WalkInv, WalksTypeOK
  <1>4. ScannedSoFar(walk)
    BY <1>1 DEF WalkInv
  <1>5. SUFFICES ASSUME NEW after \in Walk, walks' = [walks EXCEPT ![c] = after],
                        after.present = walk.present, after.missed \subseteq after.present,
                        ScannedSoFar(after)
                 PROVE  WalkInv'
    <2>1. PICK page \in SUBSET candidates :
             /\ IsPage(page, candidates, walk.limit)
             /\ \/ /\ page = candidates
                   /\ walks' = [walks EXCEPT ![c] = Turned(walk, available, page, "done", NoCursor)]
                \/ /\ page # candidates
                   /\ \E row \in page :
                         /\ IsLast(row, page)
                         /\ walks' = [walks EXCEPT ![c] =
                                Turned(walk, available, page, "paging", row[1])]
      BY <1>1 DEF Answer
    <2>2. page \in SUBSET Rows /\ available \in SUBSET Days
      BY <1>2
    <2>3. CASE page = candidates
               /\ walks' = [walks EXCEPT ![c] = Turned(walk, available, page, "done", NoCursor)]
      <3> DEFINE after == Turned(walk, available, page, "done", NoCursor)
      <3>1. /\ after \in Walk /\ after.present = walk.present
            /\ after.scanned = walk.scanned \cup page
            /\ after.missed = walk.missed \cup (walk.present \ available)
        <4>1. "done" \in {"paging", "done"} /\ NoCursor \in Accessions \cup {NoCursor}
          OBVIOUS
        <4> QED
          BY <2>2, <4>1 DEF Turned, Walk
      <3>2. ASSUME NEW r \in Candidates(after.present \ after.missed)
            PROVE  r \in after.scanned
        <4>1. r \in Candidates(walk.present \ walk.missed) /\ r \in Candidates(available)
          BY <3>1 DEF Candidates
        <4>2. Behind(walk.cursor, r) \/ r \in candidates
          BY <4>1 DEF Behind, After
        <4> QED
          BY <1>4, <2>3, <3>1, <4>1, <4>2 DEF ScannedSoFar
      <3>3. ScannedSoFar(after)
        BY <3>2 DEF ScannedSoFar
      <3> HIDE DEF after
      <3> QED
        BY <1>3, <1>5, <2>3, <3>1, <3>3 DEF after
    <2>4. CASE \E row \in page :
                  /\ IsLast(row, page)
                  /\ walks' = [walks EXCEPT ![c] =
                         Turned(walk, available, page, "paging", row[1])]
      <3>1. PICK row \in page :
                  /\ IsLast(row, page)
                  /\ walks' = [walks EXCEPT ![c] =
                         Turned(walk, available, page, "paging", row[1])]
        BY <2>4
      <3> DEFINE after == Turned(walk, available, page, "paging", row[1])
      <3>2. row[1] \in Accessions
        BY <2>2, RowType
      <3>3. /\ after \in Walk /\ after.present = walk.present
            /\ after.pc = "paging" /\ after.cursor = row[1]
            /\ after.scanned = walk.scanned \cup page
            /\ after.missed = walk.missed \cup (walk.present \ available)
        <4>1. row[1] \in Accessions \cup {NoCursor}
          BY <3>2
        <4>2. "paging" \in {"paging", "done"}
          OBVIOUS
        <4> QED
          BY <2>2, <4>1, <4>2 DEF Turned, Walk
      <3>4. ASSUME NEW r \in Candidates(after.present \ after.missed), Behind(row[1], r)
            PROVE  r \in after.scanned
        <4>1. r \in Candidates(walk.present \ walk.missed) /\ r \in Candidates(available)
          BY <3>3 DEF Candidates
        <4>2. Behind(walk.cursor, r) \/ r \in page
          BY <1>3, <2>1, <3>1, <3>4, <4>1, PageCovers
        <4> QED
          BY <1>4, <3>3, <4>1, <4>2 DEF ScannedSoFar
      <3>5. ScannedSoFar(after)
        BY <3>3, <3>4 DEF ScannedSoFar
      <3> HIDE DEF after
      <3> QED
        BY <1>3, <1>5, <3>1, <3>3, <3>5 DEF after
    <2> QED
      BY <2>1, <2>3, <2>4
  <1>6. published' = published
    BY DEF Answer
  <1> QED
    BY <1>1, <1>5, <1>6 DEF WalkInv, WalksTypeOK, NoWalk

\* Every step keeps the invariant.
LEMMA WalkStepKeeps == WalkInv /\ [WalkNext]_walkVars => WalkInv'
  <1> SUFFICES ASSUME WalkInv, [WalkNext]_walkVars PROVE WalkInv'
    OBVIOUS
  <1>1. ASSUME NEW d \in Days, Publish(d) PROVE WalkInv'
    BY <1>1 DEF Publish, WalkInv, WalksTypeOK, ScannedSoFar, Candidates, Behind
  <1>2. ASSUME NEW c \in Clients, Begin(c) PROVE WalkInv'
    <2>1. PICK limit \in Limits :
            walks' = [walks EXCEPT ![c] =
              [pc |-> "paging", limit |-> limit, cursor |-> NoCursor,
               present |-> published, missed |-> {}, scanned |-> {}]]
      BY <1>2 DEF Begin
    <2> DEFINE begun == [pc |-> "paging", limit |-> limit, cursor |-> NoCursor,
                         present |-> published, missed |-> {}, scanned |-> {}]
    <2>2. begun \in Walk /\ begun.missed = {} /\ begun.present = published
      BY DEF Walk, WalkInv, WalksTypeOK
    <2>3. ScannedSoFar(begun)
      BY DEF ScannedSoFar, Behind
    <2> HIDE DEF begun
    <2>4. walks' = [walks EXCEPT ![c] = begun] /\ published' = published
      BY <1>2, <2>1 DEF Begin, begun
    <2> QED
      BY <2>2, <2>3, <2>4 DEF WalkInv, WalksTypeOK
  <1>3. CASE UNCHANGED walkVars
    BY <1>3 DEF walkVars, WalkInv, WalksTypeOK, ScannedSoFar, Candidates, Behind
  <1> QED
    BY <1>1, <1>2, <1>3, AnswerKeeps DEF WalkNext

LEMMA WalkInvariance == WalkSpec => []WalkInv
  <1>1. WalkInit => WalkInv
    BY DEF WalkInit, WalkInv, WalksTypeOK
  <1> QED
    BY <1>1, WalkStepKeeps, PTL DEF WalkSpec

-----------------------------------------------------------------------------
(* Results *)

\* The variables keep their types, for any number of clients, filings and days.
THEOREM WalksTypeCorrect == WalkSpec => []WalksTypeOK
  <1>1. WalkInv => WalksTypeOK
    BY DEF WalkInv
  <1> QED
    BY <1>1, WalkInvariance, PTL

\* A walk that ends has gone through everything that was there when it began, but
\* for the indexes one of its pages could not have.
THEOREM NothingSkippedTheorem == WalkSpec => []NothingSkipped
  <1>1. WalkInv => NothingSkipped
    BY DEF WalkInv, NothingSkipped, ScannedSoFar, NoWalk
  <1> QED
    BY <1>1, WalkInvariance, PTL

\* Following next_cursor never goes back to a newer filing.
THEOREM CursorsDescendTheorem == WalkSpec => CursorsDescend
  <1>1. WalkInv /\ [WalkNext]_walkVars =>
          [\A c \in Clients : walks[c].pc = "paging" /\ walks'[c].pc = "paging"
              /\ walks[c].cursor # NoCursor => walks'[c].cursor <= walks[c].cursor]_walkVars
    <2> SUFFICES ASSUME WalkInv, WalkNext, NEW c \in Clients, walks[c].pc = "paging",
                        walks'[c].pc = "paging", walks[c].cursor # NoCursor
                 PROVE  walks'[c].cursor <= walks[c].cursor
      OBVIOUS
    <2>1. walks[c] \in Walk /\ walks[c].cursor \in Accessions /\ walks[c].cursor \in Nat
      <3>1. walks[c] \in {NoWalk} \cup Walk
        BY DEF WalkInv, WalksTypeOK
      <3>2. walks[c] \in Walk
        BY <3>1 DEF NoWalk
      <3> QED
        BY <3>2, FormDAssumption DEF Walk
    <2>2. CASE walks'[c] = walks[c]
      BY <2>1, <2>2
    <2>3. ASSUME NEW available \in SUBSET published, Answer(c, available),
                 NEW page \in SUBSET After(available, walks[c].cursor), NEW row \in page,
                 walks' = [walks EXCEPT ![c] =
                             Turned(walks[c], available, page, "paging", row[1])]
          PROVE  walks'[c].cursor <= walks[c].cursor
      <3>1. row \in Rows /\ Precedes(<<walks[c].cursor, 1>>, row)
        BY DEF After, Candidates
      <3>2. walks'[c] = Turned(walks[c], available, page, "paging", row[1])
        BY <2>3 DEF WalkInv, WalksTypeOK
      <3>3. walks'[c].cursor = row[1]
        BY <3>1, <3>2, <2>1 DEF Turned, Walk
      <3> QED
        BY <2>1, <3>1, <3>3, RowType DEF Precedes
    <2>4. ASSUME NEW available \in SUBSET published, Answer(c, available),
                 NEW page \in SUBSET After(available, walks[c].cursor),
                 walks' = [walks EXCEPT ![c] =
                             Turned(walks[c], available, page, "done", NoCursor)]
          PROVE  walks'[c].cursor <= walks[c].cursor
      <3>1. walks'[c] = Turned(walks[c], available, page, "done", NoCursor)
        BY <2>4 DEF WalkInv, WalksTypeOK
      <3> QED
        BY <2>1, <3>1 DEF Turned, Walk
    <2>5. ASSUME NEW d \in Clients, d # c,
                 Begin(d) \/ \E available \in SUBSET published : Answer(d, available)
          PROVE  walks'[c] = walks[c]
      BY <2>5 DEF Begin, Answer, WalkInv, WalksTypeOK
    <2>6. ASSUME Begin(c) PROVE FALSE
      BY <2>6 DEF Begin
    <2>7. ASSUME NEW available \in SUBSET published, Answer(c, available)
          PROVE  walks'[c].cursor <= walks[c].cursor
      <3>1. PICK page \in SUBSET After(available, walks[c].cursor) :
               \/ walks' = [walks EXCEPT ![c] =
                               Turned(walks[c], available, page, "done", NoCursor)]
               \/ \E row \in page : walks' = [walks EXCEPT ![c] =
                               Turned(walks[c], available, page, "paging", row[1])]
        BY <2>7 DEF Answer
      <3> QED
        BY <2>3, <2>4, <2>7, <3>1
    <2>8. ASSUME NEW d \in Days, Publish(d) PROVE walks'[c] = walks[c]
      BY <2>8 DEF Publish
    <2> QED
      BY <2>2, <2>5, <2>6, <2>7, <2>8 DEF WalkNext
  <1> QED
    BY <1>1, WalkInvariance, PTL DEF WalkSpec, CursorsDescend

=============================================================================
