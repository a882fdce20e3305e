------------------------- MODULE PaidRequests_proofs -------------------------
(***************************************************************************)
(* The pipeline keeps its types and implements PaidService: for any calls, *)
(* payments, requests, prices and cap, and any number of days, versions    *)
(* and restarts.                                                           *)
(***************************************************************************)
EXTENDS PaidRequests, LedgerSum_proofs

\* The price no other exceeds.
Dearest == CHOOSE r \in Requests : \A q \in Requests : Price[q] <= Price[r]
MaxPrice == Price[Dearest]

\* What a request may rely on where it stands.  Past the cap it has a day; past
\* the challenge it has a payment; from the moment the payment may be taken on,
\* the payment stands for exactly what it asked for; and one that is answered as
\* fulfilled was taken.
ProofOf(call) == <<call.payment, call.request, call.version>>
Safe(call) ==
    /\ call.pc \notin {"cap", "done"} => call.day \in Days
    /\ call.pc \in {"prepare", "bind", "insert", "handle", "intent",
                    "intend", "build", "settle"} => call.payment \in Payments
    /\ call.pc \in {"handle", "settle"} => ProofOf(call) \in bindings
    /\ (call.pc = "verify" /\ call.payment # NoPayment /\ Kind[call.request] = "prepared")
           => ProofOf(call) \in bindings
    /\ (call.pc = "record" /\ call.reply = "fulfilled")
           => /\ call.payment \in Payments /\ ProofOf(call) \in bindings
              /\ settled[call.payment] # NoRow

OneBinding == \A a, b \in bindings : a[1] = b[1] => a = b

IInv ==
    /\ TypeOK
    /\ \A c \in Calls : calls[c] # Idle => Safe(calls[c])
    /\ OneBinding
    /\ \A c \in Calls : ledger[c].price <= MaxPrice

-----------------------------------------------------------------------------
(* Constants, calls and sums *)

LEMMA Constants ==
    /\ NoCall \notin Calls /\ NoPayment \notin Payments /\ IsFiniteSet(Calls)
    /\ Days \subseteq Nat \ {0} /\ 1 \in Days
    /\ Dearest \in Requests /\ MaxPrice \in Nat
    /\ \A r \in Requests : Price[r] \in Nat \ {0} /\ Price[r] <= MaxPrice
    /\ \A r \in Requests : Kind[r] \in {"prepared", "procured", "composed"}
  <1>1. Dearest \in Requests /\ \A r \in Requests : Price[r] <= Price[Dearest]
    BY ConstantsAssumption DEF Dearest
  <1> QED
    BY <1>1, ConstantsAssumption DEF MaxPrice, Days

\* A request that is under way has all its variables.
LEMMA UnderWay ==
    ASSUME IInv, NEW c \in Calls, calls[c].pc # "idle"
    PROVE  \E old \in Call : /\ old = calls[c] /\ Safe(old) /\ calls[c] # Idle
                             /\ Payment(c) = old.payment /\ Request(c) = old.request
                             /\ PriceOf(c) = Price[old.request] /\ Proof(c) = ProofOf(old)
  <1>1. calls[c] \in {Idle} \cup Call
    BY DEF IInv, TypeOK
  <1>2. calls[c] \in Call /\ calls[c] # Idle
    BY <1>1 DEF Idle
  <1>3. Safe(calls[c])
    BY <1>2 DEF IInv
  <1> QED
    BY <1>2, <1>3 DEF Payment, Request, PriceOf, Proof, ProofOf

LEMMA RevenueType == ASSUME IInv, NEW d \in Days PROVE RevenueSince(d) \in Nat
  <1> DEFINE amount == [c \in Calls |-> ledger[c].price]
             rows == {c \in Calls : ledger[c].day >= d}
  <1>1. IsFiniteSet(rows)
    BY Constants, FS_Subset
  <1>2. \A c \in rows : amount[c] \in 0..MaxPrice
    BY Constants DEF IInv, TypeOK
  <1> HIDE DEF amount, rows
  <1>3. Total(amount, rows) \in Nat
    BY <1>1, <1>2, Constants, TotalType
  <1> QED
    BY <1>3 DEF RevenueSince, amount, rows

-----------------------------------------------------------------------------
(* Invariance *)

\* A step of one request that leaves it safe and takes nothing back.
LEMMA MoveKeeps ==
    ASSUME IInv, NEW c \in Calls, NEW new \in Call, calls' = [calls EXCEPT ![c] = new],
           Safe(new)',
           bindings \subseteq bindings', OneBinding',
           bindings' \subseteq Payments \X Requests \X (0..MaxVersion),
           settled' \in [Payments -> [price : Nat, day : 0..MaxDay]],
           \A p \in Payments : settled[p] # NoRow => settled'[p] # NoRow,
           intents' \subseteq Payments \X Requests,
           fulfillments' \subseteq Payments \X Requests \X (0..MaxVersion),
           ledger' \in [Calls -> [price : Nat, day : 0..MaxDay]],
           \A d \in Calls : ledger'[d].price <= MaxPrice,
           reserved' \in [Days -> Nat],
           capLock' \in Calls \cup {NoCall},
           \A d \in Calls : (capLock' = d) <=> (calls'[d].pc = "reserve"),
           UNCHANGED <<version, day, restarts>>
    PROVE  IInv'
  <1>1. calls' \in [Calls -> {Idle} \cup Call] /\ calls'[c] = new
    BY DEF IInv, TypeOK
  <1>2. ASSUME NEW d \in Calls, calls'[d] # Idle
        PROVE  Safe(calls[d])'
    <2>1. CASE d = c
      BY <1>1, <2>1
    <2>2. CASE d # c
      <3>1. calls'[d] = calls[d] /\ calls[d] # Idle
        BY <1>2, <2>2 DEF IInv, TypeOK
      <3>2. PICK old \in Call : old = calls[d]
        BY <3>1 DEF IInv, TypeOK
      <3>3. Safe(old)
        BY <3>1, <3>2 DEF IInv
      <3>4. Safe(old)'
        BY <3>3 DEF Safe, ProofOf
      <3> QED
        BY <3>1, <3>2, <3>4
    <2> QED
      BY <2>1, <2>2
  <1>3. ASSUME NEW d \in Calls
        PROVE  /\ calls'[d].pc \notin {"idle", "cap", "reserve", "done"} => calls'[d].day \in Days
               /\ calls'[d].pc \in {"prepare", "bind", "insert", "handle", "intent",
                                    "intend", "build", "settle"} => calls'[d].payment # NoPayment
    <2>1. CASE calls'[d] = Idle
      BY <2>1 DEF Idle
    <2>2. CASE calls'[d] # Idle
      BY <1>2, <2>2, Constants DEF Safe
    <2> QED
      BY <2>1, <2>2
  <1>4. TypeOK'
    BY <1>1, <1>3 DEF IInv, TypeOK, At, Payment
  <1> QED
    BY <1>1, <1>2, <1>4 DEF IInv

\* What moves only the request itself, and maybe gives its reservation back.
LEMMA QuietKeeps ==
    ASSUME IInv, NEW c \in Calls, calls[c].pc # "reserve",
           NEW new \in Call, new.pc # "reserve", Safe(new),
           calls' = [calls EXCEPT ![c] = new], reserved' \in [Days -> Nat],
           UNCHANGED <<capLock, stored, external>>
    PROVE  IInv'
  <1>1. Safe(new)'
    BY DEF Safe, ProofOf, stored, external
  <1>2. calls'[c] = new /\ \A d \in Calls \ {c} : calls'[d] = calls[d]
    BY DEF IInv, TypeOK
  <1>3. capLock' \in Calls \cup {NoCall}
        /\ \A d \in Calls : (capLock' = d) <=> (calls'[d].pc = "reserve")
    BY <1>2 DEF IInv, TypeOK, At
  <1>4. /\ UNCHANGED <<bindings, settled, intents, fulfillments, ledger, version, day, restarts>>
        /\ OneBinding'
    BY DEF stored, external, IInv, OneBinding
  <1> QED
    BY <1>1, <1>3, <1>4, MoveKeeps DEF IInv, TypeOK

Moved(c, new) == new \in Call /\ calls' = [calls EXCEPT ![c] = new]

LEMMA GoMoves ==
    ASSUME IInv, NEW c \in Calls, NEW old \in Call, old = calls[c],
           NEW pc \in {"cap", "reserve", "validate", "prepare", "bind", "insert", "verify",
                       "handle", "intent", "intend", "build", "settle", "record", "release",
                       "done"},
           Go(c, pc)
    PROVE  Moved(c, [old EXCEPT !.pc = pc])
  <1>1. [old EXCEPT !.pc = pc] \in Call
    BY DEF Call
  <1>2. calls' = [calls EXCEPT ![c] = [calls[c] EXCEPT !.pc = pc]]
    BY DEF Go
  <1> QED
    BY <1>1, <1>2 DEF Moved

LEMMA ReplyMoves ==
    ASSUME IInv, NEW c \in Calls, NEW old \in Call, old = calls[c],
           NEW reply \in {"none", "capped", "failed", "conflict", "error", "quote",
                          "unsettled", "fulfilled", "lost"}
    PROVE  /\ Respond(c, reply) => Moved(c, [old EXCEPT !.pc = "record", !.reply = reply])
           /\ Abort(c, reply) => Moved(c, [old EXCEPT !.pc = "release", !.reply = reply])
  <1>1. ASSUME NEW pc \in {"record", "release"}
        PROVE  [old EXCEPT !.pc = pc, !.reply = reply] \in Call
    <2>1. [old EXCEPT !.pc = pc] \in Call
      BY DEF Call
    <2>2. PICK mid \in Call : mid = [old EXCEPT !.pc = pc]
      BY <2>1
    <2>3. [mid EXCEPT !.reply = reply] \in Call
      BY DEF Call
    <2> QED
      BY <2>2, <2>3
  <1>2. Respond(c, reply) =>
          calls' = [calls EXCEPT ![c] = [calls[c] EXCEPT !.pc = "record", !.reply = reply]]
    BY DEF Respond
  <1>3. Abort(c, reply) =>
          calls' = [calls EXCEPT ![c] = [calls[c] EXCEPT !.pc = "release", !.reply = reply]]
    BY DEF Abort
  <1> QED
    BY <1>1, <1>2, <1>3 DEF Moved

\* Answering anything but "fulfilled" is safe.
LEMMA ReplySafe ==
    ASSUME NEW c, NEW old \in Call, Safe(old),
           old.pc \notin {"cap", "reserve", "done"}, NEW reply, reply # "fulfilled"
    PROVE  /\ Safe([old EXCEPT !.pc = "record", !.reply = reply])
           /\ Safe([old EXCEPT !.pc = "release", !.reply = reply])
BY DEF Call, Safe, ProofOf

Quiet(c) ==
    \/ Validate(c) \/ Prepare(c) \/ CheckBinding(c) \/ Verify(c) \/ Handle(c)
    \/ CheckIntent(c) \/ Build(c) \/ RecordFails(c)
SafelyMoved(c) == \E new \in Call : Moved(c, new) /\ Safe(new) /\ new.pc # "reserve"

LEMMA AnswersSafely ==
    ASSUME IInv, NEW c \in Calls, calls[c].pc \notin {"idle", "cap", "reserve", "done"},
           \/ \E reply \in {"failed", "conflict", "quote", "unsettled"} : Respond(c, reply)
           \/ \E reply \in {"failed", "conflict", "error"} : Abort(c, reply)
    PROVE  SafelyMoved(c)
  <1>1. PICK old \in Call : old = calls[c] /\ Safe(old)
    BY UnderWay
  <1>2. CASE \E reply \in {"failed", "conflict", "quote", "unsettled"} : Respond(c, reply)
    <2>1. PICK reply \in {"failed", "conflict", "quote", "unsettled"} : Respond(c, reply)
      BY <1>2
    <2> DEFINE new == [old EXCEPT !.pc = "record", !.reply = reply]
    <2>2. Moved(c, new)
      BY <1>1, <2>1, ReplyMoves
    <2>3. Safe(new)
      BY <1>1, ReplySafe
    <2>4. new.pc = "record"
      BY DEF Call
    <2> QED
      BY <2>2, <2>3, <2>4 DEF SafelyMoved, Moved
  <1>3. CASE \E reply \in {"failed", "conflict", "error"} : Abort(c, reply)
    <2>1. PICK reply \in {"failed", "conflict", "error"} : Abort(c, reply)
      BY <1>3
    <2> DEFINE new == [old EXCEPT !.pc = "release", !.reply = reply]
    <2>2. Moved(c, new)
      BY <1>1, <2>1, ReplyMoves
    <2>3. Safe(new)
      BY <1>1, ReplySafe
    <2>4. new.pc = "release"
      BY DEF Call
    <2> QED
      BY <2>2, <2>3, <2>4 DEF SafelyMoved, Moved
  <1> QED
    BY <1>2, <1>3

LEMMA GoesSafely ==
    ASSUME IInv, NEW c \in Calls, NEW old \in Call, old = calls[c],
           NEW pc \in {"validate", "prepare", "bind", "insert", "verify", "handle", "intent",
                       "intend", "build", "settle", "release", "done"},
           Go(c, pc), Safe([old EXCEPT !.pc = pc])
    PROVE  SafelyMoved(c)
  <1>1. Moved(c, [old EXCEPT !.pc = pc])
    BY GoMoves
  <1>2. [old EXCEPT !.pc = pc].pc = pc
    BY DEF Call
  <1> QED
    BY <1>1, <1>2 DEF SafelyMoved, Moved

LEMMA QuietMoves ==
    ASSUME IInv, NEW c \in Calls, Quiet(c)
    PROVE  SafelyMoved(c)
  <1>1. calls[c].pc \notin {"idle", "cap", "reserve", "done"}
    BY DEF Quiet, Validate, Prepare, CheckBinding, Verify, Handle, CheckIntent, Build,
           RecordFails, At
  <1>2. PICK old \in Call : /\ old = calls[c] /\ Safe(old)
                            /\ Payment(c) = old.payment /\ Request(c) = old.request
                            /\ Proof(c) = ProofOf(old)
    BY <1>1, UnderWay
  <1>3. SUFFICES ASSUME ~(\E reply \in {"failed", "conflict", "quote", "unsettled"} : Respond(c, reply)),
                        ~(\E reply \in {"failed", "conflict", "error"} : Abort(c, reply))
                 PROVE  SafelyMoved(c)
    BY <1>1, AnswersSafely
  <1>4. CASE Validate(c)
    <2>1. PICK pc \in {"prepare", "verify"} :
             /\ Go(c, pc)
             /\ pc = "prepare" => old.payment # NoPayment
             /\ pc = "verify" => ~(Kind[old.request] = "prepared" /\ old.payment # NoPayment)
      BY <1>2, <1>3, <1>4 DEF Validate
    <2>2. Safe([old EXCEPT !.pc = pc])
      BY <1>1, <1>2, <2>1 DEF Call, Safe, ProofOf
    <2> QED
      BY <1>2, <2>1, <2>2, GoesSafely
  <1>5. CASE Prepare(c)
    <2>1. calls' = [calls EXCEPT ![c] = [calls[c] EXCEPT !.pc = "bind", !.version = version]]
          /\ old.pc = "prepare"
      BY <1>2, <1>3, <1>5 DEF Prepare, At
    <2>2. PICK v \in 0..MaxVersion : v = version
      BY ConstantsAssumption DEF IInv, TypeOK
    <2>3. PICK mid \in Call : mid = [old EXCEPT !.pc = "bind"]
      <3>1. [old EXCEPT !.pc = "bind"] \in Call
        BY DEF Call
      <3> QED
        BY <3>1
    <2>4. [mid EXCEPT !.version = v] \in Call
      BY DEF Call
    <2> DEFINE new == [old EXCEPT !.pc = "bind", !.version = v]
    <2>5. new \in Call
      BY <2>3, <2>4
    <2>6. Safe(new) /\ new.pc = "bind"
      BY <1>2, <2>1 DEF Call, Safe, ProofOf
    <2>7. calls' = [calls EXCEPT ![c] = new]
      BY <1>2, <2>1, <2>2
    <2> QED
      BY <2>5, <2>6, <2>7 DEF SafelyMoved, Moved
  <1>6. CASE CheckBinding(c)
    <2>1. PICK pc \in {"verify", "settle", "insert"} :
             /\ Go(c, pc) /\ old.pc = "bind"
             /\ pc # "insert" => ProofOf(old) \in bindings
      BY <1>2, <1>3, <1>6 DEF CheckBinding, At, Refuse, AfterBind, OtherBinding
    <2>2. Safe([old EXCEPT !.pc = pc])
      BY <1>2, <2>1 DEF Call, Safe, ProofOf
    <2> QED
      BY <1>2, <2>1, <2>2, GoesSafely
  <1>7. CASE Verify(c)
    <2>1. /\ Go(c, FirstOf(Kind[old.request])) /\ old.pc = "verify"
          /\ old.payment # NoPayment
      BY <1>2, <1>3, <1>7 DEF Verify, At
    <2>2. old.payment \in Payments /\ old.request \in Requests
      BY <2>1 DEF Call
    <2>3. PICK pc \in {"handle", "intent", "build"} :
             pc = FirstOf(Kind[old.request])
             /\ (pc = "handle" => Kind[old.request] = "prepared")
      BY <2>2, Constants DEF FirstOf
    <2>4. Safe([old EXCEPT !.pc = pc])
      BY <1>2, <2>1, <2>2, <2>3 DEF Call, Safe, ProofOf
    <2> QED
      BY <1>2, <2>1, <2>3, <2>4, GoesSafely
  <1>8. CASE Handle(c)
    <2>1. Go(c, "settle") /\ old.pc = "handle"
      BY <1>2, <1>3, <1>8 DEF Handle, At
    <2>2. Safe([old EXCEPT !.pc = "settle"])
      BY <1>2, <2>1 DEF Call, Safe, ProofOf
    <2> QED
      BY <1>2, <2>1, <2>2, GoesSafely
  <1>9. CASE CheckIntent(c)
    <2>1. PICK pc \in {"build", "intend"} : Go(c, pc) /\ old.pc = "intent"
      BY <1>2, <1>3, <1>9 DEF CheckIntent, At
    <2>2. Safe([old EXCEPT !.pc = pc])
      BY <1>2, <2>1 DEF Call, Safe, ProofOf
    <2> QED
      BY <1>2, <2>1, <2>2, GoesSafely
  <1>10. CASE Build(c)
    <2>1. Go(c, "bind") /\ old.pc = "build"
      BY <1>2, <1>3, <1>10 DEF Build, At
    <2>2. Safe([old EXCEPT !.pc = "bind"])
      BY <1>2, <2>1 DEF Call, Safe, ProofOf
    <2> QED
      BY <1>2, <2>1, <2>2, GoesSafely
  <1>11. CASE RecordFails(c)
    <2>1. Go(c, "release") /\ old.pc = "record"
      BY <1>2, <1>11 DEF RecordFails, At
    <2>2. Safe([old EXCEPT !.pc = "release"])
      BY <1>2, <2>1 DEF Call, Safe, ProofOf
    <2> QED
      BY <1>2, <2>1, <2>2, GoesSafely
  <1> QED
    BY <1>4, <1>5, <1>6, <1>7, <1>8, <1>9, <1>10, <1>11 DEF Quiet

LEMMA QuietStep ==
    ASSUME IInv, NEW c \in Calls, Quiet(c)
    PROVE  IInv' /\ UNCHANGED <<capLock, reserved, stored, external>>
  <1>1. UNCHANGED <<capLock, reserved, stored, external>> /\ calls[c].pc # "reserve"
    BY DEF Quiet, Validate, Prepare, CheckBinding, Verify, Handle, CheckIntent, Build,
           RecordFails, At
  <1>2. PICK new \in Call : Moved(c, new) /\ Safe(new) /\ new.pc # "reserve"
    BY QuietMoves DEF SafelyMoved
  <1>3. reserved' \in [Days -> Nat]
    BY <1>1 DEF IInv, TypeOK
  <1>4. calls' = [calls EXCEPT ![c] = new]
    BY <1>2 DEF Moved
  <1>5. IInv'
    BY <1>1, <1>2, <1>3, <1>4, QuietKeeps
  <1> QED
    BY <1>1, <1>5

\* The other requests' places are theirs.
LEMMA OthersStay ==
    ASSUME IInv, NEW c \in Calls, NEW new \in Call, calls' = [calls EXCEPT ![c] = new]
    PROVE  calls'[c] = new /\ \A d \in Calls \ {c} : calls'[d] = calls[d]
BY DEF IInv, TypeOK

LEMMA ReadRevenueKeeps == ASSUME IInv, NEW c \in Calls, ReadRevenue(c) PROVE IInv'
  <1>1. PICK old \in Call : old = calls[c] /\ Safe(old) /\ old.pc = "cap"
    BY UnderWay DEF ReadRevenue, At
  <1>2. PICK d \in Days : d = day
    BY DEF IInv, TypeOK
  <1>3. PICK n \in Nat : n = RevenueSince(day)
    BY <1>2, RevenueType
  <1> DEFINE new == [old EXCEPT !.pc = "reserve", !.day = d, !.fulfilled = n]
  <1>4. new \in Call /\ new.pc = "reserve" /\ new.day = d
    <2>1. d \in 0..MaxDay
      BY ConstantsAssumption DEF Days
    <2>2. PICK one \in Call : one = [old EXCEPT !.pc = "reserve"]
      <3>1. [old EXCEPT !.pc = "reserve"] \in Call
        BY DEF Call
      <3> QED
        BY <3>1
    <2>3. PICK two \in Call : two = [one EXCEPT !.day = d]
      <3>1. [one EXCEPT !.day = d] \in Call
        BY <2>1 DEF Call
      <3> QED
        BY <3>1
    <2>4. [two EXCEPT !.fulfilled = n] \in Call
      BY DEF Call
    <2> QED
      BY <2>2, <2>3, <2>4 DEF Call
  <1>5. calls' = [calls EXCEPT ![c] = new]
    BY <1>1, <1>2, <1>3 DEF ReadRevenue
  <1>6. Safe(new) /\ Safe(new)'
    BY <1>4 DEF Safe
  <1> HIDE DEF new
  <1>7. /\ \A d1 \in Calls : calls[d1].pc # "reserve"
        /\ capLock' = c /\ UNCHANGED <<reserved, stored, external>>
    BY Constants DEF ReadRevenue, LockFree, IInv, TypeOK, At
  <1>8. \A d1 \in Calls : (capLock' = d1) <=> (calls'[d1].pc = "reserve")
    BY <1>4, <1>5, <1>7, OthersStay
  <1>9. /\ UNCHANGED <<bindings, settled, intents, fulfillments, ledger, reserved,
                       version, day, restarts>>
        /\ OneBinding'
    BY <1>7 DEF stored, external, IInv, OneBinding
  <1> QED
    BY <1>4, <1>5, <1>6, <1>7, <1>8, <1>9, MoveKeeps DEF IInv, TypeOK

LEMMA ReserveRevenueKeeps == ASSUME IInv, NEW c \in Calls, ReserveRevenue(c) PROVE IInv'
  <1>1. PICK old \in Call : /\ old = calls[c] /\ Safe(old) /\ old.pc = "reserve"
                            /\ PriceOf(c) = Price[old.request]
    BY UnderWay DEF ReserveRevenue, At
  <1>2. /\ old.day \in Days /\ Price[old.request] \in Nat /\ capLock = c /\ capLock' = NoCall
        /\ UNCHANGED <<stored, external>>
    BY <1>1, Constants DEF Safe, Call, ReserveRevenue, IInv, TypeOK
  <1>3. PICK new \in Call : /\ calls' = [calls EXCEPT ![c] = new]
                            /\ new.pc \in {"validate", "done"}
                            /\ new.pc = "validate" => new.day = old.day
                            /\ reserved' \in [Days -> Nat]
    <2>1. CASE FitsCap(c)
      <3>1. Go(c, "validate") /\ reserved' = [reserved EXCEPT ![old.day] = @ + Price[old.request]]
        BY <1>1, <2>1 DEF ReserveRevenue
      <3>2. reserved' \in [Days -> Nat]
        BY <1>2, <3>1 DEF IInv, TypeOK
      <3>3. Moved(c, [old EXCEPT !.pc = "validate"])
        BY <1>1, <3>1, GoMoves
      <3> QED
        BY <3>2, <3>3 DEF Moved, Call
    <2>2. CASE ~FitsCap(c)
      <3>1. calls' = [calls EXCEPT ![c] = [old EXCEPT !.pc = "done", !.day = 0, !.reply = "capped"]]
            /\ UNCHANGED reserved
        BY <1>1, <2>2 DEF ReserveRevenue
      <3>2. PICK one \in Call : one = [old EXCEPT !.pc = "done"]
        <4>1. [old EXCEPT !.pc = "done"] \in Call
          BY DEF Call
        <4> QED
          BY <4>1
      <3>3. PICK two \in Call : two = [one EXCEPT !.day = 0]
        <4>1. [one EXCEPT !.day = 0] \in Call
          BY ConstantsAssumption DEF Call
        <4> QED
          BY <4>1
      <3>4. [two EXCEPT !.reply = "capped"] \in Call
        BY DEF Call
      <3>5. [old EXCEPT !.pc = "done", !.day = 0, !.reply = "capped"] \in Call
        BY <3>2, <3>3, <3>4
      <3>6. [old EXCEPT !.pc = "done", !.day = 0, !.reply = "capped"].pc = "done"
        BY DEF Call
      <3>7. reserved' \in [Days -> Nat]
        BY <3>1 DEF IInv, TypeOK
      <3> QED
        BY <3>1, <3>5, <3>6, <3>7
    <2> QED
      BY <2>1, <2>2
  <1>4. Safe(new)'
    BY <1>2, <1>3 DEF Safe
  <1>5. \A d1 \in Calls : (capLock' = d1) <=> (calls'[d1].pc = "reserve")
    <2>1. \A d1 \in Calls \ {c} : calls[d1].pc # "reserve"
      BY <1>2 DEF IInv, TypeOK, At
    <2>2. calls'[c] = new /\ \A d1 \in Calls \ {c} : calls'[d1] = calls[d1]
      BY <1>3, OthersStay
    <2>3. \A d1 \in Calls : calls'[d1].pc # "reserve"
      BY <1>3, <2>1, <2>2
    <2> QED
      BY <1>2, <2>3, Constants
  <1>6. /\ UNCHANGED <<bindings, settled, intents, fulfillments, ledger, version, day, restarts>>
        /\ OneBinding'
    BY <1>2 DEF stored, external, IInv, OneBinding
  <1> QED
    BY <1>2, <1>3, <1>4, <1>5, <1>6, MoveKeeps DEF IInv, TypeOK

\* What one request changes without touching the lock.
LEMMA UnlockedMove ==
    ASSUME IInv, NEW c \in Calls, calls[c].pc # "reserve",
           NEW new \in Call, calls' = [calls EXCEPT ![c] = new], new.pc # "reserve",
           UNCHANGED capLock
    PROVE  \A d \in Calls : (capLock' = d) <=> (calls'[d].pc = "reserve")
  <1>1. calls'[c] = new /\ \A d \in Calls \ {c} : calls'[d] = calls[d]
    BY OthersStay
  <1> QED
    BY <1>1 DEF IInv, TypeOK, At

LEMMA InsertBindingKeeps == ASSUME IInv, NEW c \in Calls, InsertBinding(c) PROVE IInv'
  <1>1. PICK old \in Call : /\ old = calls[c] /\ Safe(old) /\ old.pc = "insert"
                            /\ Payment(c) = old.payment /\ Request(c) = old.request
                            /\ Proof(c) = ProofOf(old)
    BY UnderWay DEF InsertBinding, At
  <1>2. old.payment \in Payments
        /\ UNCHANGED <<capLock, reserved, intents, ledger, fulfillments, external>>
    BY <1>1 DEF Safe, InsertBinding
  <1>3. CASE KeyFree(c)
    <2>1. PICK pc \in {"verify", "settle"} :
             /\ Go(c, pc) /\ bindings' = bindings \cup {ProofOf(old)}
      BY <1>1, <1>3 DEF InsertBinding, AfterBind
    <2>2. PICK new \in Call : /\ calls' = [calls EXCEPT ![c] = new]
                              /\ new = [old EXCEPT !.pc = pc]
      <3>1. Moved(c, [old EXCEPT !.pc = pc])
        BY <1>1, <2>1, GoMoves
      <3> QED
        BY <3>1 DEF Moved
    <2>3. new.pc = pc /\ new.day = old.day /\ new.payment = old.payment /\ ProofOf(new) = ProofOf(old)
      BY <2>2 DEF Call, ProofOf
    <2>4. Safe(new)'
      BY <1>1, <1>2, <2>1, <2>3 DEF Safe, ProofOf
    <2>5. OneBinding'
      BY <1>1, <1>3, <2>1 DEF IInv, OneBinding, KeyFree, Bound, ProofOf
    <2>6. bindings' \subseteq Payments \X Requests \X (0..MaxVersion)
      BY <1>2, <2>1 DEF IInv, TypeOK, ProofOf, Call
    <2>7. \A d \in Calls : (capLock' = d) <=> (calls'[d].pc = "reserve")
      BY <1>1, <1>2, <2>2, <2>3, UnlockedMove
    <2>8. UNCHANGED <<settled, intents, fulfillments, ledger, reserved, capLock, version, day, restarts>>
      BY <1>2 DEF external
    <2> QED
      BY <2>1, <2>2, <2>4, <2>5, <2>6, <2>7, <2>8, MoveKeeps DEF IInv, TypeOK
  <1>4. CASE ~KeyFree(c)
    <2>1. Abort(c, "error") /\ UNCHANGED bindings
      BY <1>4 DEF InsertBinding
    <2>2. PICK new \in Call : Moved(c, new) /\ Safe(new) /\ new.pc # "reserve"
      BY <1>1, <2>1, AnswersSafely DEF SafelyMoved
    <2>3. UNCHANGED <<capLock, stored, external>> /\ reserved' \in [Days -> Nat]
      BY <1>2, <2>1 DEF stored, IInv, TypeOK
    <2>4. calls' = [calls EXCEPT ![c] = new]
      BY <2>2 DEF Moved
    <2> QED
      BY <1>1, <2>2, <2>3, <2>4, QuietKeeps
  <1> QED
    BY <1>3, <1>4

LEMMA InsertIntentKeeps == ASSUME IInv, NEW c \in Calls, InsertIntent(c) PROVE IInv'
  <1>1. PICK old \in Call : /\ old = calls[c] /\ Safe(old) /\ old.pc = "intend"
                            /\ Payment(c) = old.payment /\ Request(c) = old.request
    BY UnderWay DEF InsertIntent, At
  <1>2. old.payment \in Payments /\ old.request \in Requests
        /\ UNCHANGED <<capLock, reserved, bindings, ledger, fulfillments, external>>
    BY <1>1 DEF Safe, InsertIntent, Call
  <1>3. PICK new \in Call : /\ calls' = [calls EXCEPT ![c] = new] /\ Safe(new)
                            /\ new.pc # "reserve"
    <2>1. CASE Intended(c)
      <3>1. Abort(c, "error")
        BY <2>1 DEF InsertIntent
      <3> QED
        BY <1>1, <3>1, AnswersSafely DEF SafelyMoved, Moved
    <2>2. CASE ~Intended(c)
      <3>1. Go(c, "build")
        BY <2>2 DEF InsertIntent
      <3>2. Safe([old EXCEPT !.pc = "build"])
        BY <1>1 DEF Call, Safe, ProofOf
      <3> QED
        BY <1>1, <3>1, <3>2, GoesSafely DEF SafelyMoved, Moved
    <2> QED
      BY <2>1, <2>2
  <1>4. intents' \subseteq Payments \X Requests
    BY <1>1, <1>2 DEF InsertIntent, IInv, TypeOK
  <1>5. Safe(new)' /\ OneBinding'
        /\ UNCHANGED <<settled, bindings, fulfillments, ledger, reserved, capLock, version, day, restarts>>
    BY <1>2, <1>3 DEF external, Safe, ProofOf, IInv, OneBinding
  <1>6. \A d \in Calls : (capLock' = d) <=> (calls'[d].pc = "reserve")
    BY <1>1, <1>2, <1>3, UnlockedMove
  <1> QED
    BY <1>3, <1>4, <1>5, <1>6, MoveKeeps DEF IInv, TypeOK

\* Taking a payment that stands for something.
LEMMA TakenType ==
    ASSUME IInv, NEW c \in Calls, NEW old \in Call, old = calls[c], old.payment \in Payments,
           settled[old.payment] = NoRow, Taken(c)
    PROVE  /\ settled' \in [Payments -> [price : Nat, day : 0..MaxDay]]
           /\ \A p \in Payments : settled'[p] # NoRow <=> (settled[p] # NoRow \/ p = old.payment)
  <1>1. PICK row \in [price : Nat \ {0}, day : 0..MaxDay] :
           settled' = [settled EXCEPT ![old.payment] = row]
    <2>1. Price[old.request] \in Nat \ {0} /\ day \in 0..MaxDay
      BY Constants, ConstantsAssumption DEF Call, IInv, TypeOK, Days
    <2>2. settled' = [settled EXCEPT ![old.payment] = [price |-> Price[old.request], day |-> day]]
      BY DEF Taken, Payment, PriceOf, Request
    <2> QED
      BY <2>1, <2>2
  <1>2. row # NoRow /\ row \in [price : Nat, day : 0..MaxDay]
    BY DEF NoRow
  <1> QED
    BY <1>1, <1>2 DEF IInv, TypeOK

LEMMA SettleKeeps == ASSUME IInv, NEW c \in Calls, Settle(c) PROVE IInv'
  <1>1. PICK old \in Call : /\ old = calls[c] /\ Safe(old) /\ old.pc = "settle"
                            /\ Payment(c) = old.payment /\ Proof(c) = ProofOf(old)
    BY UnderWay DEF Settle, At
  <1>2. /\ old.payment \in Payments /\ ProofOf(old) \in bindings /\ old.day \in Days
        /\ UNCHANGED <<capLock, reserved, stored, version, day, restarts>>
    BY <1>1 DEF Safe, Settle
  <1>3. PICK reply \in {"fulfilled", "unsettled"} :
           /\ Respond(c, reply)
           /\ \/ settled[old.payment] = NoRow /\ Taken(c)
              \/ reply = "unsettled" /\ UNCHANGED settled
    BY <1>1 DEF Settle
  <1>4. /\ settled' \in [Payments -> [price : Nat, day : 0..MaxDay]]
        /\ \A p \in Payments : settled[p] # NoRow => settled'[p] # NoRow
        /\ reply = "fulfilled" => settled'[old.payment] # NoRow
    <2>1. CASE settled[old.payment] = NoRow /\ Taken(c)
      BY <1>1, <1>2, <2>1, TakenType
    <2>2. CASE reply = "unsettled" /\ UNCHANGED settled
      BY <2>2 DEF IInv, TypeOK
    <2> QED
      BY <1>3, <2>1, <2>2
  <1>5. PICK new \in Call : /\ calls' = [calls EXCEPT ![c] = new]
                            /\ new = [old EXCEPT !.pc = "record", !.reply = reply]
    <2>1. Moved(c, [old EXCEPT !.pc = "record", !.reply = reply])
      BY <1>1, <1>3, ReplyMoves
    <2> QED
      BY <2>1 DEF Moved
  <1>6. /\ new.pc = "record" /\ new.reply = reply /\ new.day = old.day
        /\ new.payment = old.payment /\ ProofOf(new) = ProofOf(old)
    BY <1>5 DEF Call, ProofOf
  <1>7. /\ UNCHANGED <<bindings, intents, fulfillments, ledger, reserved, capLock,
                       version, day, restarts>>
        /\ OneBinding'
    BY <1>2 DEF stored, IInv, OneBinding
  <1>8. Safe(new)'
    BY <1>2, <1>4, <1>6, <1>7 DEF Safe, ProofOf
  <1>9. \A d \in Calls : (capLock' = d) <=> (calls'[d].pc = "reserve")
    BY <1>1, <1>5, <1>6, <1>7, UnlockedMove
  <1> QED
    BY <1>4, <1>5, <1>7, <1>8, <1>9, MoveKeeps DEF IInv, TypeOK

LEMMA RecordKeeps ==
    ASSUME IInv, NEW c \in Calls, Record(c)
    PROVE  /\ IInv'
           /\ \/ UNCHANGED fulfillments
              \/ /\ Payment(c) \in Payments /\ settled[Payment(c)] # NoRow
                 /\ Proof(c) \in bindings
                 /\ fulfillments' = fulfillments \cup {Proof(c)}
  <1>1. PICK old \in Call : /\ old = calls[c] /\ Safe(old) /\ old.pc = "record"
                            /\ Payment(c) = old.payment /\ Proof(c) = ProofOf(old)
                            /\ PriceOf(c) = Price[old.request]
    BY UnderWay DEF Record, At
  <1>2. /\ old.day \in Days /\ UNCHANGED <<capLock, reserved, intents, bindings, external>>
        /\ Price[old.request] \in Nat /\ Price[old.request] <= MaxPrice /\ day \in 0..MaxDay
    BY <1>1, Constants, ConstantsAssumption DEF Safe, Record, Call, IInv, TypeOK, Days
  <1>3. PICK new \in Call : /\ calls' = [calls EXCEPT ![c] = new]
                            /\ Safe(new) /\ new.pc # "reserve"
    <2>1. Go(c, "release")
      BY DEF Record
    <2>2. Safe([old EXCEPT !.pc = "release"])
      BY <1>1 DEF Call, Safe, ProofOf
    <2> QED
      BY <1>1, <2>1, <2>2, GoesSafely DEF SafelyMoved, Moved
  <1>4. /\ ledger' \in [Calls -> [price : Nat, day : 0..MaxDay]]
        /\ \A d \in Calls : ledger'[d].price <= MaxPrice
        /\ \/ UNCHANGED fulfillments
           \/ /\ old.payment \in Payments /\ settled[old.payment] # NoRow
              /\ ProofOf(old) \in bindings
              /\ fulfillments' = fulfillments \cup {ProofOf(old)}
    <2>1. CASE Counts(c)
      <3>1. PICK row \in [price : Nat, day : 0..MaxDay] :
               row.price <= MaxPrice /\ ledger' = [ledger EXCEPT ![c] = row]
        <4>1. ledger' = [ledger EXCEPT ![c] = [price |-> Price[old.request], day |-> day]]
          BY <1>1, <2>1 DEF Record
        <4> QED
          BY <1>2, <4>1
      <3>2. /\ ledger' \in [Calls -> [price : Nat, day : 0..MaxDay]]
            /\ \A d \in Calls : ledger'[d].price <= MaxPrice
        BY <3>1 DEF IInv, TypeOK
      <3> QED
        BY <1>1, <2>1, <3>2 DEF Record, Counts, Safe
    <2>2. CASE ~Counts(c)
      BY <2>2 DEF Record, IInv, TypeOK
    <2> QED
      BY <2>1, <2>2
  <1>5. fulfillments' \subseteq Payments \X Requests \X (0..MaxVersion)
    BY <1>4 DEF IInv, TypeOK
  <1>6. Safe(new)' /\ OneBinding'
        /\ UNCHANGED <<settled, bindings, intents, reserved, capLock, version, day, restarts>>
    BY <1>2, <1>3 DEF external, Safe, ProofOf, IInv, OneBinding
  <1>7. \A d \in Calls : (capLock' = d) <=> (calls'[d].pc = "reserve")
    BY <1>1, <1>2, <1>3, UnlockedMove
  <1>8. IInv'
    BY <1>3, <1>4, <1>5, <1>6, <1>7, MoveKeeps DEF IInv, TypeOK
  <1> QED
    BY <1>1, <1>4, <1>8

LEMMA ReleaseKeeps == ASSUME IInv, NEW c \in Calls, Release(c) PROVE IInv'
  <1>1. PICK old \in Call : /\ old = calls[c] /\ Safe(old) /\ old.pc = "release"
                            /\ PriceOf(c) = Price[old.request]
    BY UnderWay DEF Release, At
  <1>2. /\ old.day \in Days /\ Price[old.request] \in Nat
        /\ UNCHANGED <<capLock, stored, external>>
    BY <1>1, Constants DEF Safe, Release, Call
  <1>3. PICK new \in Call : /\ calls' = [calls EXCEPT ![c] = new]
                            /\ Safe(new) /\ new.pc # "reserve"
    <2>1. Go(c, "done")
      BY DEF Release
    <2>2. Safe([old EXCEPT !.pc = "done"])
      BY <1>1 DEF Call, Safe, ProofOf
    <2> QED
      BY <1>1, <2>1, <2>2, GoesSafely DEF SafelyMoved, Moved
  <1>4. reserved' \in [Days -> Nat]
    <2>1. reserved' = [reserved EXCEPT ![old.day] =
                          IF @ > Price[old.request] THEN @ - Price[old.request] ELSE 0]
      BY <1>1 DEF Release, ReleaseDay
    <2> QED
      BY <1>2, <2>1 DEF IInv, TypeOK
  <1> QED
    BY <1>1, <1>2, <1>3, <1>4, QuietKeeps

LEMMA ArriveKeeps ==
    ASSUME IInv, NEW c \in Calls, NEW p \in Payments \cup {NoPayment}, NEW r \in Requests,
           Arrive(c, p, r)
    PROVE  IInv'
  <1> DEFINE new == [pc |-> "cap", payment |-> p, request |-> r, version |-> 0, day |-> 0,
                     fulfilled |-> 0, reply |-> "none"]
  <1>1. new \in Call /\ Safe(new) /\ new.pc = "cap"
    BY ConstantsAssumption DEF Call, Safe
  <1>2. calls[c].pc # "reserve" /\ calls' = [calls EXCEPT ![c] = new]
        /\ UNCHANGED <<capLock, reserved, stored, external>>
    BY DEF Arrive, Idle
  <1>3. reserved' \in [Days -> Nat]
    BY <1>2 DEF IInv, TypeOK
  <1> HIDE DEF new
  <1> QED
    BY <1>1, <1>2, <1>3, QuietKeeps

LEMMA RestartKeeps == ASSUME IInv, Restart PROVE IInv'
  <1>1. \A c \in Calls :
           \/ calls'[c] = calls[c] /\ calls[c].pc \in {"idle", "done"}
           \/ /\ calls[c].pc # "idle"
              /\ calls'[c] = [calls[c] EXCEPT !.pc = "done", !.reply = "lost"]
    BY DEF Restart
  <1>2. calls' = [c \in Calls |-> calls'[c]]
    BY DEF Restart
  <1>3. ASSUME NEW c \in Calls
        PROVE  /\ calls'[c] \in {Idle} \cup Call
               /\ calls'[c].pc \in {"idle", "done"}
               /\ calls'[c] # Idle => calls'[c].pc = "done"
    <2>1. CASE calls[c].pc = "idle"
      BY <1>1, <2>1 DEF IInv, TypeOK, Call
    <2>2. CASE calls[c].pc # "idle"
      <3>1. PICK old \in Call : old = calls[c]
        BY <2>2, UnderWay
      <3>2. PICK mid \in Call : mid = [old EXCEPT !.pc = "done"]
        <4>1. [old EXCEPT !.pc = "done"] \in Call
          BY DEF Call
        <4> QED
          BY <4>1
      <3>3. [mid EXCEPT !.reply = "lost"] \in Call /\ [mid EXCEPT !.reply = "lost"].pc = "done"
        BY <3>2 DEF Call
      <3> QED
        BY <1>1, <2>2, <3>1, <3>2, <3>3
    <2> QED
      BY <2>1, <2>2
  <1>4. settled' \in [Payments -> [price : Nat, day : 0..MaxDay]]
    <2>1. CASE UNCHANGED settled
      BY <2>1 DEF IInv, TypeOK
    <2>2. CASE \E c \in Calls : At(c, "settle") /\ settled[Payment(c)] = NoRow /\ Taken(c)
      <3>1. PICK c \in Calls : At(c, "settle") /\ settled[Payment(c)] = NoRow /\ Taken(c)
        BY <2>2
      <3>2. PICK old \in Call : /\ old = calls[c] /\ Safe(old) /\ old.pc = "settle"
                                /\ Payment(c) = old.payment
        BY <3>1, UnderWay DEF At
      <3>3. old.payment \in Payments
        BY <3>2 DEF Safe
      <3> QED
        BY <3>1, <3>2, <3>3, TakenType
    <2> QED
      BY <2>1, <2>2 DEF Restart
  <1>5. /\ capLock' = NoCall /\ reserved' = [d \in Days |-> 0] /\ restarts' \in 0..MaxRestarts
        /\ UNCHANGED <<intents, bindings, ledger, fulfillments, version, day>>
    <2>1. capLock' = NoCall /\ reserved' = [d \in Days |-> 0]
          /\ UNCHANGED <<intents, bindings, ledger, fulfillments, version, day>>
      BY DEF Restart, stored
    <2>2. restarts' = restarts + 1 /\ restarts < MaxRestarts /\ restarts \in 0..MaxRestarts
          /\ MaxRestarts \in Nat
      BY ConstantsAssumption DEF Restart, IInv, TypeOK
    <2> QED
      BY <2>1, <2>2
  <1>6. TypeOK'
    BY <1>2, <1>3, <1>4, <1>5, Constants DEF IInv, TypeOK, At, Payment
  <1>7. \A c \in Calls : (calls[c] # Idle => Safe(calls[c]))'
    BY <1>3 DEF Safe
  <1> QED
    BY <1>4, <1>5, <1>6, <1>7 DEF IInv, OneBinding

LEMMA InitIInv == Init => IInv
  <1> SUFFICES ASSUME Init PROVE IInv
    OBVIOUS
  <1>1. TypeOK
    BY Constants, ConstantsAssumption DEF Init, TypeOK, Idle, NoRow, At, Days
  <1> QED
    BY <1>1, Constants DEF Init, IInv, OneBinding, NoRow, Idle

LEMMA StepIInv == ASSUME IInv, NEW c \in Calls, Step(c) PROVE IInv'
  <1>1. CASE ReadRevenue(c) \/ ReserveRevenue(c) \/ Release(c)
    BY <1>1, ReadRevenueKeeps, ReserveRevenueKeeps, ReleaseKeeps
  <1>2. CASE InsertBinding(c) \/ InsertIntent(c)
    BY <1>2, InsertBindingKeeps, InsertIntentKeeps
  <1>3. CASE Settle(c) \/ Record(c)
    BY <1>3, SettleKeeps, RecordKeeps
  <1>4. CASE Quiet(c)
    BY <1>4, QuietStep
  <1> QED
    BY <1>1, <1>2, <1>3, <1>4 DEF Step, Quiet

LEMMA NextIInv == IInv /\ [Next]_vars => IInv'
  <1> SUFFICES ASSUME IInv, [Next]_vars PROVE IInv'
    OBVIOUS
  <1>1. ASSUME NEW c \in Calls, NEW p \in Payments \cup {NoPayment}, NEW r \in Requests,
               Arrive(c, p, r)
        PROVE  IInv'
    BY <1>1, ArriveKeeps
  <1>2. ASSUME NEW c \in Calls, Step(c) PROVE IInv'
    BY <1>2, StepIInv
  <1>3. CASE Midnight \/ Change \/ UNCHANGED vars
    <2>1. /\ UNCHANGED <<calls, capLock, reserved, intents, bindings, ledger, fulfillments,
                         settled, restarts>>
          /\ day' \in Days /\ version' \in 1..MaxVersion
      BY <1>3, ConstantsAssumption DEF Midnight, Change, vars, stored, IInv, TypeOK, Days
    <2> QED
      BY <2>1 DEF IInv, TypeOK, OneBinding, Safe, ProofOf, At, Payment
  <1>4. CASE Restart
    BY <1>4, RestartKeeps
  <1> QED
    BY <1>1, <1>2, <1>3, <1>4 DEF Next

LEMMA Invariance == Spec => []IInv
  BY InitIInv, NextIInv, PTL DEF Spec

-----------------------------------------------------------------------------
(* Types, and the refinement of PaidService *)

\* The pipeline's variables keep their types, the lock is where the deciding
\* request is, and no unpaid request passes the challenge.
THEOREM TypeCorrect == Spec => []TypeOK
  <1>1. IInv => TypeOK
    BY DEF IInv
  <1> QED
    BY <1>1, Invariance, PTL

TakenSet == {p \in Payments : settled[p] # NoRow}

\* Binding is the service's Bind, ...
LEMMA InsertBindingBinds == ASSUME IInv, NEW c \in Calls, InsertBinding(c) PROVE [Service!Next]_Service!vars
  <1>1. PICK old \in Call : /\ old = calls[c] /\ Safe(old) /\ old.pc = "insert"
                            /\ Payment(c) = old.payment /\ Proof(c) = ProofOf(old)
    BY UnderWay DEF InsertBinding, At
  <1>2. /\ old.payment \in Payments /\ old.request \in Requests /\ old.version \in 0..MaxVersion
        /\ UNCHANGED <<settled, fulfillments>>
    BY <1>1 DEF Safe, Call, InsertBinding, external
  <1>3. CASE KeyFree(c)
    <2>1. bindings' = bindings \cup {<<old.payment, old.request, old.version>>}
          /\ \A b \in bindings : b[1] # old.payment
      BY <1>1, <1>3 DEF InsertBinding, KeyFree, Bound, ProofOf
    <2>2. Service!Bind(old.payment, old.request, old.version)
      BY <1>2, <2>1 DEF Service!Bind
    <2> QED
      BY <1>2, <2>2 DEF Service!Next
  <1>4. CASE ~KeyFree(c)
    BY <1>2, <1>4 DEF InsertBinding, Service!vars
  <1> QED
    BY <1>3, <1>4

\* ... settlement, learnt of or not, its Take, ...
LEMMA TakesOne ==
    ASSUME IInv, NEW c \in Calls, calls[c].pc = "settle", settled[Payment(c)] = NoRow,
           Taken(c), UNCHANGED <<bindings, fulfillments>>
    PROVE  Service!Next
  <1>1. PICK old \in Call : /\ old = calls[c] /\ Safe(old) /\ old.pc = "settle"
                            /\ Payment(c) = old.payment
    BY UnderWay
  <1>2. old.payment \in Payments /\ \E b \in bindings : b[1] = old.payment
    <2>1. old.payment \in Payments /\ ProofOf(old) \in bindings
      BY <1>1 DEF Safe
    <2>2. ProofOf(old)[1] = old.payment
      BY DEF ProofOf
    <2> QED
      BY <2>1, <2>2
  <1>3. \A p \in Payments : settled'[p] # NoRow <=> (settled[p] # NoRow \/ p = old.payment)
    BY <1>1, <1>2, TakenType
  <1>4. TakenSet' = TakenSet \cup {old.payment}
    BY <1>2, <1>3 DEF TakenSet, NoRow
  <1>5. old.payment \notin TakenSet
    BY <1>1 DEF TakenSet
  <1>6. Service!Take(old.payment)
    BY <1>2, <1>4, <1>5 DEF Service!Take, TakenSet
  <1> QED
    BY <1>2, <1>6 DEF Service!Next

\* ... and recording a fulfilled request its Keep.
LEMMA RecordKeepsOne == ASSUME IInv, NEW c \in Calls, Record(c) PROVE [Service!Next]_Service!vars
  <1>1. PICK old \in Call : /\ old = calls[c] /\ Safe(old) /\ old.pc = "record"
                            /\ Payment(c) = old.payment /\ Proof(c) = ProofOf(old)
    BY UnderWay DEF Record, At
  <1>2. CASE UNCHANGED fulfillments
    BY <1>2 DEF Record, external, Service!vars
  <1>3. CASE /\ Payment(c) \in Payments /\ settled[Payment(c)] # NoRow
             /\ Proof(c) \in bindings /\ fulfillments' = fulfillments \cup {Proof(c)}
    <2>1. /\ <<old.payment, old.request, old.version>> \in bindings
          /\ fulfillments' = fulfillments \cup {<<old.payment, old.request, old.version>>}
          /\ old.payment \in Payments /\ settled[old.payment] # NoRow
          /\ old.request \in Requests /\ old.version \in 0..MaxVersion
      BY <1>1, <1>3 DEF ProofOf, Call
    <2>2. UNCHANGED <<bindings, settled>>
      BY DEF Record, external
    <2>3. Service!Keep(old.payment, old.request, old.version)
      BY <2>1, <2>2 DEF Service!Keep
    <2> QED
      BY <2>1, <2>3 DEF Service!Next
  <1> QED
    BY <1>2, <1>3, RecordKeeps

\* Every other step is hidden from the customer.
LEMMA NextRefines == IInv /\ [Next]_vars => [Service!Next]_Service!vars
  <1> SUFFICES ASSUME IInv, [Next]_vars PROVE [Service!Next]_Service!vars
    OBVIOUS
  <1>1. ASSUME UNCHANGED <<bindings, settled, fulfillments>>
        PROVE  [Service!Next]_Service!vars
    BY <1>1 DEF Service!vars
  <1>2. ASSUME NEW c \in Calls, Step(c)
        PROVE  [Service!Next]_Service!vars
    <2>1. CASE InsertBinding(c) \/ Record(c)
      BY <2>1, InsertBindingBinds, RecordKeepsOne
    <2>2. CASE Settle(c)
      <3>1. calls[c].pc = "settle" /\ UNCHANGED <<bindings, fulfillments>>
        BY <2>2 DEF Settle, At, stored
      <3> QED
        BY <1>1, <2>2, <3>1, TakesOne DEF Settle
    <2>3. CASE Quiet(c)
      BY <1>1, <2>3, QuietStep DEF stored, external
    <2>4. CASE ReadRevenue(c) \/ ReserveRevenue(c) \/ InsertIntent(c) \/ Release(c)
      BY <1>1, <2>4 DEF ReadRevenue, ReserveRevenue, InsertIntent, Release, stored, external
    <2> QED
      BY <1>2, <2>1, <2>2, <2>3, <2>4 DEF Step, Quiet
  <1>3. ASSUME NEW c \in Calls, NEW p \in Payments \cup {NoPayment}, NEW r \in Requests,
               Arrive(c, p, r)
        PROVE  [Service!Next]_Service!vars
    BY <1>1, <1>3 DEF Arrive, stored, external
  <1>4. CASE Midnight \/ Change \/ UNCHANGED vars
    BY <1>1, <1>4 DEF Midnight, Change, vars, stored
  <1>5. CASE Restart
    BY <1>1, <1>5, TakesOne DEF Restart, stored, At
  <1> QED
    BY <1>2, <1>3, <1>4, <1>5 DEF Next

\* Whatever requests race, are retried, refused or cut off by a restart, a payment
\* stands for one answer, chosen before its money was taken, and only that answer
\* is kept for it: the pipeline implements PaidService.
THEOREM ImplementsServiceTheorem == Spec => ImplementsService
  <1>1. Init => Service!Init
    BY DEF Init, Service!Init
  <1> QED
    BY <1>1, Invariance, NextRefines, PTL DEF Spec, ImplementsService, Service!Spec

-----------------------------------------------------------------------------
(***************************************************************************)
(* The revenue cap of PaidRequests, for any calls, prices, cap and number  *)
(* of days and restarts: reservations balance, and what is reserved and    *)
(* recorded on one and the same day stays within the cap.                  *)
(***************************************************************************)

\* The rows a day keeps once the reservations behind them are given back.
Kept(d) == Booked(d) \ Holding(d)

\* What a call's state sets aside under day d.
Held(call, d) ==
    IF call.pc \notin {"idle", "cap", "reserve", "done"} /\ call.day = d
    THEN Price[call.request] ELSE 0

\* A row belongs to a call that is on its way out, at the price it reserved; and
\* what the deciding call has read still covers the rows of its day.
RowsFollow ==
    \A c \in Calls : ledger[c].day # 0 =>
        calls[c].pc \in {"release", "done"} /\ ledger[c].price = PriceOf(c)
ReadCovers ==
    \A c \in Calls, d \in Days : At(c, "reserve") /\ calls[c].day = d =>
        Total(LedgerPrices, Kept(d)) <= calls[c].fulfilled

CapInv == RowsFollow /\ ReadCovers /\ ReservationsBalanced /\ SameDayCap

-----------------------------------------------------------------------------
(* Sums over the calls *)

\* The three sums range over finitely many natural numbers.
LEMMA PricesType ==
    ASSUME NEW f \in [Calls -> {Idle} \cup Call], NEW c \in Calls
    PROVE  (IF f[c] = Idle THEN 0 ELSE Price[f[c].request]) \in 0..MaxPrice
BY Constants DEF Call

LEMMA SumsType ==
    ASSUME IInv
    PROVE  /\ \A c \in Calls : CallPrices[c] \in 0..MaxPrice /\ LedgerPrices[c] \in 0..MaxPrice
           /\ \A d \in Days : /\ IsFiniteSet(Holding(d)) /\ IsFiniteSet(Kept(d))
                              /\ IsFiniteSet(Booked(d))
                              /\ Total(CallPrices, Holding(d)) \in Nat
                              /\ Total(LedgerPrices, Kept(d)) \in Nat
  <1>1. \A c \in Calls : CallPrices[c] \in 0..MaxPrice
    BY PricesType DEF IInv, TypeOK, CallPrices, PriceOf, Request
  <1>2. \A c \in Calls : LedgerPrices[c] \in 0..MaxPrice
    BY Constants DEF IInv, TypeOK, LedgerPrices
  <1>3. ASSUME NEW d \in Days
        PROVE  /\ Holding(d) \subseteq Calls /\ Kept(d) \subseteq Calls /\ Booked(d) \subseteq Calls
               /\ IsFiniteSet(Holding(d)) /\ IsFiniteSet(Kept(d)) /\ IsFiniteSet(Booked(d))
    <2>1. Holding(d) \subseteq Calls /\ Kept(d) \subseteq Calls /\ Booked(d) \subseteq Calls
      BY DEF Holding, Kept, Booked
    <2> QED
      BY <2>1, Constants, FS_Subset
  <1>4. ASSUME NEW d \in Days
        PROVE  Total(CallPrices, Holding(d)) \in Nat /\ Total(LedgerPrices, Kept(d)) \in Nat
    BY <1>1, <1>2, <1>3, Constants, TotalType
  <1> QED
    BY <1>1, <1>2, <1>3, <1>4

\* Reservations still balance if what a call sets aside changes as reserved does.
LEMMA BalanceMoves ==
    ASSUME IInv, IInv', ReservationsBalanced, NEW c \in Calls,
           NEW old \in {Idle} \cup Call, old = calls[c],
           NEW new \in Call, calls' = [calls EXCEPT ![c] = new],
           NEW d \in Days, reserved'[d] + Held(old, d) = reserved[d] + Held(new, d)
    PROVE  reserved'[d] = Total(CallPrices', Holding(d)')
  <1>1. PICK f : f = CallPrices
    OBVIOUS
  <1>2. PICK g : g = CallPrices'
    OBVIOUS
  <1>3. PICK H : H = Holding(d)
    OBVIOUS
  <1>4. PICK K : K = Holding(d)'
    OBVIOUS
  <1>5. calls'[c] = new /\ \A e \in Calls \ {c} : calls'[e] = calls[e]
    BY DEF IInv, TypeOK
  <1>6. IsFiniteSet(H) /\ IsFiniteSet(K) /\ H \subseteq Calls /\ K \subseteq Calls
    BY <1>3, <1>4, Constants, FS_Subset DEF Holding
  <1>7. \A e \in Calls : f[e] \in 0..MaxPrice /\ g[e] \in 0..MaxPrice
    <2>1. \A e \in Calls : f[e] \in 0..MaxPrice
      BY <1>1, SumsType
    <2>2. calls' \in [Calls -> {Idle} \cup Call]
      BY DEF IInv, TypeOK
    <2>3. \A e \in Calls : g[e] = IF calls'[e] = Idle THEN 0 ELSE Price[calls'[e].request]
      BY <1>2 DEF CallPrices, PriceOf, Request
    <2> QED
      BY <2>1, <2>2, <2>3, PricesType
  <1>8. H \ {c} = K \ {c} /\ \A e \in H \ {c} : f[e] = g[e]
    BY <1>1, <1>2, <1>3, <1>4, <1>5 DEF Holding, CallPrices, PriceOf, Request
  <1>9. (IF c \in H THEN f[c] ELSE 0) = Held(old, d) /\ (IF c \in K THEN g[c] ELSE 0) = Held(new, d)
    BY <1>1, <1>2, <1>3, <1>4, <1>5
    DEF Holding, Held, CallPrices, PriceOf, Request, Idle
  <1>10. /\ Total(f, H) = Total(f, H \ {c}) + (IF c \in H THEN f[c] ELSE 0)
         /\ Total(g, K) = Total(g, K \ {c}) + (IF c \in K THEN g[c] ELSE 0)
    BY <1>6, <1>7, Constants, TotalSplit
  <1>11. Total(f, H \ {c}) = Total(g, K \ {c})
    BY <1>8, TotalAgree
  <1>12. Total(f, H \ {c}) \in Nat
    <2>1. IsFiniteSet(H \ {c})
      BY <1>6, FS_Subset
    <2> QED
      BY <1>6, <1>7, <2>1, Constants, TotalType
  <1>13. reserved[d] = Total(f, H)
    BY <1>1, <1>3 DEF ReservationsBalanced
  <1>14. Held(old, d) \in Nat /\ Held(new, d) \in Nat
    BY Constants DEF Held, Call, Idle
  <1>15. reserved'[d] \in Nat /\ reserved[d] \in Nat
    BY DEF IInv, TypeOK
  <1>16. reserved'[d] = Total(g, K)
    BY <1>9, <1>10, <1>11, <1>12, <1>13, <1>14, <1>15
  <1> QED
    BY <1>2, <1>4, <1>16

\* The rows kept do not change while a call moves and does not end under the day.
LEMMA KeptStays ==
    ASSUME IInv, RowsFollow, RowsFollow', NEW c \in Calls,
           NEW old \in {Idle} \cup Call, old = calls[c], old.pc # "done",
           NEW new \in Call, calls' = [calls EXCEPT ![c] = new],
           \A e \in Calls \ {c} : ledger'[e] = ledger[e],
           NEW d \in Days, new.pc = "done" => new.day # d
    PROVE  Total(LedgerPrices', Kept(d)') = Total(LedgerPrices, Kept(d))
  <1>1. calls'[c] = new /\ \A e \in Calls \ {c} : calls'[e] = calls[e]
    BY DEF IInv, TypeOK
  <1>2. d # 0
    BY Constants
  <1>3. c \notin Kept(d) /\ c \notin Kept(d)'
    BY <1>1, <1>2 DEF Kept, Booked, Holding, RowsFollow, Idle
  <1>4. Kept(d)' = Kept(d)
    BY <1>1, <1>3 DEF Kept, Booked, Holding
  <1>5. \A e \in Kept(d) : LedgerPrices'[e] = LedgerPrices[e]
    BY <1>3 DEF Kept, Booked, LedgerPrices
  <1>6. Total(LedgerPrices', Kept(d)) = Total(LedgerPrices, Kept(d))
    BY <1>5, TotalAgree
  <1> QED
    BY <1>4, <1>6

\* A move that ends no call under a day keeps the cap, if it fits what is reserved.
LEMMA MoveCaps ==
    ASSUME IInv, IInv', CapInv, RowsFollow', NEW c \in Calls,
           NEW old \in {Idle} \cup Call, old = calls[c], old.pc # "done",
           NEW new \in Call, calls' = [calls EXCEPT ![c] = new],
           \A e \in Calls \ {c} : ledger'[e] = ledger[e],
           new.pc = "done" => new.day = 0,
           \A d \in Days : /\ reserved'[d] + Held(old, d) = reserved[d] + Held(new, d)
                           /\ Total(LedgerPrices, Kept(d)) + reserved'[d] <= DailyCap,
           \A d \in Days : new.pc = "reserve" /\ new.day = d =>
               Total(LedgerPrices, Kept(d)) <= new.fulfilled
    PROVE  CapInv'
  <1>1. calls'[c] = new /\ \A e \in Calls \ {c} : calls'[e] = calls[e]
    BY DEF IInv, TypeOK
  <1>2. \A d \in Days : reserved'[d] = Total(CallPrices', Holding(d)')
    BY BalanceMoves DEF CapInv
  <1>3. ASSUME NEW d \in Days PROVE Total(LedgerPrices', Kept(d)') = Total(LedgerPrices, Kept(d))
    <2>1. new.pc = "done" => new.day # d
      BY Constants
    <2> QED
      BY <2>1, KeptStays DEF CapInv
  <1>4. ReservationsBalanced'
    BY <1>2 DEF ReservationsBalanced
  <1>5. SameDayCap'
    BY <1>3 DEF SameDayCap, Kept
  <1>6. ASSUME NEW e \in Calls, NEW d \in Days, calls'[e].pc = "reserve", calls'[e].day = d
        PROVE  Total(LedgerPrices', Kept(d)') <= calls'[e].fulfilled
    <2>1. CASE e = c
      BY <1>1, <1>3, <1>6, <2>1
    <2>2. CASE e # c
      BY <1>1, <1>3, <1>6, <2>2 DEF CapInv, ReadCovers, At
    <2> QED
      BY <2>1, <2>2
  <1>7. ReadCovers'
    BY <1>6 DEF ReadCovers, At
  <1> QED
    BY <1>4, <1>5, <1>7 DEF CapInv

\* Nothing of a day is left out of what the cap already covers.
LEMMA CapNow ==
    ASSUME IInv, CapInv, UNCHANGED reserved, NEW d \in Days
    PROVE  Total(LedgerPrices, Kept(d)) + reserved'[d] <= DailyCap
BY DEF CapInv, SameDayCap, Kept

-----------------------------------------------------------------------------
(* The steps of a call *)

\* Where a call stands between the reservation and its release.
Inside == {"validate", "prepare", "bind", "insert", "verify", "handle", "intent",
           "intend", "build", "settle", "record", "release"}

\* A call inside moves on inside, under its day and at its price.
StaysInside(c) ==
    \E old, new \in Call :
        /\ old = calls[c] /\ calls' = [calls EXCEPT ![c] = new]
        /\ old.pc \in Inside \ {"release"} /\ new.pc \in Inside
        /\ new.day = old.day /\ new.request = old.request

LEMMA GoStays ==
    ASSUME IInv, NEW c \in Calls, calls[c].pc \in Inside \ {"release"},
           \/ \E pc \in Inside : Go(c, pc)
           \/ \E reply \in {"failed", "conflict", "quote", "unsettled", "fulfilled", "error"} :
                 Respond(c, reply) \/ Abort(c, reply)
    PROVE  StaysInside(c)
  <1>1. PICK old \in Call : old = calls[c]
    BY UnderWay DEF Inside
  <1>2. CASE \E pc \in Inside : Go(c, pc)
    <2>1. PICK pc \in Inside : Go(c, pc)
      BY <1>2
    <2>2. PICK new \in Call : new = [old EXCEPT !.pc = pc] /\ calls' = [calls EXCEPT ![c] = new]
      <3>1. Moved(c, [old EXCEPT !.pc = pc])
        BY <1>1, <2>1, GoMoves DEF Inside
      <3> QED
        BY <3>1 DEF Moved
    <2>3. new.pc = pc /\ new.day = old.day /\ new.request = old.request
      BY <2>2 DEF Call
    <2> QED
      BY <1>1, <2>2, <2>3 DEF StaysInside
  <1>3. CASE \E reply \in {"failed", "conflict", "quote", "unsettled", "fulfilled", "error"} :
                Respond(c, reply) \/ Abort(c, reply)
    <2>1. PICK reply \in {"failed", "conflict", "quote", "unsettled", "fulfilled", "error"} :
             Respond(c, reply) \/ Abort(c, reply)
      BY <1>3
    <2>2. PICK pc \in {"record", "release"} : Moved(c, [old EXCEPT !.pc = pc, !.reply = reply])
      <3>1. CASE Respond(c, reply)
        <4>1. Moved(c, [old EXCEPT !.pc = "record", !.reply = reply])
          BY <1>1, <3>1, ReplyMoves
        <4> QED
          BY <4>1
      <3>2. CASE Abort(c, reply)
        <4>1. Moved(c, [old EXCEPT !.pc = "release", !.reply = reply])
          BY <1>1, <3>2, ReplyMoves
        <4> QED
          BY <4>1
      <3> QED
        BY <2>1, <3>1, <3>2
    <2>3. PICK new \in Call : /\ new = [old EXCEPT !.pc = pc, !.reply = reply]
                              /\ calls' = [calls EXCEPT ![c] = new]
      BY <2>2 DEF Moved
    <2>4. new.pc = pc /\ new.day = old.day /\ new.request = old.request
      BY <2>3 DEF Call
    <2> QED
      BY <1>1, <2>3, <2>4 DEF StaysInside, Inside
  <1> QED
    BY <1>2, <1>3

LEMMA PrepareStays ==
    ASSUME IInv, NEW c \in Calls, Prepare(c)
    PROVE  StaysInside(c)
  <1>1. PICK old \in Call : old = calls[c] /\ old.pc = "prepare"
    BY UnderWay DEF Prepare, At
  <1>2. CASE Abort(c, "failed")
    BY <1>1, <1>2, GoStays DEF Inside
  <1>3. CASE calls' = [calls EXCEPT ![c] = [calls[c] EXCEPT !.pc = "bind", !.version = version]]
    <2>1. PICK mid \in Call : mid = [old EXCEPT !.pc = "bind"]
      <3>1. [old EXCEPT !.pc = "bind"] \in Call
        BY DEF Call
      <3> QED
        BY <3>1
    <2>2. PICK v \in 0..MaxVersion : v = version
      BY ConstantsAssumption DEF IInv, TypeOK
    <2>3. PICK new \in Call : new = [mid EXCEPT !.version = v]
      <3>1. [mid EXCEPT !.version = v] \in Call
        BY DEF Call
      <3> QED
        BY <3>1
    <2>4. new.pc = "bind" /\ new.day = old.day /\ new.request = old.request
      BY <2>1, <2>3 DEF Call
    <2>5. calls' = [calls EXCEPT ![c] = new]
      BY <1>1, <1>3, <2>1, <2>2, <2>3
    <2> QED
      BY <1>1, <2>4, <2>5 DEF StaysInside, Inside
  <1> QED
    BY <1>2, <1>3 DEF Prepare

InnerStep(c) == Quiet(c) \/ InsertBinding(c) \/ InsertIntent(c) \/ Settle(c) \/ Record(c)

LEMMA InnerStays == ASSUME IInv, NEW c \in Calls, InnerStep(c) PROVE StaysInside(c)
  <1>1. PICK old \in Call : /\ old = calls[c] /\ old.pc \in Inside \ {"release"}
                            /\ Request(c) = old.request
    <2>1. calls[c].pc \in Inside \ {"release"}
      BY DEF InnerStep, Quiet, Validate, Prepare, CheckBinding, Verify, Handle, CheckIntent,
             Build, RecordFails, InsertBinding, InsertIntent, Settle, Record, At, Inside
    <2> QED
      BY <2>1, UnderWay DEF Inside
  <1>2. AfterBind(c) \in Inside
    BY DEF AfterBind, Inside
  <1>3. FirstOf(Kind[Request(c)]) \in Inside
    <2>1. old.request \in Requests
      BY DEF Call
    <2>2. Kind[Request(c)] \in {"prepared", "procured", "composed"}
      BY <1>1, <2>1, Constants
    <2> QED
      BY <2>2 DEF FirstOf, Inside
  <1>4. CASE Validate(c)
    BY <1>1, <1>4, GoStays DEF Validate, Inside
  <1>5. CASE CheckBinding(c)
    BY <1>1, <1>2, <1>5, GoStays DEF CheckBinding, Refuse, Inside
  <1>6. CASE Verify(c)
    BY <1>1, <1>3, <1>6, GoStays DEF Verify
  <1>7. CASE Handle(c) \/ Build(c) \/ RecordFails(c) \/ Record(c)
    BY <1>1, <1>7, GoStays DEF Handle, Build, RecordFails, Record, Inside
  <1>8. CASE CheckIntent(c)
    BY <1>1, <1>8, GoStays DEF CheckIntent, Inside
  <1>9. CASE InsertBinding(c) \/ InsertIntent(c)
    BY <1>1, <1>2, <1>9, GoStays DEF InsertBinding, InsertIntent, Inside
  <1>10. CASE Settle(c)
    BY <1>1, <1>10, GoStays DEF Settle
  <1> QED
    BY <1>4, <1>5, <1>6, <1>7, <1>8, <1>9, <1>10, PrepareStays DEF InnerStep, Quiet

LEMMA InnerCaps ==
    ASSUME IInv, IInv', CapInv, NEW c \in Calls, InnerStep(c) PROVE CapInv'
  <1>1. PICK old, new \in Call :
           /\ old = calls[c] /\ calls' = [calls EXCEPT ![c] = new]
           /\ old.pc \in Inside \ {"release"} /\ new.pc \in Inside
           /\ new.day = old.day /\ new.request = old.request
    BY InnerStays DEF StaysInside
  <1>2. calls'[c] = new /\ \A e \in Calls \ {c} : calls'[e] = calls[e]
    BY <1>1, OthersStay
  <1>3. UNCHANGED reserved
    BY QuietStep DEF InnerStep, InsertBinding, InsertIntent, Settle, Record
  <1>4. /\ \A e \in Calls \ {c} : ledger'[e] = ledger[e]
        /\ \/ ledger'[c] = ledger[c]
           \/ new.pc = "release" /\ ledger'[c] = [price |-> PriceOf(c), day |-> day]
    <2>1. CASE Record(c)
      <3>1. Moved(c, [old EXCEPT !.pc = "release"])
        BY <1>1, <2>1, GoMoves DEF Record
      <3>2. new = [old EXCEPT !.pc = "release"]
        BY <1>1, <1>2, <3>1 DEF Moved, IInv, TypeOK
      <3>3. new.pc = "release"
        BY <3>2 DEF Call
      <3> QED
        BY <2>1, <3>3 DEF Record, IInv, TypeOK
    <2>2. CASE ~Record(c)
      BY <2>2, QuietStep DEF InnerStep, InsertBinding, InsertIntent, Settle, stored
    <2> QED
      BY <2>1, <2>2
  <1>5. RowsFollow'
    <2>1. ledger[c].day = 0
      BY <1>1 DEF CapInv, RowsFollow, Inside
    <2>2. ASSUME NEW e \in Calls, ledger'[e].day # 0
          PROVE  calls'[e].pc \in {"release", "done"} /\ ledger'[e].price = PriceOf(e)'
      <3>1. CASE e = c
        BY <1>1, <1>2, <1>4, <2>1, <2>2, <3>1 DEF PriceOf, Request
      <3>2. CASE e # c
        BY <1>2, <1>4, <2>2, <3>2 DEF CapInv, RowsFollow, PriceOf, Request
      <3> QED
        BY <3>1, <3>2
    <2> QED
      BY <2>2 DEF RowsFollow
  <1>6. \A d \in Days : reserved'[d] + Held(old, d) = reserved[d] + Held(new, d)
    BY <1>1, <1>3 DEF Held, Inside
  <1>7. \A d \in Days : Total(LedgerPrices, Kept(d)) + reserved'[d] <= DailyCap
    BY <1>3, CapNow
  <1>8. old.pc # "done" /\ new.pc \notin {"reserve", "done"}
    BY <1>1 DEF Inside
  <1> QED
    BY <1>1, <1>4, <1>5, <1>6, <1>7, <1>8, MoveCaps

LEMMA ArriveCaps ==
    ASSUME IInv, IInv', CapInv, NEW c \in Calls, NEW p \in Payments \cup {NoPayment},
           NEW r \in Requests, Arrive(c, p, r)
    PROVE  CapInv'
  <1>1. PICK new \in Call :
           /\ new.pc = "cap" /\ new.day = 0 /\ calls' = [calls EXCEPT ![c] = new]
    <2> DEFINE new == [pc |-> "cap", payment |-> p, request |-> r, version |-> 0, day |-> 0,
                       fulfilled |-> 0, reply |-> "none"]
    <2>1. new \in Call /\ new.pc = "cap" /\ new.day = 0
      BY ConstantsAssumption DEF Call
    <2>2. calls' = [calls EXCEPT ![c] = new]
      BY DEF Arrive
    <2> QED
      BY <2>1, <2>2
  <1>2. calls[c] = Idle /\ UNCHANGED <<reserved, ledger>>
    BY DEF Arrive, stored
  <1>3. calls'[c] = new /\ \A e \in Calls \ {c} : calls'[e] = calls[e]
    BY <1>1, OthersStay
  <1>4. ledger[c].day = 0
    BY <1>2 DEF CapInv, RowsFollow, Idle
  <1>5. RowsFollow'
    BY <1>2, <1>3, <1>4 DEF CapInv, RowsFollow, PriceOf, Request
  <1>6. \A d \in Days : reserved'[d] + Held(Idle, d) = reserved[d] + Held(new, d)
    BY <1>1, <1>2 DEF Held, Idle
  <1>7. \A d \in Days : Total(LedgerPrices, Kept(d)) + reserved'[d] <= DailyCap
    BY <1>2, CapNow
  <1>8. Idle.pc # "done" /\ Idle \in {Idle} \cup Call
    BY DEF Idle
  <1> QED
    BY <1>1, <1>2, <1>5, <1>6, <1>7, <1>8, MoveCaps

LEMMA ReadRevenueCaps ==
    ASSUME IInv, IInv', CapInv, NEW c \in Calls, ReadRevenue(c) PROVE CapInv'
  <1>1. PICK old \in Call : old = calls[c] /\ old.pc = "cap"
    BY UnderWay DEF ReadRevenue, At
  <1>2. PICK new \in Call :
           /\ new.pc = "reserve" /\ new.day = day /\ new.fulfilled = RevenueSince(day)
           /\ calls' = [calls EXCEPT ![c] = new]
    <2>1. PICK d \in Days : d = day
      BY DEF IInv, TypeOK
    <2>2. d \in 0..MaxDay
      BY ConstantsAssumption DEF Days
    <2>3. PICK n \in Nat : n = RevenueSince(day)
      BY <2>1, RevenueType
    <2>4. PICK one \in Call : one = [old EXCEPT !.pc = "reserve"]
      <3>1. [old EXCEPT !.pc = "reserve"] \in Call
        BY DEF Call
      <3> QED
        BY <3>1
    <2>5. PICK two \in Call : two = [one EXCEPT !.day = d]
      <3>1. [one EXCEPT !.day = d] \in Call
        BY <2>2 DEF Call
      <3> QED
        BY <3>1
    <2>6. PICK new \in Call : new = [two EXCEPT !.fulfilled = n]
      <3>1. [two EXCEPT !.fulfilled = n] \in Call
        BY DEF Call
      <3> QED
        BY <3>1
    <2>7. new.pc = "reserve" /\ new.day = d /\ new.fulfilled = n
      BY <2>4, <2>5, <2>6 DEF Call
    <2>8. calls' = [calls EXCEPT ![c] = new]
      BY <1>1, <2>1, <2>3, <2>4, <2>5, <2>6 DEF ReadRevenue
    <2> QED
      BY <2>1, <2>3, <2>7, <2>8
  <1>3. UNCHANGED <<reserved, ledger>>
    BY DEF ReadRevenue, stored
  <1>4. calls'[c] = new /\ \A e \in Calls \ {c} : calls'[e] = calls[e]
    BY <1>2, OthersStay
  <1>5. RowsFollow'
    <2>1. ledger[c].day = 0
      BY <1>1 DEF CapInv, RowsFollow
    <2> QED
      BY <1>3, <1>4, <2>1 DEF CapInv, RowsFollow, PriceOf, Request
  <1>6. \A d \in Days : reserved'[d] + Held(old, d) = reserved[d] + Held(new, d)
    BY <1>1, <1>2, <1>3 DEF Held
  <1>7. \A d \in Days : Total(LedgerPrices, Kept(d)) + reserved'[d] <= DailyCap
    BY <1>3, CapNow
  <1>8. ASSUME NEW d \in Days, d = day
        PROVE  Total(LedgerPrices, Kept(d)) <= RevenueSince(day)
    <2>1. PICK f : f = LedgerPrices
      OBVIOUS
    <2>2. PICK K, L : K = Kept(d) /\ L = {e \in Calls : ledger[e].day >= d}
      OBVIOUS
    <2>3. K \in SUBSET L
      BY <2>2 DEF Kept, Booked, IInv, TypeOK, Days
    <2>4. IsFiniteSet(L) /\ \A e \in L : f[e] \in 0..MaxPrice
      <3>1. L \subseteq Calls
        BY <2>2
      <3> QED
        BY <2>1, <3>1, Constants, FS_Subset, SumsType
    <2>5. Total(f, K) <= Total(f, L)
      BY <2>3, <2>4, Constants, TotalMonotone
    <2> QED
      BY <1>8, <2>1, <2>2, <2>5 DEF RevenueSince, LedgerPrices
  <1>9. \A d \in Days : new.pc = "reserve" /\ new.day = d => Total(LedgerPrices, Kept(d)) <= new.fulfilled
    BY <1>2, <1>8
  <1> QED
    BY <1>1, <1>2, <1>3, <1>5, <1>6, <1>7, <1>9, MoveCaps

LEMMA ReserveRevenueCaps ==
    ASSUME IInv, IInv', CapInv, NEW c \in Calls, ReserveRevenue(c) PROVE CapInv'
  <1>1. PICK old \in Call : /\ old = calls[c] /\ Safe(old) /\ old.pc = "reserve"
                            /\ PriceOf(c) = Price[old.request]
    BY UnderWay DEF ReserveRevenue, At
  <1>2. /\ old.day \in Days /\ old.fulfilled \in Nat /\ Price[old.request] \in Nat
        /\ UNCHANGED ledger
    BY <1>1, Constants DEF Safe, Call, ReserveRevenue, stored
  <1>3. ledger[c].day = 0
    BY <1>1 DEF CapInv, RowsFollow
  <1>4. \A d \in Days : reserved[d] \in Nat /\ reserved'[d] \in Nat
    BY DEF IInv, TypeOK
  <1>5. CASE FitsCap(c)
    <2>1. Moved(c, [old EXCEPT !.pc = "validate"])
      BY <1>1, <1>5, GoMoves DEF ReserveRevenue
    <2>2. PICK new \in Call : new = [old EXCEPT !.pc = "validate"] /\ calls' = [calls EXCEPT ![c] = new]
      BY <2>1 DEF Moved
    <2>3. new.pc = "validate" /\ new.day = old.day /\ new.request = old.request
      BY <2>2 DEF Call
    <2>4. reserved' = [reserved EXCEPT ![old.day] = @ + Price[old.request]]
      BY <1>1, <1>5 DEF ReserveRevenue
    <2>5. calls'[c] = new /\ \A e \in Calls \ {c} : calls'[e] = calls[e]
      BY <2>2, OthersStay
    <2>6. RowsFollow'
      BY <1>2, <1>3, <2>5 DEF CapInv, RowsFollow, PriceOf, Request
    <2>7. \A d \in Days : reserved'[d] + Held(old, d) = reserved[d] + Held(new, d)
      BY <1>1, <1>2, <1>4, <2>3, <2>4 DEF Held, IInv, TypeOK
    <2>8. ASSUME NEW d \in Days
          PROVE  Total(LedgerPrices, Kept(d)) + reserved'[d] <= DailyCap
      <3>1. CASE d = old.day
        <4>1. reserved'[d] = reserved[d] + Price[old.request]
          BY <1>2, <2>4, <3>1 DEF IInv, TypeOK
        <4>2. old.fulfilled + reserved[d] + Price[old.request] <= DailyCap
          BY <1>1, <1>5, <3>1 DEF FitsCap
        <4>3. Total(LedgerPrices, Kept(d)) <= old.fulfilled
          BY <1>1, <3>1 DEF CapInv, ReadCovers, At
        <4>4. Total(LedgerPrices, Kept(d)) \in Nat /\ DailyCap \in Nat
          BY SumsType, ConstantsAssumption
        <4> QED
          BY <1>2, <1>4, <4>1, <4>2, <4>3, <4>4
      <3>2. CASE d # old.day
        <4>1. reserved'[d] = reserved[d]
          BY <2>4, <3>2 DEF IInv, TypeOK
        <4> QED
          BY <4>1 DEF CapInv, SameDayCap, Kept
      <3> QED
        BY <3>1, <3>2
    <2> QED
      BY <1>1, <1>2, <2>2, <2>3, <2>6, <2>7, <2>8, MoveCaps
  <1>6. CASE ~FitsCap(c)
    <2>1. calls' = [calls EXCEPT ![c] = [old EXCEPT !.pc = "done", !.day = 0, !.reply = "capped"]]
          /\ UNCHANGED reserved
      BY <1>1, <1>6 DEF ReserveRevenue
    <2>2. PICK one \in Call : one = [old EXCEPT !.pc = "done"]
      <3>1. [old EXCEPT !.pc = "done"] \in Call
        BY DEF Call
      <3> QED
        BY <3>1
    <2>3. PICK two \in Call : two = [one EXCEPT !.day = 0]
      <3>1. [one EXCEPT !.day = 0] \in Call
        BY ConstantsAssumption DEF Call
      <3> QED
        BY <3>1
    <2>4. PICK new \in Call : new = [two EXCEPT !.reply = "capped"]
      <3>1. [two EXCEPT !.reply = "capped"] \in Call
        BY DEF Call
      <3> QED
        BY <3>1
    <2>5. new.pc = "done" /\ new.day = 0
      BY <2>2, <2>3, <2>4 DEF Call
    <2>6. calls' = [calls EXCEPT ![c] = new]
      BY <2>1, <2>2, <2>3, <2>4
    <2>7. calls'[c] = new /\ \A e \in Calls \ {c} : calls'[e] = calls[e]
      BY <2>6, OthersStay
    <2>8. RowsFollow'
      BY <1>2, <1>3, <2>7 DEF CapInv, RowsFollow, PriceOf, Request
    <2>9. \A d \in Days : reserved'[d] + Held(old, d) = reserved[d] + Held(new, d)
      BY <1>1, <2>1, <2>5 DEF Held
    <2>10. \A d \in Days : Total(LedgerPrices, Kept(d)) + reserved'[d] <= DailyCap
      BY <2>1, CapNow
    <2> QED
      BY <1>1, <1>2, <2>5, <2>6, <2>8, <2>9, <2>10, MoveCaps
  <1> QED
    BY <1>5, <1>6

\* The price leaves the reservations when its row, if there is one, begins to count.
LEMMA ReleaseCaps ==
    ASSUME IInv, IInv', CapInv, NEW c \in Calls, Release(c) PROVE CapInv'
  <1>1. PICK old \in Call : /\ old = calls[c] /\ Safe(old) /\ old.pc = "release"
                            /\ PriceOf(c) = Price[old.request]
    BY UnderWay DEF Release, At
  <1>2. /\ old.day \in Days /\ Price[old.request] \in Nat /\ UNCHANGED <<capLock, ledger>>
        /\ capLock = NoCall
    BY <1>1, Constants DEF Safe, Call, Release, stored, LockFree
  <1>3. PICK new \in Call : new = [old EXCEPT !.pc = "done"] /\ calls' = [calls EXCEPT ![c] = new]
    <2>1. Moved(c, [old EXCEPT !.pc = "done"])
      BY <1>1, GoMoves DEF Release
    <2> QED
      BY <2>1 DEF Moved
  <1>4. new.pc = "done" /\ new.day = old.day /\ new.request = old.request
    BY <1>3 DEF Call
  <1>5. calls'[c] = new /\ \A e \in Calls \ {c} : calls'[e] = calls[e]
    BY <1>3, OthersStay
  <1>6. RowsFollow'
    BY <1>1, <1>2, <1>4, <1>5 DEF CapInv, RowsFollow, PriceOf, Request
  <1>7. ReadCovers'
    <2>1. \A e \in Calls : calls'[e].pc # "reserve"
      BY <1>2, Constants DEF IInv, TypeOK, At
    <2> QED
      BY <2>1 DEF ReadCovers, At
  <1>8. \A d \in Days : reserved[d] \in Nat /\ reserved'[d] \in Nat
    BY DEF IInv, TypeOK
  <1>9. Price[old.request] <= reserved[old.day]
    <2>1. PICK H, f : H = Holding(old.day) /\ f = CallPrices
      OBVIOUS
    <2>2. c \in H /\ f[c] = Price[old.request]
      BY <1>1, <2>1 DEF Holding, CallPrices, Idle
    <2>3. IsFiniteSet(H) /\ \A e \in H : f[e] \in 0..MaxPrice
      BY <1>2, <2>1, SumsType DEF Holding
    <2>4. Total(f, H) = Total(f, H \ {c}) + f[c]
      BY <2>2, <2>3, Constants, TotalSplit
    <2>5. Total(f, H \ {c}) \in Nat
      <3>1. IsFiniteSet(H \ {c})
        BY <2>3, FS_Subset
      <3> QED
        BY <2>3, <3>1, Constants, TotalType
    <2>6. reserved[old.day] = Total(f, H)
      BY <1>2, <2>1 DEF CapInv, ReservationsBalanced
    <2> QED
      BY <1>2, <2>2, <2>4, <2>5, <2>6
  <1>10. /\ reserved'[old.day] = reserved[old.day] - Price[old.request]
         /\ \A d \in Days \ {old.day} : reserved'[d] = reserved[d]
    <2>1. reserved' = [reserved EXCEPT ![old.day] =
                          IF @ > Price[old.request] THEN @ - Price[old.request] ELSE 0]
      BY <1>1 DEF Release, ReleaseDay
    <2> QED
      BY <1>2, <1>8, <1>9, <2>1 DEF IInv, TypeOK
  <1>11. \A d \in Days : reserved'[d] + Held(old, d) = reserved[d] + Held(new, d)
    BY <1>1, <1>2, <1>4, <1>8, <1>10 DEF Held
  <1>12. \A d \in Days : reserved'[d] = Total(CallPrices', Holding(d)')
    BY <1>1, <1>3, <1>11, BalanceMoves DEF CapInv
  <1>13. ReservationsBalanced'
    BY <1>12 DEF ReservationsBalanced
  <1>14. ASSUME NEW d \in Days
         PROVE  Total(LedgerPrices', Kept(d)') + reserved'[d] <= DailyCap
    <2>1. PICK K, L, f : K = Kept(d) /\ L = Kept(d)' /\ f = LedgerPrices
      OBVIOUS
    <2>2. LedgerPrices' = f
      BY <1>2, <2>1 DEF LedgerPrices
    <2>3. L \ {c} = K /\ (c \in L => d = old.day /\ f[c] = Price[old.request])
      <3>1. c \notin K
        BY <1>1, <2>1 DEF Kept, Booked, Holding
      <3>2. L \ {c} = K \ {c}
        BY <1>2, <1>5, <2>1 DEF Kept, Booked, Holding
      <3>3. c \in L => d = old.day /\ ledger[c].day = d
        BY <1>2, <1>4, <1>5, <2>1 DEF Kept, Booked
      <3>4. d # 0
        BY Constants
      <3> QED
        BY <1>1, <2>1, <3>1, <3>2, <3>3, <3>4 DEF CapInv, RowsFollow, LedgerPrices
    <2>4. IsFiniteSet(L) /\ \A e \in L : f[e] \in 0..MaxPrice
      <3>1. L \subseteq Calls
        BY <2>1 DEF Kept, Booked
      <3> QED
        BY <2>1, <3>1, Constants, FS_Subset, SumsType
    <2>5. Total(f, L) = Total(f, L \ {c}) + (IF c \in L THEN f[c] ELSE 0)
      <3>1. MaxPrice \in Nat
        BY Constants
      <3> QED
        BY <2>4, <3>1, TotalSplit
    <2>6. Total(f, K) \in Nat /\ Total(f, K) + reserved[d] <= DailyCap /\ DailyCap \in Nat
      BY <2>1, SumsType, ConstantsAssumption DEF CapInv, SameDayCap, Kept
    <2>7. Total(f, L) + reserved'[d] <= DailyCap
      <3>1. CASE c \in L
        BY <1>2, <1>8, <1>10, <2>3, <2>5, <2>6, <3>1
      <3>2. CASE c \notin L
        <4>1. Total(f, L) = Total(f, K)
          BY <2>3, <2>5, <2>6, <3>2
        <4>2. reserved'[d] <= reserved[d]
          BY <1>2, <1>8, <1>10
        <4> QED
          BY <1>8, <2>6, <4>1, <4>2
      <3> QED
        BY <3>1, <3>2
    <2> QED
      BY <2>1, <2>2, <2>7
  <1>15. SameDayCap'
    BY <1>14 DEF SameDayCap, Kept
  <1> QED
    BY <1>6, <1>7, <1>13, <1>15 DEF CapInv

\* A restart gives every reservation back: the rows it frees were reserved for.
LEMMA RestartCaps == ASSUME IInv, IInv', CapInv, Restart PROVE CapInv'
  <1>1. \A c \in Calls :
           \/ calls'[c] = calls[c] /\ calls[c].pc \in {"idle", "done"}
           \/ /\ calls[c].pc \notin {"idle", "done"}
              /\ calls'[c] = [calls[c] EXCEPT !.pc = "done", !.reply = "lost"]
    BY DEF Restart
  <1>2. reserved' = [d \in Days |-> 0] /\ UNCHANGED ledger
    BY DEF Restart, stored
  <1>3. ASSUME NEW c \in Calls
        PROVE  /\ calls'[c].pc = IF calls[c].pc = "idle" THEN "idle" ELSE "done"
               /\ calls[c].pc # "idle" => /\ calls'[c].day = calls[c].day
                                          /\ calls'[c].request = calls[c].request
    <2>1. CASE calls[c].pc \in {"idle", "done"}
      BY <1>1, <2>1
    <2>2. CASE calls[c].pc \notin {"idle", "done"}
      <3>1. PICK old \in Call : old = calls[c]
        BY <2>2, UnderWay
      <3>2. calls'[c] = [old EXCEPT !.pc = "done", !.reply = "lost"]
        BY <1>1, <2>2, <3>1
      <3> QED
        BY <2>2, <3>1, <3>2 DEF Call
    <2> QED
      BY <2>1, <2>2
  <1>4. RowsFollow'
    BY <1>2, <1>3 DEF CapInv, RowsFollow, PriceOf, Request
  <1>5. ReadCovers'
    BY <1>3 DEF ReadCovers, At
  <1>6. ReservationsBalanced'
    <2>1. ASSUME NEW d \in Days PROVE Holding(d)' = {}
      BY <1>3 DEF Holding
    <2> QED
      BY <1>2, <2>1, TotalEmpty DEF ReservationsBalanced
  <1>7. ASSUME NEW d \in Days
        PROVE  Total(LedgerPrices', Kept(d)') + reserved'[d] <= DailyCap
    <2>1. PICK H, K, L, f, g : /\ H = Holding(d) /\ K = Kept(d) /\ L = Kept(d)'
                               /\ f = LedgerPrices /\ g = CallPrices
      OBVIOUS
    <2>2. PICK h : h = [c \in Calls |-> IF c \in K THEN f[c] ELSE g[c]]
      OBVIOUS
    <2>3. LedgerPrices' = f
      BY <1>2, <2>1 DEF LedgerPrices
    <2>4. /\ L \in SUBSET (K \cup H) /\ K \cap H = {}
          /\ K \subseteq Calls /\ H \subseteq Calls
      BY <1>2, <1>3, <2>1 DEF Kept, Booked, Holding
    <2>5. \A c \in Calls : f[c] \in 0..MaxPrice /\ g[c] \in 0..MaxPrice /\ h[c] \in 0..MaxPrice
      BY <2>1, <2>2, SumsType
    <2>6. \A c \in L : f[c] <= h[c]
      <3>1. ASSUME NEW c \in L, c \notin K PROVE f[c] <= g[c]
        <4>1. c \in H /\ c \in Calls /\ ledger[c].day = d /\ d # 0 /\ calls[c].pc # "idle"
          BY <1>2, <1>3, <2>1, <2>4, <3>1, Constants DEF Kept, Booked, Holding
        <4>2. ledger[c].price = PriceOf(c)
          BY <4>1 DEF CapInv, RowsFollow
        <4>3. f[c] = g[c]
          BY <2>1, <4>1, <4>2 DEF LedgerPrices, CallPrices, Idle
        <4> QED
          BY <2>4, <2>5, <4>1, <4>3
      <3> QED
        BY <2>2, <2>4, <2>5, <3>1
    <2>7. IsFiniteSet(K) /\ IsFiniteSet(H) /\ IsFiniteSet(K \cup H) /\ MaxPrice \in Nat
      <3>1. K \cup H \subseteq Calls
        BY <2>4
      <3> QED
        BY <2>4, <3>1, Constants, FS_Subset
    <2>8. Total(f, L) <= Total(h, K \cup H)
      <3>1. \A c \in K \cup H : f[c] \in Nat /\ h[c] \in 0..MaxPrice
        BY <2>4, <2>5
      <3> QED
        BY <2>4, <2>6, <2>7, <3>1, TotalMonotone
    <2>9. Total(h, K \cup H) = Total(h, K) + Total(h, H)
      <3>1. \A c \in K \cup H : h[c] \in 0..MaxPrice
        BY <2>4, <2>5
      <3> QED
        BY <2>4, <2>7, <3>1, TotalUnion
    <2>10. Total(h, K) = Total(f, K) /\ Total(h, H) = Total(g, H)
      <3>1. (\A c \in K : h[c] = f[c]) /\ (\A c \in H : h[c] = g[c])
        BY <2>2, <2>4
      <3> QED
        BY <3>1, TotalAgree
    <2>11. Total(f, K) + Total(g, H) <= DailyCap
      BY <2>1 DEF CapInv, SameDayCap, ReservationsBalanced, Kept
    <2>12. Total(f, L) \in Nat /\ Total(f, K) \in Nat /\ Total(g, H) \in Nat /\ DailyCap \in Nat
      <3>1. IsFiniteSet(L) /\ \A c \in L : f[c] \in 0..MaxPrice
        BY <2>4, <2>5, <2>7, FS_Subset
      <3>2. Total(f, L) \in Nat
        BY <2>7, <3>1, TotalType
      <3> QED
        BY <2>1, <3>2, SumsType, ConstantsAssumption
    <2>13. Total(f, L) + 0 <= DailyCap
      BY <2>8, <2>9, <2>10, <2>11, <2>12
    <2> QED
      BY <1>2, <2>1, <2>3, <2>13
  <1>8. SameDayCap'
    BY <1>7 DEF SameDayCap, Kept
  <1> QED
    BY <1>4, <1>5, <1>6, <1>8 DEF CapInv

-----------------------------------------------------------------------------
(* The theorems *)

LEMMA InitCapInv == Init => CapInv
  <1> SUFFICES ASSUME Init PROVE CapInv
    OBVIOUS
  <1>1. RowsFollow /\ ReadCovers
    BY DEF Init, RowsFollow, ReadCovers, NoRow, Idle, At
  <1>2. \A d \in Days : Holding(d) = {} /\ Kept(d) = {} /\ reserved[d] = 0
    BY DEF Init, Holding, Kept, Booked, Idle
  <1>3. ReservationsBalanced
    BY <1>2, TotalEmpty DEF ReservationsBalanced
  <1>4. ASSUME NEW d \in Days PROVE Total(LedgerPrices, Kept(d)) + reserved[d] <= DailyCap
    <2>1. Total(LedgerPrices, Kept(d)) = 0
      BY <1>2, TotalEmpty
    <2> QED
      BY <1>2, <2>1, ConstantsAssumption
  <1> QED
    BY <1>1, <1>3, <1>4 DEF CapInv, SameDayCap, Kept

LEMMA NextCapInv == IInv /\ IInv' /\ CapInv /\ [Next]_vars => CapInv'
  <1> SUFFICES ASSUME IInv, IInv', CapInv, [Next]_vars PROVE CapInv'
    OBVIOUS
  <1>1. ASSUME NEW c \in Calls, NEW p \in Payments \cup {NoPayment}, NEW r \in Requests,
               Arrive(c, p, r)
        PROVE  CapInv'
    BY <1>1, ArriveCaps
  <1>2. ASSUME NEW c \in Calls, Step(c) PROVE CapInv'
    <2>1. CASE ReadRevenue(c) \/ ReserveRevenue(c) \/ Release(c)
      BY <2>1, ReadRevenueCaps, ReserveRevenueCaps, ReleaseCaps
    <2>2. CASE InnerStep(c)
      BY <2>2, InnerCaps
    <2> QED
      BY <1>2, <2>1, <2>2 DEF Step, InnerStep, Quiet
  <1>3. CASE Midnight \/ Change \/ UNCHANGED vars
    <2>1. UNCHANGED <<calls, reserved, ledger>>
      BY <1>3 DEF Midnight, Change, vars, stored
    <2> QED
      BY <2>1 DEF CapInv, RowsFollow, ReadCovers, ReservationsBalanced, SameDayCap, Kept, Booked,
                  Holding, CallPrices, LedgerPrices, PriceOf, Request, At
  <1>4. CASE Restart
    BY <1>4, RestartCaps
  <1> QED
    BY <1>1, <1>2, <1>3, <1>4 DEF Next

LEMMA CapInvariance == Spec => []CapInv
  <1>1. Init /\ [][Next]_vars /\ []IInv => []CapInv
    BY InitCapInv, NextCapInv, PTL
  <1> QED
    BY <1>1, Invariance, PTL DEF Spec

\* However calls interleave, end, fail or are cut off by a restart, what is
\* reserved under a day is exactly the prices of the calls that hold a reservation.
THEOREM ReservationsBalancedTheorem == Spec => []ReservationsBalanced
  <1>1. CapInv => ReservationsBalanced
    BY DEF CapInv
  <1> QED
    BY <1>1, CapInvariance, PTL

\* Whatever the prices, the cap and the interleaving, the revenue that was reserved
\* and recorded on one and the same day, and what is still reserved, fit the cap.
THEOREM SameDayCapTheorem == Spec => []SameDayCap
  <1>1. CapInv => SameDayCap
    BY DEF CapInv
  <1> QED
    BY <1>1, CapInvariance, PTL

-----------------------------------------------------------------------------
(***************************************************************************)
(* The ledger of PaidRequests is earned: each of its rows stands for a     *)
(* payment of its own that was taken at the price of the row.              *)
(***************************************************************************)

\* A request whose row is written, or is about to be.
Paid(call) == call.pc = "record" /\ call.reply = "fulfilled"
Due(c) == ledger[c].price > 0 \/ Paid(calls[c])

\* A row is written once, on the way out; what it stands for was taken.
RowsEarned ==
    \A c \in Calls :
        /\ ledger[c].price > 0 =>
              /\ calls[c].pc \in {"release", "done"}
              /\ ledger[c].price = PriceOf(c)
        /\ Due(c) => /\ calls[c] # Idle /\ Payment(c) \in Payments
                     /\ settled[Payment(c)].price = PriceOf(c)

EachPaysOnce == \A c, d \in Calls : Due(c) /\ Due(d) /\ Payment(c) = Payment(d) => c = d

EarnInv ==
    /\ RowsEarned
    /\ EachPaysOnce
    /\ \A p \in Payments : settled[p].price <= MaxPrice
    /\ IsFiniteSet(TakenSet)

-----------------------------------------------------------------------------
(* Its steps *)

\* What a request may do without earning, and what earns.
StaysUnpaid(c) == ledger[c].price = 0 /\ ~Paid(calls'[c])
WalksOut(c) ==
    /\ calls[c] # Idle
    /\ \E new \in Call : /\ new = calls'[c] /\ new.pc \in {"release", "done"}
                         /\ new.payment = Payment(c) /\ new.request = Request(c)
Pays(c) ==
    /\ ledger[c].price = 0
    /\ \E new \in Call : /\ new = calls'[c] /\ Paid(new) /\ new.payment \in Payments
                         /\ settled[new.payment] = NoRow
                         /\ settled'[new.payment].price = Price[new.request]
Follows(c) == calls'[c] = calls[c] \/ StaysUnpaid(c) \/ WalksOut(c)

LEMMA EarnKeeps ==
    ASSUME IInv, IInv', EarnInv, UNCHANGED ledger,
           \A p \in Payments : settled[p] # NoRow => settled'[p] = settled[p],
           \A p \in Payments : settled'[p].price <= MaxPrice,
           IsFiniteSet(TakenSet'),
           \A c \in Calls : Follows(c) \/ Pays(c),
           \A c, d \in Calls : Pays(c) /\ Pays(d) => c = d
    PROVE  EarnInv'
  <1>1. ASSUME NEW c \in Calls, Due(c)', ~Pays(c)
        PROVE  /\ Due(c) /\ Payment(c)' = Payment(c) /\ Request(c)' = Request(c)
               /\ calls'[c] # Idle
               /\ ledger[c].price > 0 => calls'[c].pc \in {"release", "done"}
    <2>1. ledger[c].price \in Nat /\ Idle \notin Call
      BY DEF IInv, TypeOK, Idle, Call
    <2>2. CASE calls'[c] = calls[c]
      BY <1>1, <2>2 DEF Due, EarnInv, RowsEarned, Payment, Request
    <2>3. CASE StaysUnpaid(c)
      BY <1>1, <2>1, <2>3 DEF StaysUnpaid, Due
    <2>4. CASE WalksOut(c)
      BY <1>1, <2>1, <2>4 DEF WalksOut, Due, Paid, Payment, Request
    <2> QED
      BY <1>1, <2>2, <2>3, <2>4 DEF Follows
  <1>2. ASSUME NEW c \in Calls, Due(c)
        PROVE  /\ Payment(c) \in Payments /\ settled[Payment(c)] # NoRow
               /\ settled'[Payment(c)].price = PriceOf(c)
    <2>1. /\ Payment(c) \in Payments /\ settled[Payment(c)].price = PriceOf(c)
          /\ calls[c] # Idle
      BY <1>2 DEF EarnInv, RowsEarned
    <2>2. Request(c) \in Requests
      BY <2>1 DEF IInv, TypeOK, Call, Request
    <2>3. settled[Payment(c)] # NoRow
      BY <2>1, <2>2, Constants DEF NoRow, PriceOf
    <2> QED
      BY <2>1, <2>3
  <1>3. ASSUME NEW c \in Calls, Pays(c)
        PROVE  /\ calls'[c] # Idle /\ Payment(c)' \in Payments /\ ledger[c].price = 0
               /\ settled[Payment(c)'] = NoRow
               /\ settled'[Payment(c)'].price = PriceOf(c)'
    <2>1. Idle \notin Call
      BY DEF Idle, Call
    <2> QED
      BY <1>3, <2>1 DEF Pays, Payment, PriceOf, Request
  <1>4. RowsEarned'
    <2> SUFFICES ASSUME NEW c \in Calls
                 PROVE  /\ ledger'[c].price > 0 =>
                              /\ calls'[c].pc \in {"release", "done"}
                              /\ ledger'[c].price = PriceOf(c)'
                        /\ Due(c)' => /\ calls'[c] # Idle /\ Payment(c)' \in Payments
                                      /\ settled'[Payment(c)'].price = PriceOf(c)'
      BY DEF RowsEarned
    <2>1. CASE Pays(c)
      BY <1>3, <2>1
    <2>2. CASE ~Pays(c) /\ Due(c)'
      <3>1. /\ Due(c) /\ Payment(c)' = Payment(c) /\ PriceOf(c)' = PriceOf(c)
            /\ calls'[c] # Idle
            /\ ledger[c].price > 0 => calls'[c].pc \in {"release", "done"}
        BY <1>1, <2>2 DEF PriceOf
      <3>2. ledger[c].price > 0 => ledger[c].price = PriceOf(c)
        BY DEF EarnInv, RowsEarned
      <3> QED
        BY <1>2, <3>1, <3>2
    <2>3. CASE ~Due(c)'
      BY <2>3 DEF Due
    <2> QED
      BY <2>1, <2>2, <2>3
  <1>5. EachPaysOnce'
    <2> SUFFICES ASSUME NEW c \in Calls, NEW d \in Calls, Due(c)', Due(d)',
                        Payment(c)' = Payment(d)'
                 PROVE  c = d
      BY DEF EachPaysOnce
    <2>1. CASE Pays(c) /\ Pays(d)
      BY <2>1
    <2>2. CASE Pays(c) /\ ~Pays(d)
      BY <1>1, <1>2, <1>3, <2>2
    <2>3. CASE ~Pays(c) /\ Pays(d)
      BY <1>1, <1>2, <1>3, <2>3
    <2>4. CASE ~Pays(c) /\ ~Pays(d)
      BY <1>1, <2>4 DEF EarnInv, EachPaysOnce
    <2> QED
      BY <2>1, <2>2, <2>3, <2>4
  <1> QED
    BY <1>4, <1>5 DEF EarnInv

\* A step that takes no money and answers nobody as fulfilled.
LEMMA EarnsNothing ==
    ASSUME IInv, IInv', EarnInv, UNCHANGED <<ledger, settled>>,
           \A c \in Calls : Follows(c)
    PROVE  EarnInv'
  <1>1. /\ \A p \in Payments : settled[p] # NoRow => settled'[p] = settled[p]
        /\ \A p \in Payments : settled'[p].price <= MaxPrice
    BY DEF EarnInv
  <1>2. IsFiniteSet(TakenSet')
    BY DEF EarnInv, TakenSet
  <1>3. \A c \in Calls : ~Pays(c)
    <2> SUFFICES ASSUME NEW c \in Calls, Pays(c) PROVE FALSE
      OBVIOUS
    <2>1. PICK new \in Call : /\ new.payment \in Payments /\ settled[new.payment] = NoRow
                              /\ settled'[new.payment].price = Price[new.request]
      BY DEF Pays
    <2>2. Price[new.request] # 0
      BY Constants DEF Call
    <2> QED
      BY <2>1, <2>2 DEF NoRow
  <1> QED
    BY <1>1, <1>2, <1>3, EarnKeeps

\* Money that is taken.
LEMMA EarnTakes ==
    ASSUME IInv, EarnInv, NEW c \in Calls, calls[c].pc = "settle",
           settled[Payment(c)] = NoRow, Taken(c)
    PROVE  /\ Payment(c) \in Payments /\ settled'[Payment(c)].price = PriceOf(c)
           /\ \A p \in Payments : settled[p] # NoRow => settled'[p] = settled[p]
           /\ \A p \in Payments : settled'[p].price <= MaxPrice
           /\ IsFiniteSet(TakenSet')
  <1>1. PICK old \in Call : /\ old = calls[c] /\ Safe(old) /\ old.pc = "settle"
                            /\ Payment(c) = old.payment /\ PriceOf(c) = Price[old.request]
    BY UnderWay
  <1>2. /\ old.payment \in Payments /\ Price[old.request] \in Nat
        /\ Price[old.request] <= MaxPrice
    BY <1>1, Constants DEF Safe, Call
  <1>3. settled' = [settled EXCEPT ![old.payment] = [price |-> Price[old.request], day |-> day]]
    BY <1>1 DEF Taken
  <1>4. /\ settled'[old.payment].price = Price[old.request]
        /\ \A p \in Payments \ {old.payment} : settled'[p] = settled[p]
    BY <1>2, <1>3 DEF IInv, TypeOK
  <1>5. TakenSet' \in SUBSET (TakenSet \cup {old.payment})
    BY <1>4 DEF TakenSet, NoRow
  <1>6. IsFiniteSet(TakenSet \cup {old.payment})
    BY FS_AddElement, Zenon DEF EarnInv
  <1>7. IsFiniteSet(TakenSet')
    BY <1>5, <1>6, FS_Subset, Zenon
  <1> QED
    BY <1>1, <1>2, <1>4, <1>7 DEF EarnInv

\* Before its record a request has no row.
LEMMA NoRowYet ==
    ASSUME IInv, EarnInv, NEW c \in Calls, calls[c].pc \notin {"release", "done"}
    PROVE  ledger[c].price = 0
  <1>1. ledger[c].price \in Nat
    BY DEF IInv, TypeOK
  <1> QED
    BY <1>1 DEF EarnInv, RowsEarned

\* A request that is not answered as fulfilled.
LEMMA SoberMove ==
    ASSUME IInv, IInv', EarnInv, NEW c \in Calls, NEW new \in Call,
           calls' = [calls EXCEPT ![c] = new], ~Paid(new), UNCHANGED <<ledger, settled>>,
           calls[c].pc \notin {"release", "done"}
    PROVE  EarnInv'
  <1>1. calls'[c] = new /\ \A d \in Calls \ {c} : calls'[d] = calls[d]
    BY OthersStay
  <1>2. \A d \in Calls : Follows(d)
    BY <1>1, NoRowYet DEF Follows, StaysUnpaid
  <1> QED
    BY <1>2, EarnsNothing

LEMMA GoSobers ==
    ASSUME IInv, IInv', EarnInv, NEW c \in Calls, UNCHANGED <<ledger, settled>>,
           calls[c].pc \notin {"idle", "release", "done"},
           \/ \E pc \in {"validate", "prepare", "bind", "insert", "verify", "handle", "intent",
                         "intend", "build", "settle", "release"} : Go(c, pc)
           \/ \E reply \in {"failed", "conflict", "quote", "unsettled"} : Respond(c, reply)
           \/ \E reply \in {"failed", "conflict", "error"} : Abort(c, reply)
    PROVE  EarnInv'
  <1>1. PICK old \in Call : old = calls[c]
    BY UnderWay
  <1>2. CASE \E pc \in {"validate", "prepare", "bind", "insert", "verify", "handle", "intent",
                        "intend", "build", "settle", "release"} : Go(c, pc)
    <2>1. PICK pc \in {"validate", "prepare", "bind", "insert", "verify", "handle", "intent",
                       "intend", "build", "settle", "release"} : Go(c, pc)
      BY <1>2
    <2> DEFINE new == [old EXCEPT !.pc = pc]
    <2>2. Moved(c, new)
      BY <1>1, <2>1, GoMoves
    <2>3. ~Paid(new)
      BY DEF Paid, Call
    <2> HIDE DEF new
    <2> QED
      BY <2>2, <2>3, SoberMove DEF Moved
  <1>3. CASE \E reply \in {"failed", "conflict", "quote", "unsettled"} : Respond(c, reply)
    <2>1. PICK reply \in {"failed", "conflict", "quote", "unsettled"} : Respond(c, reply)
      BY <1>3
    <2> DEFINE new == [old EXCEPT !.pc = "record", !.reply = reply]
    <2>2. Moved(c, new)
      BY <1>1, <2>1, ReplyMoves
    <2>3. ~Paid(new)
      BY DEF Paid, Call
    <2> HIDE DEF new
    <2> QED
      BY <2>2, <2>3, SoberMove DEF Moved
  <1>4. CASE \E reply \in {"failed", "conflict", "error"} : Abort(c, reply)
    <2>1. PICK reply \in {"failed", "conflict", "error"} : Abort(c, reply)
      BY <1>4
    <2> DEFINE new == [old EXCEPT !.pc = "release", !.reply = reply]
    <2>2. Moved(c, new)
      BY <1>1, <2>1, ReplyMoves
    <2>3. ~Paid(new)
      BY DEF Paid, Call
    <2> HIDE DEF new
    <2> QED
      BY <2>2, <2>3, SoberMove DEF Moved
  <1> QED
    BY <1>2, <1>3, <1>4

\* The revenue cap's steps and the preparation, which set more than the place.
LEMMA SettersSober ==
    ASSUME IInv, IInv', EarnInv, NEW c \in Calls,
           ReadRevenue(c) \/ ReserveRevenue(c) \/ Prepare(c)
    PROVE  EarnInv'
  <1>1. PICK old \in Call : old = calls[c] /\ old.pc \in {"cap", "reserve", "prepare"}
    BY UnderWay DEF ReadRevenue, ReserveRevenue, Prepare, At
  <1>2. UNCHANGED <<ledger, settled>>
    BY DEF ReadRevenue, ReserveRevenue, Prepare, stored, external
  <1>3. CASE \/ \E pc \in {"validate"} : Go(c, pc)
             \/ \E reply \in {"failed"} : Abort(c, reply)
    BY <1>1, <1>2, <1>3, GoSobers
  <1>4. CASE \/ calls' = [calls EXCEPT ![c].pc = "reserve", ![c].day = day,
                                      ![c].fulfilled = RevenueSince(day)]
             \/ calls' = [calls EXCEPT ![c].pc = "done", ![c].day = 0, ![c].reply = "capped"]
             \/ calls' = [calls EXCEPT ![c].pc = "bind", ![c].version = version]
    <2>1. calls'[c].pc \in {"reserve", "done", "bind"}
      BY <1>1, <1>4 DEF IInv, TypeOK, Call
    <2>2. \A d \in Calls \ {c} : calls'[d] = calls[d]
      BY <1>4 DEF IInv, TypeOK
    <2>3. \A d \in Calls : Follows(d)
      BY <1>1, <2>1, <2>2, NoRowYet DEF Follows, StaysUnpaid, Paid
    <2> QED
      BY <1>2, <2>3, EarnsNothing
  <1> QED
    BY <1>3, <1>4 DEF ReadRevenue, ReserveRevenue, Prepare

\* Settlement: the payment earns for this request alone.
LEMMA SettleEarns == ASSUME IInv, IInv', EarnInv, NEW c \in Calls, Settle(c) PROVE EarnInv'
  <1>1. PICK old \in Call : /\ old = calls[c] /\ Safe(old) /\ old.pc = "settle"
                            /\ Payment(c) = old.payment /\ Request(c) = old.request
    BY UnderWay DEF Settle, At
  <1>2. UNCHANGED ledger /\ ledger[c].price = 0 /\ old.payment \in Payments
    BY <1>1, NoRowYet DEF Settle, stored, Safe
  <1>3. PICK reply \in {"fulfilled", "unsettled"} :
           /\ Respond(c, reply)
           /\ \/ settled[old.payment] = NoRow /\ Taken(c)
              \/ reply = "unsettled" /\ UNCHANGED settled
    BY <1>1 DEF Settle
  <1>4. PICK new \in Call : /\ calls' = [calls EXCEPT ![c] = new]
                            /\ new = [old EXCEPT !.pc = "record", !.reply = reply]
    <2>1. Moved(c, [old EXCEPT !.pc = "record", !.reply = reply])
      BY <1>1, <1>3, ReplyMoves
    <2> QED
      BY <2>1 DEF Moved
  <1>5. /\ new.pc = "record" /\ new.reply = reply
        /\ new.payment = old.payment /\ new.request = old.request
    BY <1>4 DEF Call
  <1>6. calls'[c] = new /\ \A d \in Calls \ {c} : calls'[d] = calls[d]
    BY <1>4, OthersStay
  <1>7. CASE reply = "unsettled" /\ UNCHANGED settled
    BY <1>1, <1>2, <1>4, <1>5, <1>7, SoberMove DEF Paid
  <1>8. CASE settled[old.payment] = NoRow /\ Taken(c)
    <2>1. /\ settled'[old.payment].price = Price[old.request]
          /\ \A p \in Payments : settled[p] # NoRow => settled'[p] = settled[p]
          /\ \A p \in Payments : settled'[p].price <= MaxPrice
          /\ IsFiniteSet(TakenSet')
      BY <1>1, <1>8, EarnTakes DEF PriceOf
    <2>2. Follows(c) \/ Pays(c)
      BY <1>2, <1>3, <1>5, <1>6, <1>8, <2>1 DEF Follows, StaysUnpaid, Pays, Paid
    <2>3. \A d \in Calls \ {c} : Follows(d)
      BY <1>6 DEF Follows
    <2>4. \A d \in Calls : Pays(d) => d = c
      <3> SUFFICES ASSUME NEW d \in Calls, Pays(d), d # c PROVE FALSE
        OBVIOUS
      <3>1. ledger[d].price = 0 /\ Paid(calls[d]) /\ settled[Payment(d)] = NoRow
        BY <1>6 DEF Pays, Payment
      <3>2. /\ calls[d] # Idle /\ Payment(d) \in Payments
            /\ settled[Payment(d)].price = PriceOf(d)
        BY <3>1 DEF EarnInv, RowsEarned, Due
      <3>3. Request(d) \in Requests
        BY <3>2 DEF IInv, TypeOK, Call, Request
      <3> QED
        BY <3>1, <3>2, <3>3, Constants DEF NoRow, PriceOf
    <2> QED
      BY <1>2, <2>1, <2>2, <2>3, <2>4, EarnKeeps
  <1> QED
    BY <1>3, <1>7, <1>8

\* The record writes the row the request is due, at its price.
LEMMA RecordEarns == ASSUME IInv, IInv', EarnInv, NEW c \in Calls, Record(c) PROVE EarnInv'
  <1>1. PICK old \in Call : old = calls[c] /\ old.pc = "record"
    BY UnderWay DEF Record, At
  <1>2. UNCHANGED settled /\ ledger[c].price = 0 /\ Go(c, "release")
    BY <1>1, NoRowYet DEF Record, external
  <1>3. CASE ~Counts(c)
    BY <1>1, <1>2, <1>3, GoSobers DEF Record
  <1>4. CASE Counts(c)
    <2>1. PICK new \in Call : /\ calls' = [calls EXCEPT ![c] = new]
                              /\ new = [old EXCEPT !.pc = "release"]
      <3>1. Moved(c, [old EXCEPT !.pc = "release"])
        BY <1>1, <1>2, GoMoves
      <3> QED
        BY <3>1 DEF Moved
    <2>2. new.pc = "release" /\ new.payment = old.payment /\ new.request = old.request
      BY <2>1 DEF Call
    <2>3. calls'[c] = new /\ \A d \in Calls \ {c} : calls'[d] = calls[d]
      BY <2>1, OthersStay
    <2>4. /\ Due(c) /\ Payment(c)' = Payment(c) /\ PriceOf(c)' = PriceOf(c)
          /\ calls'[c] # Idle
      BY <1>1, <1>4, <2>2, <2>3 DEF Counts, Due, Paid, Payment, PriceOf, Request, Idle
    <2>5. ledger'[c].price = PriceOf(c) /\ \A d \in Calls \ {c} : ledger'[d] = ledger[d]
      BY <1>4 DEF Record, IInv, TypeOK
    <2>6. \A d \in Calls : Due(d)' => Due(d) /\ Payment(d)' = Payment(d) /\ PriceOf(d)' = PriceOf(d)
      BY <2>3, <2>4, <2>5 DEF Due, Payment, PriceOf, Request
    <2>7. RowsEarned'
      <3> SUFFICES ASSUME NEW d \in Calls
                   PROVE  /\ ledger'[d].price > 0 =>
                                /\ calls'[d].pc \in {"release", "done"}
                                /\ ledger'[d].price = PriceOf(d)'
                          /\ Due(d)' => /\ calls'[d] # Idle /\ Payment(d)' \in Payments
                                        /\ settled'[Payment(d)'].price = PriceOf(d)'
        BY DEF RowsEarned
      <3>1. CASE d = c
        BY <1>2, <2>2, <2>3, <2>4, <2>5, <3>1 DEF EarnInv, RowsEarned
      <3>2. CASE d # c
        <4>1. /\ ledger'[d] = ledger[d] /\ calls'[d] = calls[d]
              /\ PriceOf(d)' = PriceOf(d) /\ Payment(d)' = Payment(d)
          BY <2>3, <2>5, <3>2 DEF PriceOf, Request, Payment
        <4> QED
          BY <1>2, <2>6, <4>1 DEF EarnInv, RowsEarned
      <3> QED
        BY <3>1, <3>2
    <2>8. EachPaysOnce'
      BY <2>6 DEF EarnInv, EachPaysOnce
    <2> QED
      BY <1>2, <2>7, <2>8 DEF EarnInv, TakenSet
  <1> QED
    BY <1>3, <1>4

\* The end of a request, recorded or not.
LEMMA ReleaseEarns == ASSUME IInv, IInv', EarnInv, NEW c \in Calls, Release(c) PROVE EarnInv'
  <1>1. PICK old \in Call : /\ old = calls[c] /\ old.pc = "release" /\ calls[c] # Idle
                            /\ Payment(c) = old.payment /\ Request(c) = old.request
    BY UnderWay DEF Release, At
  <1>2. UNCHANGED <<ledger, settled>> /\ Go(c, "done")
    BY DEF Release, stored, external
  <1>3. PICK new \in Call : /\ calls' = [calls EXCEPT ![c] = new]
                            /\ new = [old EXCEPT !.pc = "done"]
    <2>1. Moved(c, [old EXCEPT !.pc = "done"])
      BY <1>1, <1>2, GoMoves
    <2> QED
      BY <2>1 DEF Moved
  <1>4. new.pc = "done" /\ new.payment = old.payment /\ new.request = old.request
    BY <1>3 DEF Call
  <1>5. calls'[c] = new /\ \A d \in Calls \ {c} : calls'[d] = calls[d]
    BY <1>3, OthersStay
  <1>6. \A d \in Calls : Follows(d)
    BY <1>1, <1>4, <1>5 DEF Follows, WalksOut
  <1> QED
    BY <1>2, <1>6, EarnsNothing

\* A restart ends every request where it stands; a payment may still be taken.
LEMMA RestartEarns == ASSUME IInv, IInv', EarnInv, Restart PROVE EarnInv'
  <1>1. UNCHANGED ledger
    BY DEF Restart, stored
  <1>2. ASSUME NEW c \in Calls
        PROVE  Follows(c) /\ ~Pays(c)
    <2>1. CASE calls[c].pc \in {"idle", "done"}
      <3>1. calls'[c] = calls[c] /\ calls'[c].pc # "record"
        BY <2>1 DEF Restart
      <3> QED
        BY <3>1 DEF Follows, Pays, Paid
    <2>2. CASE calls[c].pc \notin {"idle", "done"}
      <3>1. PICK old \in Call : /\ old = calls[c] /\ calls[c] # Idle
                                /\ Payment(c) = old.payment /\ Request(c) = old.request
        BY <2>2, UnderWay
      <3>2. calls'[c] = [calls[c] EXCEPT !.pc = "done", !.reply = "lost"]
        BY <2>2 DEF Restart
      <3>3. PICK mid \in Call : mid = [old EXCEPT !.pc = "done"]
        <4>1. [old EXCEPT !.pc = "done"] \in Call
          BY DEF Call
        <4> QED
          BY <4>1
      <3>4. PICK new \in Call : new = [mid EXCEPT !.reply = "lost"]
        <4>1. [mid EXCEPT !.reply = "lost"] \in Call
          BY DEF Call
        <4> QED
          BY <4>1
      <3>5. new.pc = "done" /\ new.payment = old.payment /\ new.request = old.request
        BY <3>3, <3>4 DEF Call
      <3>6. calls'[c] = new
        BY <3>1, <3>2, <3>3, <3>4
      <3> QED
        BY <3>1, <3>5, <3>6 DEF Follows, WalksOut, Pays, Paid
    <2> QED
      BY <2>1, <2>2
  <1>3. CASE UNCHANGED settled
    BY <1>1, <1>2, <1>3, EarnsNothing
  <1>4. CASE \E c \in Calls : At(c, "settle") /\ settled[Payment(c)] = NoRow /\ Taken(c)
    <2>1. /\ \A p \in Payments : settled[p] # NoRow => settled'[p] = settled[p]
          /\ \A p \in Payments : settled'[p].price <= MaxPrice
          /\ IsFiniteSet(TakenSet')
      BY <1>4, EarnTakes DEF At
    <2> QED
      BY <1>1, <1>2, <2>1, EarnKeeps
  <1> QED
    BY <1>3, <1>4 DEF Restart

LEMMA InitEarnInv == Init => EarnInv
  <1> SUFFICES ASSUME Init PROVE EarnInv
    OBVIOUS
  <1>1. \A c \in Calls : ~Due(c) /\ ledger[c].price = 0
    BY DEF Init, Due, Paid, Idle, NoRow
  <1>2. TakenSet = {}
    BY DEF Init, TakenSet
  <1>3. \A p \in Payments : settled[p].price <= MaxPrice
    BY Constants DEF Init, NoRow
  <1>4. IsFiniteSet(TakenSet)
    BY <1>2, FS_EmptySet
  <1> QED
    BY <1>1, <1>3, <1>4 DEF EarnInv, RowsEarned, EachPaysOnce

LEMMA NextEarnInv == IInv /\ IInv' /\ EarnInv /\ [Next]_vars => EarnInv'
  <1> SUFFICES ASSUME IInv, IInv', EarnInv, [Next]_vars PROVE EarnInv'
    OBVIOUS
  <1>1. ASSUME NEW c \in Calls, NEW p \in Payments \cup {NoPayment}, NEW r \in Requests,
               Arrive(c, p, r)
        PROVE  EarnInv'
    <2>1. calls[c].pc = "idle" /\ UNCHANGED <<ledger, settled>>
      BY <1>1 DEF Arrive, Idle, stored, external
    <2>2. calls'[c].pc = "cap" /\ \A d \in Calls \ {c} : calls'[d] = calls[d]
      BY <1>1 DEF Arrive, IInv, TypeOK
    <2>3. \A d \in Calls : Follows(d)
      BY <2>1, <2>2, NoRowYet DEF Follows, StaysUnpaid, Paid
    <2> QED
      BY <2>1, <2>3, EarnsNothing
  <1>2. ASSUME NEW c \in Calls, Step(c) PROVE EarnInv'
    <2>1. CASE ReadRevenue(c) \/ ReserveRevenue(c) \/ Prepare(c)
      BY <2>1, SettersSober
    <2>2. CASE \/ Validate(c) \/ CheckBinding(c) \/ InsertBinding(c) \/ Verify(c) \/ Handle(c)
               \/ CheckIntent(c) \/ InsertIntent(c) \/ Build(c) \/ RecordFails(c)
      <3>1. /\ calls[c].pc \notin {"idle", "release", "done"}
            /\ UNCHANGED <<ledger, settled>>
        BY <2>2 DEF Validate, CheckBinding, InsertBinding, Verify, Handle, CheckIntent,
             InsertIntent, Build, RecordFails, At, stored, external
      <3>2. PICK old \in Call : old = calls[c] /\ Request(c) = old.request
        BY <3>1, UnderWay
      <3>3. Kind[Request(c)] \in {"prepared", "procured", "composed"}
        BY <3>2, Constants DEF Call
      <3>4. \/ \E pc \in {"validate", "prepare", "bind", "insert", "verify", "handle", "intent",
                          "intend", "build", "settle", "release"} : Go(c, pc)
            \/ \E reply \in {"failed", "conflict", "quote", "unsettled"} : Respond(c, reply)
            \/ \E reply \in {"failed", "conflict", "error"} : Abort(c, reply)
        BY <2>2, <3>3 DEF Validate, CheckBinding, InsertBinding, Verify, Handle, CheckIntent,
             InsertIntent, Build, RecordFails, Refuse, AfterBind, FirstOf
      <3> QED
        BY <3>1, <3>4, GoSobers
    <2>3. CASE Settle(c) \/ Record(c) \/ Release(c)
      BY <2>3, SettleEarns, RecordEarns, ReleaseEarns
    <2> QED
      BY <1>2, <2>1, <2>2, <2>3 DEF Step
  <1>3. CASE Midnight \/ Change \/ UNCHANGED vars
    <2>1. UNCHANGED <<calls, ledger, settled>>
      BY <1>3 DEF Midnight, Change, vars, stored
    <2>2. \A c \in Calls : Follows(c)
      BY <2>1 DEF Follows
    <2> QED
      BY <2>1, <2>2, EarnsNothing
  <1>4. CASE Restart
    BY <1>4, RestartEarns
  <1> QED
    BY <1>1, <1>2, <1>3, <1>4 DEF Next

\* The rows are matched with the payments they stand for.
LEMMA Earned ==
    ASSUME IInv, EarnInv
    PROVE  LedgerIsEarned
  <1> DEFINE Prices == [p \in Payments |-> settled[p].price]
             Rows == {c \in Calls : ledger[c].price > 0}
             payer == [c \in Rows |-> Payment(c)]
  <1>1. Total(Prices, Payments) = Total(Prices, TakenSet)
    <2>1. \A p \in Payments \ TakenSet : Prices[p] = 0
      BY DEF TakenSet, NoRow
    <2>2. TakenSet \in SUBSET Payments
      BY DEF TakenSet
    <2> HIDE DEF Prices
    <2> QED
      BY <2>1, <2>2, TotalDrop
  <1>2. Total(LedgerPrices, Calls) = Total(LedgerPrices, Rows)
    <2>1. \A c \in Calls \ Rows : LedgerPrices[c] = 0
      BY DEF LedgerPrices, IInv, TypeOK
    <2> QED
      BY <2>1, TotalDrop
  <1>3. \A p \in TakenSet : Prices[p] \in 0..MaxPrice
    BY Constants DEF EarnInv, TakenSet, IInv, TypeOK
  <1>4. \A c \in Rows : /\ payer[c] \in TakenSet /\ LedgerPrices[c] \in Nat
                        /\ LedgerPrices[c] <= Prices[payer[c]]
    <2> TAKE c \in Rows
    <2>1. /\ c \in Calls /\ ledger[c].price > 0 /\ ledger[c].price \in Nat
          /\ Payment(c) \in Payments /\ settled[Payment(c)].price = ledger[c].price
      BY DEF EarnInv, RowsEarned, Due, IInv, TypeOK
    <2>2. settled[Payment(c)] # NoRow
      BY <2>1 DEF NoRow
    <2> QED
      BY <2>1, <2>2 DEF TakenSet, LedgerPrices
  <1>5. \A c, d \in Rows : payer[c] = payer[d] => c = d
    BY DEF EarnInv, EachPaysOnce, Due
  <1>6. IsFiniteSet(TakenSet) /\ MaxPrice \in Nat
    BY Constants DEF EarnInv
  <1> HIDE DEF Prices, Rows, payer
  <1>7. Total(LedgerPrices, Rows) <= Total(Prices, TakenSet)
    BY <1>3, <1>4, <1>5, <1>6, TotalInject
  <1> QED
    BY <1>1, <1>2, <1>7 DEF LedgerIsEarned, Prices

\* The revenue the ledger shows, and the cap is checked against, is never more than
\* was really taken, for any calls, payments, prices, retries and restarts.
THEOREM LedgerIsEarnedTheorem == Spec => []LedgerIsEarned
  <1>1. Init /\ [][Next]_vars /\ []IInv => []EarnInv
    BY InitEarnInv, NextEarnInv, PTL
  <1>2. IInv /\ EarnInv => LedgerIsEarned
    BY Earned
  <1> QED
    BY <1>1, <1>2, Invariance, PTL DEF Spec
=============================================================================
