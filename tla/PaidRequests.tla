---------------------------- MODULE PaidRequests ----------------------------
(***************************************************************************)
(* app.py and evidence.py: one paid HTTP request on its way through        *)
(* MainnetRevenueCapMiddleware, EvidencePrecomputeMiddleware, the x402     *)
(* payment middleware, the handler, and back.  Requests run concurrently   *)
(* on the event loop; every transaction of the evidence database and every *)
(* call of the payment facilitator is a step of its own.                   *)
(*   A "prepared" route prepares its result and binds the payment to it    *)
(* before the payment is verified.  A "procured" route binds the payment   *)
(* to the request, builds, and binds it to the result in its handler; the  *)
(* "composed" dossier route does so without binding it to the request.     *)
(***************************************************************************)
EXTENDS Naturals, FiniteSets, LedgerSum

CONSTANTS
    Calls,        \* HTTP requests
    Payments,     \* payment proofs (payment-signature headers)
    Requests,     \* validated bodies with their route (canonical request hash)
    Kind,         \* Kind[r] is "prepared", "procured" or "composed"
    Price,        \* route_prices, by request
    DailyCap,     \* AUTONOMOUS_X402_DAILY_REVENUE_CAP_USD
    MaxDay,       \* bound: UTC days modelled
    MaxVersion,   \* bound: versions of the sources an answer is prepared from
    MaxRestarts   \* bound: restarts of the process

NoPayment == "unpaid"
NoCall == "free"
Days == 1..MaxDay

ASSUME ConstantsAssumption ==
    /\ IsFiniteSet(Calls) /\ NoCall \notin Calls /\ NoPayment \notin Payments
    /\ Kind \in [Requests -> {"prepared", "procured", "composed"}]
    /\ Price \in [Requests -> Nat \ {0}]
    /\ \E dearest \in Requests : \A r \in Requests : Price[r] <= Price[dearest]
    /\ DailyCap \in Nat /\ MaxDay \in Nat \ {0}
    /\ MaxVersion \in Nat \ {0} /\ MaxRestarts \in Nat

VARIABLES
    calls,        \* local variables of every request
    capLock,      \* asyncio lock of the revenue cap: its holder or NoCall
    reserved,     \* MainnetRevenueCapMiddleware.reserved, by day
    intents,      \* payment_request_bindings: set of <<payment, request>>
    bindings,     \* payment_bindings: set of <<payment, request, version>>
    ledger,       \* evidence_attempts that are FULFILLED: their price and day, by request
    fulfillments, \* set of <<payment, request, version>>
    settled,      \* external: the payments whose money was taken, and when
    version,      \* external: the sources' current version
    day,
    restarts

stored == <<intents, bindings, ledger, fulfillments>>
external == <<settled, version, day, restarts>>
vars == <<calls, capLock, reserved, intents, bindings, ledger, fulfillments,
          settled, version, day, restarts>>

Idle == [pc |-> "idle"]
NoRow == [price |-> 0, day |-> 0]

Init ==
    /\ calls = [c \in Calls |-> Idle]
    /\ capLock = NoCall
    /\ reserved = [d \in Days |-> 0]
    /\ intents = {} /\ bindings = {}
    /\ ledger = [c \in Calls |-> NoRow]
    /\ fulfillments = {}
    /\ settled = [p \in Payments |-> NoRow]
    /\ version = 1
    /\ day = 1
    /\ restarts = 0

-----------------------------------------------------------------------------
(* Helpers *)

At(c, pc) == calls[c].pc = pc
Payment(c) == calls[c].payment
Request(c) == calls[c].request
PriceOf(c) == Price[Request(c)]
Proof(c) == <<Payment(c), Request(c), calls[c].version>>
Go(c, pc) == calls' = [calls EXCEPT ![c].pc = pc]

\* The response is known; the caller sees it after record_attempt, or at once if
\* the middleware answered by itself or an exception passed through it.
Respond(c, reply) == calls' = [calls EXCEPT ![c].pc = "record", ![c].reply = reply]
Abort(c, reply) == calls' = [calls EXCEPT ![c].pc = "release", ![c].reply = reply]

\* fulfilled_revenue_since the start of today.
RevenueSince(d) ==
    Total([c \in Calls |-> ledger[c].price], {c \in Calls : ledger[c].day >= d})

-----------------------------------------------------------------------------
(* MainnetRevenueCapMiddleware, on the way in *)

Arrive(c, p, r) ==
    /\ calls[c] = Idle
    /\ calls' = [calls EXCEPT ![c] =
           [pc |-> "cap", payment |-> p, request |-> r, version |-> 0, day |-> 0,
            fulfilled |-> 0, reply |-> "none"]]
    /\ UNCHANGED <<capLock, reserved, stored, external>>

\* async with self.lock.
LockIgnored == TRUE                                                       \* mutant
LockFree == capLock = NoCall

\* Under the lock: the day, and the revenue the ledger shows since it began.
ReadRevenue(c) ==
    /\ At(c, "cap") /\ LockFree
    /\ capLock' = c
    /\ calls' = [calls EXCEPT ![c].pc = "reserve", ![c].day = day,
                              ![c].fulfilled = RevenueSince(day)]
    /\ UNCHANGED <<reserved, stored, external>>

FitsCapUnreserved(c) == calls[c].fulfilled + PriceOf(c) <= DailyCap       \* mutant
FitsCap(c) ==
    calls[c].fulfilled + reserved[calls[c].day] + PriceOf(c) <= DailyCap

\* Still under the lock: refuse, or set the price aside for the day read.
ReserveRevenue(c) ==
    /\ At(c, "reserve")
    /\ capLock' = NoCall
    /\ IF FitsCap(c)
       THEN /\ reserved' = [reserved EXCEPT ![calls[c].day] = @ + PriceOf(c)]
            /\ Go(c, "validate")
       ELSE /\ calls' = [calls EXCEPT ![c].pc = "done", ![c].day = 0, ![c].reply = "capped"]
            /\ UNCHANGED reserved
    /\ UNCHANGED <<stored, external>>

-----------------------------------------------------------------------------
(* EvidencePrecomputeMiddleware and bind_payment *)

\* Kill switch, rate limit, size and schema; an unpaid request is not prepared.
Validate(c) ==
    /\ At(c, "validate")
    /\ \/ Go(c, IF Kind[Request(c)] = "prepared" /\ Payment(c) # NoPayment
                THEN "prepare" ELSE "verify")
       \/ Abort(c, "failed")
    /\ UNCHANGED <<capLock, reserved, stored, external>>

\* The prepare method reads the sources as they are, or raises EvidenceError.
Prepare(c) ==
    /\ At(c, "prepare")
    /\ \/ calls' = [calls EXCEPT ![c].pc = "bind", ![c].version = version]
       \/ Abort(c, "failed")
    /\ UNCHANGED <<capLock, reserved, stored, external>>

\* After bind_payment: a prepared route goes on to the payment middleware, any
\* other has its response.
AfterBind(c) == IF Kind[Request(c)] = "prepared" THEN "verify" ELSE "settle"
Refuse(c) == IF Kind[Request(c)] = "prepared" THEN Abort(c, "conflict")
             ELSE Respond(c, "conflict")

\* bind_payment reads both tables.  An intent for another request or a binding
\* to another request or result refuses the payment.
OtherIntent(c) == \E i \in intents : i[1] = Payment(c) /\ i[2] # Request(c)
Bound(c) == \E b \in bindings : b[1] = Payment(c)
OtherBinding(c) == Bound(c) /\ Proof(c) \notin bindings

CheckBinding(c) ==
    /\ At(c, "bind")
    /\ \/ (OtherIntent(c) \/ OtherBinding(c)) /\ Refuse(c)
       \/ ~OtherIntent(c) /\ ~OtherBinding(c) /\ Go(c, IF Bound(c) THEN AfterBind(c) ELSE "insert")
    /\ UNCHANGED <<capLock, reserved, stored, external>>

\* The INSERT, on the primary key payment_signature_hash: whoever comes second
\* gets an IntegrityError that nothing catches.
KeyFreeAlways(c) == TRUE                                                  \* mutant
KeyFree(c) == ~Bound(c)

InsertBinding(c) ==
    /\ At(c, "insert")
    /\ IF KeyFree(c)
       THEN bindings' = bindings \cup {Proof(c)} /\ Go(c, AfterBind(c))
       ELSE Abort(c, "error") /\ UNCHANGED bindings
    /\ UNCHANGED <<capLock, reserved, intents, ledger, fulfillments, external>>

-----------------------------------------------------------------------------
(* The x402 payment middleware and the handlers it protects *)

\* What the handler of a route begins with.
FirstOf(kind) == [prepared |-> "handle", procured |-> "intent", composed |-> "build"][kind]

\* No payment: the challenge.  Otherwise the facilitator verifies a payment that
\* was not taken yet, or refuses it or cannot be reached.
Verify(c) ==
    /\ At(c, "verify")
    /\ \/ Payment(c) = NoPayment /\ Respond(c, "quote")
       \/ /\ Payment(c) # NoPayment
          /\ \/ Respond(c, "unsettled")
             \/ /\ settled[Payment(c)] = NoRow
                /\ Go(c, FirstOf(Kind[Request(c)]))
    /\ UNCHANGED <<capLock, reserved, stored, external>>

\* The handler of a prepared route: the result, or an error status.
Handle(c) ==
    /\ At(c, "handle")
    /\ Go(c, "settle") \/ Respond(c, "failed")
    /\ UNCHANGED <<capLock, reserved, stored, external>>

\* bind_payment_request, before anything is bought.
Intended(c) == \E i \in intents : i[1] = Payment(c)
CheckIntent(c) ==
    LET other == \/ OtherIntent(c)
                 \/ ~Intended(c) /\ \E b \in bindings : b[1] = Payment(c) /\ b[2] # Request(c)
    IN
    /\ At(c, "intent")
    /\ \/ other /\ Respond(c, "conflict")
       \/ ~other /\ Go(c, IF Intended(c) \/ Bound(c) THEN "build" ELSE "intend")
    /\ UNCHANGED <<capLock, reserved, stored, external>>

InsertIntent(c) ==
    /\ At(c, "intend")
    /\ IF Intended(c) THEN Abort(c, "error") /\ UNCHANGED intents
       ELSE intents' = intents \cup {<<Payment(c), Request(c)>>} /\ Go(c, "build")
    /\ UNCHANGED <<capLock, reserved, bindings, ledger, fulfillments, external>>

\* The broker (module ProcurementBroker) or the dossier (FundingDossier): one
\* result per payment, or an error.  Which of the two is left open here.
Build(c) ==
    /\ At(c, "build")
    /\ Go(c, "bind") \/ Respond(c, "failed")
    /\ UNCHANGED <<capLock, reserved, stored, external>>

\* Settlement of a response below 400: the payment is taken at most once, and
\* the middleware may learn of a failure although it was taken.
Taken(c) == settled' = [settled EXCEPT ![Payment(c)] = [price |-> PriceOf(c), day |-> day]]

Settle(c) ==
    /\ At(c, "settle")
    /\ \/ settled[Payment(c)] = NoRow /\ Taken(c) /\ Respond(c, "fulfilled")
       \/ settled[Payment(c)] = NoRow /\ Taken(c) /\ Respond(c, "unsettled")
       \/ Respond(c, "unsettled") /\ UNCHANGED settled
    /\ UNCHANGED <<capLock, reserved, stored, version, day, restarts>>

-----------------------------------------------------------------------------
(* On the way back: the ledger, then the reservation *)

\* response_status of an answer.
CountsPaid(c) == Payment(c) # NoPayment                                   \* mutant
Counts(c) == calls[c].reply = "fulfilled"

\* record_attempt: one transaction writes the attempt and, if it is FULFILLED,
\* the fulfilment.
Record(c) ==
    /\ At(c, "record")
    /\ IF Counts(c)
       THEN /\ ledger' = [ledger EXCEPT ![c] = [price |-> PriceOf(c), day |-> day]]
            /\ fulfillments' = fulfillments \cup {Proof(c)}
       ELSE UNCHANGED <<ledger, fulfillments>>
    /\ Go(c, "release")
    /\ UNCHANGED <<capLock, reserved, intents, bindings, external>>

\* It fails: the response only gains the header X-Evidence-Ledger: write-failed.
RecordFails(c) ==
    /\ At(c, "record")
    /\ Go(c, "release")
    /\ UNCHANGED <<capLock, reserved, stored, external>>

\* The finally clause, under the lock again.
ReleaseToday(c) == day                                                    \* mutant
ReleaseDay(c) == calls[c].day

Release(c) ==
    /\ At(c, "release") /\ LockFree
    /\ reserved' = [reserved EXCEPT ![ReleaseDay(c)] = IF @ > PriceOf(c) THEN @ - PriceOf(c) ELSE 0]
    /\ Go(c, "done")
    /\ UNCHANGED <<capLock, stored, external>>

-----------------------------------------------------------------------------
(* The environment *)

Midnight ==
    /\ day < MaxDay
    /\ day' = day + 1
    /\ UNCHANGED <<calls, capLock, reserved, stored, settled, version, restarts>>

\* The sources of the prepared routes change (a page, a list, the minute).
Change ==
    /\ version < MaxVersion
    /\ version' = version + 1
    /\ UNCHANGED <<calls, capLock, reserved, stored, settled, day, restarts>>

\* The process restarts: requests, lock and reservations are gone.  A payment
\* already handed to the facilitator may still be taken.
Restart ==
    /\ restarts < MaxRestarts
    /\ restarts' = restarts + 1
    /\ \/ UNCHANGED settled
       \/ \E c \in Calls : At(c, "settle") /\ settled[Payment(c)] = NoRow /\ Taken(c)
    /\ calls' = [c \in Calls |->
           IF calls[c].pc \in {"idle", "done"} THEN calls[c]
           ELSE [calls[c] EXCEPT !.pc = "done", !.reply = "lost"]]
    /\ capLock' = NoCall
    /\ reserved' = [d \in Days |-> 0]
    /\ UNCHANGED <<stored, version, day>>

Step(c) ==
    \/ ReadRevenue(c) \/ ReserveRevenue(c)
    \/ Validate(c) \/ Prepare(c) \/ CheckBinding(c) \/ InsertBinding(c)
    \/ Verify(c) \/ Handle(c) \/ CheckIntent(c) \/ InsertIntent(c) \/ Build(c) \/ Settle(c)
    \/ Record(c) \/ RecordFails(c) \/ Release(c)

Next ==
    \/ \E c \in Calls, p \in Payments \cup {NoPayment}, r \in Requests : Arrive(c, p, r)
    \/ \E c \in Calls : Step(c)
    \/ Midnight \/ Change \/ Restart

Spec == Init /\ [][Next]_vars

-----------------------------------------------------------------------------
(* Properties *)

Call == [pc : {"cap", "reserve", "validate", "prepare", "bind", "insert", "verify", "handle", "intent",
               "intend", "build", "settle", "record", "release", "done"},
         payment : Payments \cup {NoPayment}, request : Requests,
         version : 0..MaxVersion, day : 0..MaxDay, fulfilled : Nat,
         reply : {"none", "capped", "failed", "conflict", "error", "quote", "unsettled",
                  "fulfilled", "lost"}]

\* The calls that hold a reservation, and those that reserved under day d.
Holding(d) == {c \in Calls : calls[c].pc \notin {"idle", "cap", "reserve", "done"}
                             /\ calls[c].day = d}
Booked(d) == {c \in Calls : calls[c].pc # "idle" /\ calls[c].day = d /\ ledger[c].day = d}
CallPrices == [c \in Calls |-> IF calls[c] = Idle THEN 0 ELSE PriceOf(c)]
LedgerPrices == [c \in Calls |-> ledger[c].price]

\* Types; the lock is held by the call that is deciding on a reservation, and
\* no unpaid call gets past the challenge.
TypeOK ==
    /\ calls \in [Calls -> {Idle} \cup Call]
    /\ capLock \in Calls \cup {NoCall}
    /\ \A c \in Calls : (capLock = c) <=> At(c, "reserve")
    /\ \A c \in Calls : calls[c].pc \notin {"idle", "cap", "reserve", "done"} => calls[c].day \in Days
    /\ \A c \in Calls : calls[c].pc \in {"prepare", "bind", "insert", "handle", "intent",
                                         "intend", "build", "settle"} => Payment(c) # NoPayment
    /\ reserved \in [Days -> Nat]
    /\ intents \subseteq Payments \X Requests
    /\ bindings \subseteq Payments \X Requests \X (0..MaxVersion)
    /\ ledger \in [Calls -> [price : Nat, day : 0..MaxDay]]
    /\ fulfillments \subseteq Payments \X Requests \X (0..MaxVersion)
    /\ settled \in [Payments -> [price : Nat, day : 0..MaxDay]]
    /\ version \in 1..MaxVersion /\ day \in Days /\ restarts \in 0..MaxRestarts

\* No reservation leaks and none is given back twice: what is reserved under a
\* day is exactly the prices of the requests in flight that reserved under it.
ReservationsBalanced ==
    \A d \in Days : reserved[d] = Total(CallPrices, Holding(d))

\* What was reserved and recorded on one and the same day, together with what is
\* still reserved, stays within the cap, whatever requests interleave.
SameDayCap ==
    \A d \in Days : Total(LedgerPrices, Booked(d) \ Holding(d)) + reserved[d] <= DailyCap

\* The revenue the cap is checked against is never more than was really taken:
\* every row of the ledger stands for a payment of its own.
LedgerIsEarned ==
    Total(LedgerPrices, Calls) <= Total([p \in Payments |-> settled[p].price], Payments)

\* One payment, one result: the pipeline implements PaidService.  A payment is
\* bound to one request and one version of its answer before it is taken, the
\* binding never changes, and the replay route gives what was bound for a payment
\* that was taken; neither racing requests nor later retries obtain anything else.
Service == INSTANCE PaidService WITH
    Versions <- 0..MaxVersion, bound <- bindings,
    taken <- {p \in Payments : settled[p] # NoRow}, kept <- fulfillments
ImplementsService == Service!Spec

\* README.md (repository): "The production service has a hard $10.00
\* accepted-revenue cap per UTC day."  The revenue the service's own ledger
\* accepted on a day stays within the cap.
AcceptedRevenueCapped ==
    \A d \in Days : Total(LedgerPrices, {c \in Calls : ledger[c].day = d}) <= DailyCap

=============================================================================
