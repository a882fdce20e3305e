----------------------------- MODULE McpService ------------------------------
(***************************************************************************)
(* mcp_service.py: a customer of the MCP server with one payment for one   *)
(* product and one set of arguments.  submit_x402_payment asks the replay  *)
(* route first and otherwise posts to the paid route, over HTTP, with a    *)
(* timeout: the paid request goes on when nobody waits for it any more,    *)
(* and the customer may call the tool again meanwhile.  The paid route is  *)
(* the one of PaidRequests, seen through its promise, PaidService.         *)
(***************************************************************************)
EXTENDS Integers

CONSTANTS
    Calls,         \* calls of submit_x402_payment that may overlap
    MaxVersion,    \* bound: versions of the sources the answer is prepared from
    MaxFailures    \* bound: failures of the network, the facilitator, a database

Versions == 1..MaxVersion
NoId == -1
Quoted == 0        \* the id of the placeholder result of an unpaid request
Ids == {NoId, Quoted} \cup Versions

ASSUME ConstantsAssumption ==
    /\ MaxVersion \in Nat \ {0} /\ MaxFailures \in Nat

VARIABLES
    tools,       \* local variables of every call of the tool
    posts,       \* the paid request a call has made
    told,        \* the request_id the customer knows
    answers,     \* history: the versions of the result the customer was given
    bound,       \* the state of PaidService
    taken,
    kept,
    version,     \* external: the sources' current version
    failures

service == <<bound, taken, kept>>
vars == <<tools, posts, told, answers, bound, taken, kept, version, failures>>

Service == INSTANCE PaidService WITH Payments <- {"payment"}, Requests <- {"arguments"}

NoTool == [pc |-> "idle"]
NoPost == [pc |-> "none"]

Init ==
    /\ tools = [c \in Calls |-> NoTool]
    /\ posts = [c \in Calls |-> NoPost]
    /\ told = NoId /\ answers = {}
    /\ Service!Init
    /\ version = 1 /\ failures = 0

-----------------------------------------------------------------------------
(* Helpers *)

At(c, pc) == tools[c].pc = pc
Posted(c, pc) == posts[c].pc = pc
Answer(v) == <<"payment", "arguments", v>>

Failing == failures < MaxFailures /\ failures' = failures + 1
Succeeding == failures' = failures

\* The paid request has its response: what it is, and the id in its header.
Respond(c, reply, id) ==
    posts' = [posts EXCEPT ![c] = [@ EXCEPT !.pc = "answered", !.reply = reply, !.id = id]]

-----------------------------------------------------------------------------
(* The customer and the tool *)

\* _prepare_payment: an unpaid request; its request_id is the placeholder's.
Ask ==
    /\ told = NoId
    /\ told' = Quoted
    /\ UNCHANGED <<tools, posts, answers, service, version, failures>>

\* The paid request is sent.
Send(c) ==
    /\ tools' = [tools EXCEPT ![c].pc = "wait"]
    /\ posts' = [posts EXCEPT ![c] = [pc |-> "prepare", version |-> 0, reply |-> "none", id |-> NoId]]

\* submit_x402_payment, again and again, with the request_id known by now.
Submit(c) ==
    /\ At(c, "idle") /\ Posted(c, "none")
    /\ tools' = [tools EXCEPT ![c] = [pc |-> "begin", id |-> told, given |-> NoId]]
    /\ UNCHANGED <<posts, told, answers, service, version, failures>>

\* Whether there is a request_id to replay.
AsksFirst(c) == tools[c].id # NoId

\* GET /v1/evidence/replay: what is kept for this payment under this id.  Without a
\* 200, because nothing is kept or because of a 429 or a 5xx, the tool posts.
ReplayHit(id) == Answer(id) \in kept
Replay(c) ==
    /\ At(c, "begin")
    /\ \/ /\ AsksFirst(c) /\ ReplayHit(tools[c].id) /\ Succeeding
          /\ tools' = [tools EXCEPT ![c] = [pc |-> "note", id |-> @.id, given |-> @.id]]
          /\ UNCHANGED posts
       \/ /\ AsksFirst(c) /\ ReplayHit(tools[c].id) /\ Failing
          /\ Send(c)
       \/ /\ AsksFirst(c) => ~ReplayHit(tools[c].id)
          /\ Succeeding /\ Send(c)
    /\ UNCHANGED <<told, answers, service, version>>

\* No answer to the GET within 30 seconds, or to the POST within 90: the tool
\* raises, and the paid request goes on.
TimeOut(c) ==
    /\ At(c, "wait") \/ (At(c, "begin") /\ AsksFirst(c))
    /\ Failing
    /\ tools' = [tools EXCEPT ![c] = NoTool]
    /\ UNCHANGED <<posts, told, answers, service, version>>

\* The tool reads the response.  Below 400 the body is the result.
AnyReply(c) == posts[c].reply # "refused"                                 \* mutant
Below400(c) == posts[c].reply = "fulfilled"

KnownId(c) == tools[c].id                                                 \* mutant
IdOf(c) == IF posts[c].id # NoId THEN posts[c].id ELSE tools[c].id

Receive(c) ==
    /\ At(c, "wait") /\ Posted(c, "answered")
    /\ tools' = [tools EXCEPT ![c] =
           [pc |-> "note", id |-> IdOf(c),
            given |-> IF Below400(c) THEN posts[c].id ELSE NoId]]
    /\ posts' = [posts EXCEPT ![c] = NoPost]
    /\ UNCHANGED <<told, answers, service, version, failures>>

\* Nobody waits for the response any more.
AbandonedOrNot(c) == At(c, "idle") \/ At(c, "wait")                        \* mutant
Abandoned(c) == At(c, "idle")

Discard(c) ==
    /\ Abandoned(c) /\ Posted(c, "answered")
    /\ posts' = [posts EXCEPT ![c] = NoPost]
    /\ UNCHANGED <<tools, told, answers, service, version, failures>>

\* record_event, and the tool returns.  The customer keeps the id of a result, even
\* if an earlier call returns the placeholder's after it.
Return(c) ==
    /\ At(c, "note")
    /\ told' = IF told \in Versions THEN told ELSE tools[c].id
    /\ answers' = answers \cup ({tools[c].given} \ {NoId})
    /\ tools' = [tools EXCEPT ![c] = NoTool]
    /\ UNCHANGED <<posts, service, version, failures>>

\* record_event fails, and with it the tool, whatever the response was.
EventFails(c) ==
    /\ At(c, "note") /\ Failing
    /\ tools' = [tools EXCEPT ![c] = NoTool]
    /\ UNCHANGED <<posts, told, answers, service, version>>

-----------------------------------------------------------------------------
(* The paid request, in another task of the server *)

\* Rate limit, schema and sources: an error response without the id header.
Prepare(c) ==
    /\ Posted(c, "prepare")
    /\ \/ Succeeding /\ posts' = [posts EXCEPT ![c] = [@ EXCEPT !.pc = "bind", !.version = version]]
       \/ Failing /\ Respond(c, "refused", NoId)
    /\ UNCHANGED <<tools, told, answers, service, version>>

\* bind_payment: 409 without the id header if the payment stands for something else.
Bind(c) ==
    LET v == posts[c].version IN
    /\ Posted(c, "bind")
    /\ \/ /\ Service!Bind("payment", "arguments", v)
          /\ posts' = [posts EXCEPT ![c].pc = "verify"]
       \/ /\ Answer(v) \in bound
          /\ posts' = [posts EXCEPT ![c].pc = "verify"]
          /\ UNCHANGED service
       \/ /\ bound \ {Answer(v)} # {}
          /\ Respond(c, "refused", NoId)
          /\ UNCHANGED service
    /\ UNCHANGED <<tools, told, answers, version, failures>>

\* A payment that was taken is refused with 402; so is one that the facilitator
\* does not accept, or cannot be asked about.  From here on the header is set.
Verify(c) ==
    /\ Posted(c, "verify")
    /\ \/ taken = {} /\ Succeeding /\ posts' = [posts EXCEPT ![c].pc = "settle"]
       \/ taken # {} /\ Succeeding /\ Respond(c, "unsettled", posts[c].version)
       \/ Failing /\ Respond(c, "unsettled", posts[c].version)
    /\ UNCHANGED <<tools, told, answers, service, version>>

\* The handler, and settlement: taken, taken without the answer arriving, or not.
Settle(c) ==
    /\ Posted(c, "settle")
    /\ \/ Service!Take("payment") /\ Succeeding /\ posts' = [posts EXCEPT ![c].pc = "record"]
       \/ Service!Take("payment") /\ Failing /\ Respond(c, "unsettled", posts[c].version)
       \/ UNCHANGED service /\ taken # {} /\ Succeeding
          /\ Respond(c, "unsettled", posts[c].version)
       \/ UNCHANGED service /\ Failing /\ Respond(c, "unsettled", posts[c].version)
    /\ UNCHANGED <<tools, told, answers, version>>

\* record_attempt, which keeps the result for replay, or fails.
Record(c) ==
    /\ Posted(c, "record")
    /\ Respond(c, "fulfilled", posts[c].version)
    /\ \/ Service!Keep("payment", "arguments", posts[c].version) /\ Succeeding
       \/ UNCHANGED service /\ Failing
    /\ UNCHANGED <<tools, told, answers, version>>

\* The sources change.
Change ==
    /\ version < MaxVersion
    /\ version' = version + 1
    /\ UNCHANGED <<tools, posts, told, answers, service, failures>>

-----------------------------------------------------------------------------
\* The process restarts: the tools and the paid requests, which run in it, are gone;
\* a payment already with the facilitator may still be taken.
Restart ==
    /\ Failing
    /\ \/ UNCHANGED service
       \/ \E c \in Calls : Posted(c, "settle") /\ Service!Take("payment")
    /\ tools' = [c \in Calls |-> NoTool]
    /\ posts' = [c \in Calls |-> NoPost]
    /\ UNCHANGED <<told, answers, version>>

Step(c) ==
    \/ Submit(c) \/ Replay(c) \/ Receive(c) \/ Discard(c) \/ Return(c)
    \/ Prepare(c) \/ Bind(c) \/ Verify(c) \/ Settle(c) \/ Record(c)

Next ==
    \/ Ask \/ Change \/ Restart
    \/ \E c \in Calls : Step(c) \/ TimeOut(c) \/ EventFails(c)

Spec == Init /\ [][Next]_vars

\* The customer goes on calling, and the server's tasks go on.
FairSpec == Spec /\ WF_vars(Ask) /\ \A c \in Calls : WF_vars(Step(c))

-----------------------------------------------------------------------------
(* Properties *)

\* Types; a tool that waits for a response has a paid request under way.
TypeOK ==
    /\ tools \in [Calls -> {NoTool} \cup
           [pc : {"begin", "wait", "note"}, id : Ids, given : {NoId} \cup Versions]]
    /\ posts \in [Calls -> {NoPost} \cup
           [pc : {"prepare", "bind", "verify", "settle", "record", "answered"},
            version : {0} \cup Versions, id : {NoId} \cup Versions,
            reply : {"none", "refused", "unsettled", "fulfilled"}]]
    /\ \A c \in Calls : At(c, "wait") => posts[c] # NoPost
    /\ told \in Ids /\ answers \subseteq Versions
    /\ version \in Versions /\ failures \in 0..MaxFailures

\* What the customer is given, by whichever call and whether posted or replayed,
\* is the one answer the payment stands for, and the payment was taken; and the
\* id the customer is told is the id of that answer, before it is given too.
AnswersAgree ==
    /\ answers # {} => taken = {"payment"} /\ bound = {Answer(v) : v \in answers}
    /\ told \in Versions => bound = {Answer(told)}

\* The money is gone and nothing is kept for it: the facilitator's answer or the
\* ledger's transaction was lost.
Lost == taken # {} /\ kept = {} /\ \A c \in Calls : ~Posted(c, "record")

\* The payment stands for a version that can no longer be prepared, and the
\* customer has not learnt its id.
Stranded == \E v \in Versions : Answer(v) \in bound /\ version # v /\ told # v

\* A customer who has paid and goes on calling the tool, with the same payment and
\* the request_id it returns, gets the result in the end, although answers are lost,
\* events fail and calls overlap, unless one of the two cases lasts; and with the
\* id of a result that is kept, in any case.
Recovered ==
    /\ (taken # {}) ~> (answers # {} \/ [](Lost \/ Stranded))
    /\ \A v \in Versions : (Answer(v) \in kept /\ told = v) ~> (answers # {})

=============================================================================
