--------------------------- MODULE McpService_proofs ---------------------------
(***************************************************************************)
(* submit_x402_payment gives one answer for one payment, for any number of *)
(* overlapping calls, versions of the sources and failures.                *)
(***************************************************************************)
EXTENDS McpService, TLAPS

Tool == [pc : {"begin", "wait", "note"}, id : Ids, given : {NoId} \cup Versions]
Post == [pc : {"prepare", "bind", "verify", "settle", "record", "answered"},
         version : {0} \cup Versions, id : {NoId} \cup Versions,
         reply : {"none", "refused", "unsettled", "fulfilled"}]

IsBound(v) == Answer(v) \in bound
Paid == taken = {"payment"}

\* An id that goes from hand to hand is the id of what the payment stands for, and
\* a result is only handed on after the money was taken.
ToolSafe(tool) ==
    /\ tool.id \in Versions => IsBound(tool.id)
    /\ tool.given \in Versions => IsBound(tool.given) /\ Paid
PostSafe(post) ==
    /\ post.pc \in {"bind", "verify", "settle", "record"} => post.version \in Versions
    /\ post.pc \in {"verify", "settle", "record"} => IsBound(post.version)
    /\ post.pc = "record" => Paid
    /\ post.id \in Versions => IsBound(post.id)
    /\ post.reply = "fulfilled" => post.id \in Versions /\ Paid

\* One payment is bound once, and kept only as bound and when taken.
ServiceSound ==
    /\ \A b \in bound : \E v \in Versions : b = Answer(v)
    /\ \A a, b \in bound : a = b
    /\ taken \subseteq {"payment"}
    /\ kept \subseteq bound /\ (kept # {} => Paid)

IInv ==
    /\ TypeOK /\ ServiceSound
    /\ \A c \in Calls : tools[c] # NoTool => ToolSafe(tools[c])
    /\ \A c \in Calls : posts[c] # NoPost => PostSafe(posts[c])
    /\ told \in Versions => IsBound(told)
    /\ \A v \in answers : IsBound(v) /\ Paid

-----------------------------------------------------------------------------
(* Types and answers *)

LEMMA Types ==
    ASSUME IInv
    PROVE  /\ \A c \in Calls : tools[c].pc # "idle" => tools[c] \in Tool /\ ToolSafe(tools[c])
           /\ \A c \in Calls : posts[c].pc # "none" => posts[c] \in Post /\ PostSafe(posts[c])
           /\ NoId \notin Versions /\ Quoted \notin Versions /\ 0 \notin Versions
  <1>1. NoId \notin Versions /\ Quoted \notin Versions
    BY DEF NoId, Quoted, Versions
  <1>2. ASSUME NEW c \in Calls, tools[c].pc # "idle" PROVE tools[c] \in Tool /\ ToolSafe(tools[c])
    BY <1>2 DEF IInv, TypeOK, Tool, NoTool
  <1>3. ASSUME NEW c \in Calls, posts[c].pc # "none" PROVE posts[c] \in Post /\ PostSafe(posts[c])
    BY <1>3 DEF IInv, TypeOK, Post, NoPost
  <1> QED
    BY <1>1, <1>2, <1>3 DEF Quoted

\* A step that changes the tool and the post of at most one call.
LEMMA Keeps ==
    ASSUME IInv, ServiceSound', bound \subseteq bound', Paid => Paid',
           NEW c \in Calls, NEW tool \in {NoTool, tools[c]} \cup Tool,
           NEW post \in {NoPost, posts[c]} \cup Post,
           tools' = [tools EXCEPT ![c] = tool], posts' = [posts EXCEPT ![c] = post],
           tool = NoTool \/ tool = tools[c] \/ ToolSafe(tool)',
           post = NoPost \/ post = posts[c] \/ PostSafe(post)',
           tool.pc = "wait" => post # NoPost,
           told' \in Ids, told' \in Versions => IsBound(told'),
           answers' \subseteq Versions, \A v \in answers' : IsBound(v) /\ Paid,
           version' \in Versions, failures' \in 0..MaxFailures
    PROVE  IInv'
  <1> USE DEF Tool, Post
  <1>1. /\ tools \in [Calls -> {NoTool} \cup Tool] /\ posts \in [Calls -> {NoPost} \cup Post]
        /\ \A d \in Calls : tools[d].pc = "wait" => posts[d] # NoPost
    BY DEF IInv, TypeOK, At
  <1>2. /\ tool \in {NoTool} \cup Tool /\ post \in {NoPost} \cup Post
        /\ tools'[c] = tool /\ posts'[c] = post
        /\ \A d \in Calls \ {c} : tools'[d] = tools[d] /\ posts'[d] = posts[d]
    BY <1>1
  <1>3. TypeOK'
    BY <1>1, <1>2 DEF TypeOK, At
  <1>4. ASSUME NEW d \in Calls, tools'[d] # NoTool PROVE ToolSafe(tools[d])'
    BY <1>1, <1>2, <1>4 DEF IInv, ToolSafe, IsBound
  <1>5. ASSUME NEW d \in Calls, posts'[d] # NoPost PROVE PostSafe(posts[d])'
    BY <1>1, <1>2, <1>5 DEF IInv, PostSafe, IsBound
  <1>6. (told' \in Versions => IsBound(told)') /\ \A v \in answers' : IsBound(v)' /\ Paid'
    BY DEF IsBound
  <1> QED
    BY <1>3, <1>4, <1>5, <1>6 DEF IInv

LEMMA Rest ==
    ASSUME IInv
    PROVE  /\ told \in Ids /\ (told \in Versions => IsBound(told))
           /\ answers \subseteq Versions /\ \A v \in answers : IsBound(v) /\ Paid
           /\ version \in Versions /\ failures \in 0..MaxFailures
           /\ \A c \in Calls : /\ tools = [tools EXCEPT ![c] = tools[c]]
                               /\ posts = [posts EXCEPT ![c] = posts[c]]
                               /\ tools[c].pc = "wait" => posts[c] # NoPost
  BY DEF IInv, TypeOK, At

\* The bounded counter of failures.
LEMMA Counted ==
    ASSUME IInv, Failing \/ Succeeding
    PROVE  failures' \in 0..MaxFailures
  BY ConstantsAssumption, Rest DEF Failing, Succeeding

\* The service goes on as PaidService does.
LEMMA ServiceKeeps ==
    ASSUME IInv, NEW v,
           \/ v \in Versions /\ Service!Bind("payment", "arguments", v)
           \/ Service!Take("payment")
           \/ Service!Keep("payment", "arguments", v) \/ UNCHANGED service
    PROVE  ServiceSound' /\ bound \subseteq bound' /\ (Paid => Paid')
  <1> USE DEF ServiceSound, Paid, Answer
  <1>1. ServiceSound
    BY DEF IInv
  <1>2. CASE v \in Versions /\ Service!Bind("payment", "arguments", v)
    <2>1. bound = {}
      BY <1>1, <1>2 DEF Service!Bind
    <2> QED
      BY <1>1, <1>2, <2>1 DEF Service!Bind
  <1>3. CASE Service!Take("payment")
    BY <1>1, <1>3 DEF Service!Take
  <1>4. CASE Service!Keep("payment", "arguments", v)
    BY <1>1, <1>4 DEF Service!Keep
  <1>5. CASE UNCHANGED service
    BY <1>1, <1>5 DEF service
  <1> QED
    BY <1>2, <1>3, <1>4, <1>5

-----------------------------------------------------------------------------
(* The customer and the tool *)

LEMMA SubmitKeeps ==
    ASSUME IInv, NEW c \in Calls, Submit(c)
    PROVE  IInv'
  <1>1. PICK tool : tool = [pc |-> "begin", id |-> told, given |-> NoId]
    OBVIOUS
  <1>2. ServiceSound' /\ bound \subseteq bound' /\ (Paid => Paid')
    BY ServiceKeeps DEF Submit
  <1>3. tool \in Tool /\ ToolSafe(tool)' /\ tool.pc # "wait"
    BY <1>1, <1>2, Rest, Types DEF Tool, ToolSafe, IsBound
  <1>4. tools' = [tools EXCEPT ![c] = tool] /\ posts' = [posts EXCEPT ![c] = posts[c]]
    BY <1>1, Rest DEF Submit
  <1>5. UNCHANGED <<told, answers, version, failures>>
    BY DEF Submit
  <1> QED
    BY <1>2, <1>3, <1>4, <1>5, Rest, Keeps

\* The GET finds the result under the id it asked for, which is kept, hence bound
\* and paid; or the POST is sent.
LEMMA ReplayKeeps ==
    ASSUME IInv, NEW c \in Calls, Replay(c)
    PROVE  IInv'
  <1>1. PICK old : old = tools[c]
    OBVIOUS
  <1>2. ServiceSound' /\ bound \subseteq bound' /\ (Paid => Paid')
    BY ServiceKeeps DEF Replay
  <1>3. old \in Tool /\ ToolSafe(old)
    BY <1>1, Types DEF Replay, At
  <1>6. failures' \in 0..MaxFailures
    BY Counted DEF Replay
  <1>4. CASE AsksFirst(c) /\ ReplayHit(tools[c].id) /\ UNCHANGED posts
             /\ tools' = [tools EXCEPT ![c] = [pc |-> "note", id |-> @.id, given |-> @.id]]
    <2>1. PICK tool : tool = [pc |-> "note", id |-> old.id, given |-> old.id]
      OBVIOUS
    <2>2. IsBound(old.id) /\ Paid /\ old.id \in Versions
      BY <1>1, <1>4 DEF ReplayHit, IsBound, IInv, ServiceSound, Answer
    <2>3. tool \in Tool /\ ToolSafe(tool)' /\ tool.pc # "wait"
      BY <1>2, <1>3, <2>1, <2>2 DEF Tool, ToolSafe, IsBound, Ids
    <2>4. tools' = [tools EXCEPT ![c] = tool] /\ posts' = [posts EXCEPT ![c] = posts[c]]
      BY <1>1, <1>4, <2>1, Rest
    <2> QED
      BY <1>2, <1>6, <2>3, <2>4, Rest, Keeps DEF Replay
  <1>5. CASE Send(c)
    <2>1. PICK tool : tool = [old EXCEPT !.pc = "wait"]
      OBVIOUS
    <2>2. PICK post : post = [pc |-> "prepare", version |-> 0, reply |-> "none", id |-> NoId]
      OBVIOUS
    <2>3. tool \in Tool /\ ToolSafe(tool)'
      BY <1>2, <1>3, <2>1 DEF Tool, ToolSafe, IsBound
    <2>4. post \in Post /\ PostSafe(post)' /\ post # NoPost
      BY <2>2, Types DEF Post, PostSafe, NoPost
    <2>5. tools' = [tools EXCEPT ![c] = tool] /\ posts' = [posts EXCEPT ![c] = post]
      BY <1>1, <1>5, <2>1, <2>2 DEF Send
    <2> QED
      BY <1>2, <1>6, <2>3, <2>4, <2>5, Rest, Keeps DEF Replay
  <1> QED
    BY <1>4, <1>5 DEF Replay

\* The tool gives up, before or after the response.
LEMMA GiveUpKeeps ==
    ASSUME IInv, NEW c \in Calls, TimeOut(c) \/ EventFails(c)
    PROVE  IInv'
  <1>1. ServiceSound' /\ bound \subseteq bound' /\ (Paid => Paid')
    BY ServiceKeeps DEF TimeOut, EventFails
  <1>2. tools' = [tools EXCEPT ![c] = NoTool] /\ posts' = [posts EXCEPT ![c] = posts[c]]
    BY Rest DEF TimeOut, EventFails
  <1>3. failures' \in 0..MaxFailures /\ NoTool.pc # "wait"
    BY Counted DEF TimeOut, EventFails, NoTool
  <1> QED
    BY <1>1, <1>2, <1>3, Rest, Keeps DEF TimeOut, EventFails

\* What the response says, the tool may say: a result only below 400.
LEMMA ReceiveKeeps ==
    ASSUME IInv, NEW c \in Calls, Receive(c)
    PROVE  IInv'
  <1>1. PICK old, answer : old = tools[c] /\ answer = posts[c]
    OBVIOUS
  <1>2. ServiceSound' /\ bound \subseteq bound' /\ (Paid => Paid')
    BY ServiceKeeps DEF Receive
  <1>3. old \in Tool /\ ToolSafe(old) /\ answer \in Post /\ PostSafe(answer)
    BY <1>1, Types DEF Receive, At, Posted
  <1>4. PICK tool :
          tool = [pc |-> "note", id |-> IF answer.id # NoId THEN answer.id ELSE old.id,
                  given |-> IF answer.reply = "fulfilled" THEN answer.id ELSE NoId]
    OBVIOUS
  <1>5. tool \in Tool /\ ToolSafe(tool)' /\ tool.pc # "wait"
    BY <1>2, <1>3, <1>4, Types DEF Tool, Post, ToolSafe, PostSafe, IsBound, Ids
  <1>6. tools' = [tools EXCEPT ![c] = tool] /\ posts' = [posts EXCEPT ![c] = NoPost]
    BY <1>1, <1>4 DEF Receive, IdOf, Below400
  <1>7. UNCHANGED <<told, answers, version, failures>>
    BY DEF Receive
  <1> QED
    BY <1>2, <1>5, <1>6, <1>7, Rest, Keeps

LEMMA DiscardKeeps ==
    ASSUME IInv, NEW c \in Calls, Discard(c)
    PROVE  IInv'
  <1>1. ServiceSound' /\ bound \subseteq bound' /\ (Paid => Paid')
    BY ServiceKeeps DEF Discard
  <1>2. tools' = [tools EXCEPT ![c] = tools[c]] /\ posts' = [posts EXCEPT ![c] = NoPost]
    BY Rest DEF Discard
  <1>3. tools[c].pc # "wait"
    BY DEF Discard, Abandoned, At
  <1>4. UNCHANGED <<told, answers, version, failures>>
    BY DEF Discard
  <1> QED
    BY <1>1, <1>2, <1>3, <1>4, Rest, Keeps

LEMMA ReturnKeeps ==
    ASSUME IInv, NEW c \in Calls, Return(c)
    PROVE  IInv'
  <1>1. PICK old : old = tools[c]
    OBVIOUS
  <1>2. ServiceSound' /\ bound \subseteq bound' /\ (Paid => Paid')
    BY ServiceKeeps DEF Return
  <1>3. old \in Tool /\ ToolSafe(old)
    BY <1>1, Types DEF Return, At
  <1>4. told' \in Ids /\ (told' \in Versions => IsBound(told'))
    BY <1>1, <1>3, Rest DEF Return, Tool, ToolSafe
  <1>5. answers' \subseteq Versions /\ \A v \in answers' : IsBound(v) /\ Paid
    BY <1>1, <1>3, Rest DEF Return, Tool, ToolSafe
  <1>6. tools' = [tools EXCEPT ![c] = NoTool] /\ posts' = [posts EXCEPT ![c] = posts[c]]
    BY Rest DEF Return
  <1> QED
    BY <1>2, <1>4, <1>5, <1>6, Rest, Keeps DEF Return, NoTool

-----------------------------------------------------------------------------
(* The paid request *)

\* A step of the paid request that leaves the tools and the customer alone.
LEMMA PostKeeps ==
    ASSUME IInv, ServiceSound', bound \subseteq bound', Paid => Paid',
           NEW c \in Calls, NEW post \in Post, PostSafe(post)', Failing \/ Succeeding,
           posts' = [posts EXCEPT ![c] = post],
           UNCHANGED <<tools, told, answers, version>>
    PROVE  IInv'
  <1>1. tools' = [tools EXCEPT ![c] = tools[c]] /\ post # NoPost
    BY Rest DEF Post, NoPost
  <1>2. failures' \in 0..MaxFailures
    BY Counted
  <1> QED
    BY <1>1, <1>2, Rest, Keeps

\* The response to a request whose binding is known, or that never got there.
LEMMA RespondKeeps ==
    ASSUME IInv, ServiceSound', bound \subseteq bound', Paid => Paid',
           NEW c \in Calls, posts[c].pc # "none", Failing \/ Succeeding,
           NEW reply \in {"refused", "unsettled", "fulfilled"},
           NEW id \in {NoId} \cup Versions, id \in Versions => IsBound(id)',
           reply = "fulfilled" => id \in Versions /\ Paid',
           Respond(c, reply, id), UNCHANGED <<tools, told, answers, version>>
    PROVE  IInv'
  <1>1. PICK old : old = posts[c]
    OBVIOUS
  <1>2. old \in Post
    BY <1>1, Types
  <1>3. PICK post : post = [old EXCEPT !.pc = "answered", !.reply = reply, !.id = id]
    OBVIOUS
  <1>4. post \in Post /\ PostSafe(post)'
    BY <1>2, <1>3 DEF Post, PostSafe, IsBound, Paid
  <1>5. posts' = [posts EXCEPT ![c] = post]
    BY <1>1, <1>3 DEF Respond
  <1> QED
    BY <1>4, <1>5, PostKeeps

LEMMA PrepareKeeps ==
    ASSUME IInv, NEW c \in Calls, Prepare(c)
    PROVE  IInv'
  <1>1. ServiceSound' /\ bound \subseteq bound' /\ (Paid => Paid')
    BY ServiceKeeps DEF Prepare
  <1>2. CASE Succeeding /\ posts' = [posts EXCEPT ![c] = [@ EXCEPT !.pc = "bind", !.version = version]]
    <2>1. PICK old : old = posts[c]
      OBVIOUS
    <2>2. PICK post : post = [old EXCEPT !.pc = "bind", !.version = version]
      OBVIOUS
    <2>3. old \in Post /\ PostSafe(old)
      BY <2>1, Types DEF Prepare, Posted
    <2>4. post \in Post /\ PostSafe(post)'
      BY <1>1, <2>2, <2>3, Rest DEF Post, PostSafe, IsBound
    <2>5. posts' = [posts EXCEPT ![c] = post]
      BY <1>2, <2>1, <2>2
    <2> QED
      BY <1>1, <1>2, <2>4, <2>5, PostKeeps DEF Prepare
  <1>3. CASE Failing /\ Respond(c, "refused", NoId)
    BY <1>1, <1>3, Types, RespondKeeps DEF Prepare, Posted
  <1> QED
    BY <1>2, <1>3 DEF Prepare

\* The request goes on, its version now bound; the facilitator takes what is bound.
LEMMA GoOn ==
    ASSUME IInv, ServiceSound', bound \subseteq bound', Paid => Paid',
           NEW c \in Calls, Failing \/ Succeeding,
           NEW pc \in {"verify", "settle", "record"}, pc = "record" => Paid',
           posts[c].pc # "none", posts[c].version \in Versions,
           Answer(posts[c].version) \in bound',
           posts' = [posts EXCEPT ![c].pc = pc],
           UNCHANGED <<tools, told, answers, version>>
    PROVE  IInv'
  <1>1. PICK old : old = posts[c]
    OBVIOUS
  <1>2. PICK post : post = [old EXCEPT !.pc = pc]
    OBVIOUS
  <1>3. old \in Post /\ PostSafe(old)
    BY <1>1, Types
  <1>4. old.version \in Versions /\ IsBound(old.version)'
    BY <1>1 DEF IsBound, Answer
  <1>5. post \in Post /\ PostSafe(post)'
    BY <1>2, <1>3, <1>4 DEF Post, PostSafe, IsBound, Paid
  <1>6. posts' = [posts EXCEPT ![c] = post]
    BY <1>1, <1>2
  <1> QED
    BY <1>5, <1>6, PostKeeps

LEMMA BindKeeps ==
    ASSUME IInv, NEW c \in Calls, Bind(c)
    PROVE  IInv'
  <1>1. PICK v : v = posts[c].version
    OBVIOUS
  <1>2. v \in Versions /\ posts[c].pc # "none" /\ Succeeding
    BY <1>1, Types DEF Bind, Posted, PostSafe, Succeeding
  <1>3. CASE Service!Bind("payment", "arguments", v) /\ posts' = [posts EXCEPT ![c].pc = "verify"]
    <2>1. Answer(v) \in bound'
      BY <1>3 DEF Service!Bind, Answer
    <2>2. ServiceSound' /\ bound \subseteq bound' /\ (Paid => Paid')
      BY <1>2, <1>3, ServiceKeeps
    <2> QED
      BY <1>1, <1>2, <1>3, <2>1, <2>2, GoOn DEF Bind
  <1>4. CASE Answer(v) \in bound /\ UNCHANGED service /\ posts' = [posts EXCEPT ![c].pc = "verify"]
    <2>1. ServiceSound' /\ bound \subseteq bound' /\ (Paid => Paid')
      BY <1>4, ServiceKeeps
    <2> QED
      BY <1>1, <1>2, <1>4, <2>1, GoOn DEF Bind
  <1>5. CASE UNCHANGED service /\ Respond(c, "refused", NoId)
    <2>1. ServiceSound' /\ bound \subseteq bound' /\ (Paid => Paid')
      BY <1>5, ServiceKeeps
    <2> QED
      BY <1>2, <1>5, <2>1, Types, RespondKeeps DEF Bind
  <1> QED
    BY <1>1, <1>3, <1>4, <1>5 DEF Bind

\* From the binding on the response names what is bound.
LEMMA HeaderSound ==
    ASSUME IInv, NEW c \in Calls, posts[c].pc \in {"verify", "settle", "record"}
    PROVE  /\ posts[c].version \in Versions /\ IsBound(posts[c].version)
           /\ posts[c].pc = "record" => Paid
  BY Types DEF PostSafe

LEMMA VerifyKeeps ==
    ASSUME IInv, NEW c \in Calls, Verify(c)
    PROVE  IInv'
  <1>1. PICK v : v = posts[c].version
    OBVIOUS
  <1>2. v \in Versions /\ IsBound(v) /\ posts[c].pc # "none"
    BY <1>1, HeaderSound DEF Verify, Posted
  <1>3. ServiceSound' /\ bound \subseteq bound' /\ (Paid => Paid')
    BY ServiceKeeps DEF Verify
  <1>4. (v \in Versions => IsBound(v)') /\ Answer(v) \in bound'
    BY <1>2, <1>3 DEF IsBound
  <1>5. CASE Succeeding /\ posts' = [posts EXCEPT ![c].pc = "settle"]
    BY <1>1, <1>2, <1>3, <1>4, <1>5, GoOn DEF Verify
  <1>6. CASE (Succeeding \/ Failing) /\ Respond(c, "unsettled", v)
    BY <1>2, <1>3, <1>4, <1>6, RespondKeeps DEF Verify
  <1> QED
    BY <1>1, <1>5, <1>6 DEF Verify

LEMMA SettleKeeps ==
    ASSUME IInv, NEW c \in Calls, Settle(c)
    PROVE  IInv'
  <1>1. PICK v : v = posts[c].version
    OBVIOUS
  <1>2. v \in Versions /\ IsBound(v) /\ posts[c].pc # "none"
    BY <1>1, HeaderSound DEF Settle, Posted
  <1>3. ServiceSound' /\ bound \subseteq bound' /\ (Paid => Paid')
    BY ServiceKeeps DEF Settle
  <1>4. (v \in Versions => IsBound(v)') /\ Answer(v) \in bound'
    BY <1>2, <1>3 DEF IsBound
  <1>5. CASE Service!Take("payment") /\ Succeeding /\ posts' = [posts EXCEPT ![c].pc = "record"]
    <2>1. Paid'
      BY <1>3, <1>5 DEF Service!Take, ServiceSound, Paid
    <2> QED
      BY <1>1, <1>2, <1>3, <1>4, <1>5, <2>1, GoOn DEF Settle
  <1>6. CASE (Succeeding \/ Failing) /\ Respond(c, "unsettled", v)
    BY <1>2, <1>3, <1>4, <1>6, RespondKeeps DEF Settle
  <1> QED
    BY <1>1, <1>5, <1>6 DEF Settle

LEMMA RecordKeeps ==
    ASSUME IInv, NEW c \in Calls, Record(c)
    PROVE  IInv'
  <1>1. PICK v : v = posts[c].version
    OBVIOUS
  <1>2. v \in Versions /\ IsBound(v) /\ Paid /\ posts[c].pc # "none"
    BY <1>1, HeaderSound DEF Record, Posted
  <1>3. ServiceSound' /\ bound \subseteq bound' /\ (Paid => Paid')
    BY <1>1, ServiceKeeps DEF Record
  <1>4. (v \in Versions => IsBound(v)') /\ Paid'
    BY <1>2, <1>3 DEF IsBound
  <1>5. (Succeeding \/ Failing) /\ Respond(c, "fulfilled", v)
    BY <1>1 DEF Record
  <1> QED
    BY <1>2, <1>3, <1>4, <1>5, RespondKeeps DEF Record

-----------------------------------------------------------------------------
(* The other steps *)

\* The customer learns an id, a source changes, or everything in memory is gone.
LEMMA RestartKeeps ==
    ASSUME IInv, Restart
    PROVE  IInv'
  <1>1. ServiceSound' /\ bound \subseteq bound' /\ (Paid => Paid')
    BY ServiceKeeps DEF Restart
  <1>2. \A c \in Calls : tools'[c] = NoTool /\ posts'[c] = NoPost
    BY DEF Restart
  <1>3. TypeOK'
    <2>1. failures' \in 0..MaxFailures
      BY Counted DEF Restart
    <2> QED
      BY <1>2, <2>1, Rest DEF Restart, TypeOK, At, NoTool
  <1> QED
    BY <1>1, <1>2, <1>3, Rest DEF Restart, IInv, IsBound

LEMMA OthersKeep ==
    ASSUME IInv, Ask \/ Change \/ UNCHANGED vars
    PROVE  IInv'
  <1>1. ServiceSound' /\ UNCHANGED <<tools, posts, answers, failures, bound, taken>>
    BY ServiceKeeps DEF Ask, Change, vars, service
  <1>2. told' \in Ids /\ (told' \in Versions => IsBound(told'))
    BY Types, Rest DEF Ask, Change, vars, Ids
  <1>3. version' \in Versions
    BY ConstantsAssumption, Rest DEF Ask, Change, vars, Versions
  <1>4. TypeOK'
    BY <1>1, <1>2, <1>3 DEF IInv, TypeOK, At
  <1> QED
    BY <1>1, <1>2, <1>4 DEF IInv, ToolSafe, PostSafe, IsBound, Paid

-----------------------------------------------------------------------------
(* Theorems *)

LEMMA Initially ==
    ASSUME Init
    PROVE  IInv
  <1>1. bound = {} /\ taken = {} /\ kept = {}
    BY DEF Init, Service!Init
  <1>2. TypeOK
    BY ConstantsAssumption DEF Init, TypeOK, At, NoTool, Ids, Versions
  <1>3. told \notin Versions
    BY DEF Init, NoId, Versions
  <1> QED
    BY <1>1, <1>2, <1>3 DEF Init, IInv, ServiceSound

THEOREM Invariance == Spec => []IInv
  <1>1. Init => IInv
    BY Initially
  <1>2. IInv /\ [Next]_vars => IInv'
    <2> SUFFICES ASSUME IInv, [Next]_vars PROVE IInv'
      OBVIOUS
    <2>1. CASE Ask \/ Change \/ UNCHANGED vars
      BY <2>1, OthersKeep
    <2>2. CASE Restart
      BY <2>2, RestartKeeps
    <2>3. ASSUME NEW c \in Calls, Step(c) PROVE IInv'
      BY <2>3, SubmitKeeps, ReplayKeeps, ReceiveKeeps, DiscardKeeps, ReturnKeeps,
         PrepareKeeps, BindKeeps, VerifyKeeps, SettleKeeps, RecordKeeps DEF Step
    <2>4. ASSUME NEW c \in Calls, TimeOut(c) \/ EventFails(c) PROVE IInv'
      BY <2>4, GiveUpKeeps
    <2> QED
      BY <2>1, <2>2, <2>3, <2>4 DEF Next
  <1> QED
    BY <1>1, <1>2, PTL DEF Spec

\* A tool that waits for a response has a paid request under way, and every local
\* variable has its type, for any number of calls, versions and failures.
THEOREM TypeCorrect == Spec => []TypeOK
  <1>1. IInv => TypeOK
    BY DEF IInv
  <1> QED
    BY <1>1, Invariance, PTL

\* Whatever calls overlap, time out and are repeated, the customer is given one
\* answer, the one the payment stands for, and is told no other id.
THEOREM AnswersAgreeTheorem == Spec => []AnswersAgree
  <1>1. ASSUME IInv, NEW v, IsBound(v) PROVE bound = {Answer(v)}
    BY <1>1 DEF IInv, ServiceSound, IsBound
  <1>2. ASSUME IInv PROVE \A v, w \in answers : v = w
    BY <1>2, <1>1 DEF IInv, IsBound, Answer
  <1>3. ASSUME IInv, answers # {} PROVE bound = {Answer(v) : v \in answers}
    <2>1. PICK v \in answers : TRUE
      BY <1>3
    <2>2. answers = {v} /\ bound = {Answer(v)}
      BY <1>1, <1>2, <1>3, <2>1 DEF IInv
    <2> QED
      BY <2>2
  <1>4. IInv => AnswersAgree
    BY <1>1, <1>3 DEF IInv, AnswersAgree, Paid
  <1> QED
    BY <1>4, Invariance, PTL
=============================================================================
