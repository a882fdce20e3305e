# Verification of the evidence service

TLA+ models of the Python service in `src/autonomous_data_api`, TLC
configurations that check them on small instances, and TLAPS proofs that hold
for every size. File names without a directory are below
`src/autonomous_data_api/`; line numbers are in `PROJECT.json` (`map`), which
names the source lines of every definition.

## 1. The system

The service sells small pieces of evidence over HTTP, paid per request with
x402. A request carries a payment proof (`Payment-Signature`); middleware checks
caps and payment, a handler answers, an append-only SQLite ledger remembers.
All of it runs in one asyncio process; SQLite work is pushed to threads; two
background tasks refresh lists and check monitors. There is no queue and no
distributed store, so what is hard is the interleaving of awaits, the several
transactions one operation is made of, answers that are lost after money moved,
midnight (caps are per UTC day), and a process that stops between two
transactions.

| component | code | state | operations | interacts with |
|---|---|---|---|---|
| Procurement broker | `procurement.py` | tables `procurement_requests`, `procurement_supplier_purchases`; one asyncio lock | `build`, `build_python_run`; inside: `_begin_or_replay`, `_reserve_supplier`, `_attempt_supplier`, `_complete_supplier`, `_finish_request`, `_fail_request` | paid suppliers over x402 (Tavily, BlockRun, E2B create/exec/terminate); evidence service to store the result; called by two handlers |
| Payment pipeline | `app.py` | `MainnetRevenueCapMiddleware.reserved` and its lock | the revenue cap, precompute, payment middleware, handlers, ledger write, release | evidence ledger, payment facilitator, broker |
| Evidence ledger | `evidence.py` | tables `payment_request_bindings`, `payment_bindings`, `evidence_attempts`, `evidence_fulfillments` | `bind_payment_request`, `bind_payment`, `record_attempt`, `fulfilled_revenue_since`, replay | pipeline, MCP service |
| OFAC evidence | `evidence.py` | tables `source_status`, `source_snapshots`, `ofac_lookup`, `prepared_results` | `refresh_ofac`, `import_ofac_file`, `prepare_ofac`, `prepare_ofac_preflight` | OFAC's servers; the refresher task; request workers |
| Source Watch | `monitors.py` | tables of monitors and events | `activate`, `cancel`, expiry, `run_due`, `_check_one`, `_deliver_webhook` | watched sources, customer webhooks; the check task |
| Marketplace jobs | `marketplace.py` | job table | `accept_webhook`, `run_pending`, `_complete_job`, `_post_callback` | marketplace, Source Watch |
| Background tasks | `app.py:330-357` | none | `refresh_ofac_sources`, `run_source_watch_checks` | OFAC evidence, Source Watch, marketplace |
| Funded-company dossier | `suppliers.py` | supplier ledger of its own | `_reserve`, `_complete`, `_search`, `build` | a paid supplier |
| SEC evidence | `evidence.py` | tables `source_status`, `source_snapshots`, `prepared_results`, shared with OFAC | `_fetch_sec_source`, `prepare_sec_signal`, `prepare_sec`, `prepare_form_d_funding_leads` | SEC servers; request workers, each on a thread of its own |
| MCP service | `mcp_service.py` | agent events, capability requests | `submit_x402_payment`, the tools that return a payment challenge, `submit_capability` | the paid routes and the replay route, over HTTP with timeouts; the customer's agent |
| Rate limiter | `app.py:1911-1938` | window per client | admit, evict | pipeline |
| Analytics, receipts, catalogue, scripts | several | none of their own that other parts read | reads, formatting, signing | |

What makes each of the modelled parts correct:

* **Broker**: the ledger never exceeds the daily cap and never understates a
  payment a supplier was sent, whatever fails; over the days, suppliers take no
  more than the caps of the days so far, however late they take it; one payment
  buys one plan, once, and nothing beyond its opening purchase unless that one was
  fulfilled; a result goes only to the request its payment was claimed for; every
  call is answered.
* **Pipeline and ledger**: reservations balance; the cap holds for what is
  reserved and recorded on a day; one payment is bound to one result for ever;
  only paid results can be replayed; the ledger counts no revenue not earned.
* **Dossier**: within its own daily cap and without understating what the supplier
  took; one payment obtains one dossier; the cost it reports is the cost it holds.
* **OFAC**: a stored result says what the files it names say; the free decision
  agrees with the evidence stored for the question it writes; a question once
  answered over the same files is answered the same again.
* **SEC**: an answer is as fresh as its request asked for, whichever thread
  fetched the list; no filing falls between two signals of one client, or
  between two pages of one search; a result can be prepared again identically.
* **MCP**: one payment gives one answer, by whichever call it comes; a customer
  who has paid and goes on calling gets it.
* **Source Watch and jobs**: the event history is gapless; a webhook hears of
  nothing that is not stored, of nothing out of order, and of no change more often
  than its host has addresses; the marketplace is told of a completion no more often
  than that for each attempt; cancelled monitors stay cancelled, accepted jobs
  settle, due monitors are checked.

## 2. Modules

| module | models | composed from |
|---|---|---|
| `LedgerSum` | `SUM(amount)` of an SQL ledger, as the number of units its rows hold | |
| `SupplierBudget` | abstract: what a supplier ledger promises, whatever it buys | `LedgerSum` |
| `ProcurementBroker` | the broker | `LedgerSum`; implements `SupplierBudget` |
| `FundingDossier` | the dossier | `LedgerSum`; implements `SupplierBudget` |
| `PaidService` | abstract: what the paid routes promise about one payment | |
| `PaidRequests` | revenue cap, precompute, binding, payment, handler, ledger | `LedgerSum`; implements `PaidService` |
| `McpService` | the MCP tool that pays, its customer, and the paid route behind HTTP | runs `PaidService` as the paid route |
| `OfacEvidence` | refresh, import, lookup, cache, and the refresher task | |
| `SecEvidence` | the cached SEC source and the two products made of one issuer's filings | |
| `FormDSearch` | the Form D search, page by page | |
| `SourceWatch` | monitors, marketplace jobs and the task that serves both | |
| `MC...` | values of the constants for TLC, symmetry sets | the module it is named after |
| `LedgerSum_proofs` | lemmas about sums | `LedgerSum` |
| `ProcurementBroker_proofs`, `FundingDossier_proofs`, `PaidRequests_proofs`, `McpService_proofs`, `OfacEvidence_proofs`, `SecEvidence_proofs`, `SourceWatch_proofs` | theorems | the module each is named after; `SecEvidence_proofs` also has the theorems about `FormDSearch` |

### SupplierBudget

The contract of the two supplier ledgers, without calls, locks or errors: a
purchase is set aside at its maximum if the day has room (`Hold`), a payment for
it is signed while it is set aside, once (`Sign`), and it is settled at no less
than was signed (`Settle`). A supplier can take a signed payment whenever it likes,
so the budget counts what is signed, not what is taken. `WithinBudget` of
`ProcurementBroker` and `FundingDossier` is this specification under the mapping
*held* = amount and day of a row, *open* = the row is `RESERVED`, *signed* =
`signed`, *today* = `day`. An error path that closes a row with too little, that
pays twice, or that buys under a closed row is a step the budget does not have.

### ProcurementBroker

A *task* is one call of `build` or `build_python_run`. `queue` is the asyncio
lock: its head is the holder, the tail its FIFO waiters. `pc` says which await
the call stands at:

| pc | code | actions |
|---|---|---|
| `begin` | `_begin_or_replay` | `Begin`: claim, replay or conflict |
| `reserve` | `_reserve_supplier` | `Reserve`: the cap check and the insert, one immediate transaction; refusal is `FAILED_PRE_PAYMENT` |
| `call` | `operation()` in `_attempt_supplier`, up to the payment | `Sign`: an acceptable price is signed and sent; `UnpaidCall`: the supplier asked for none, failed or asked too much; `BrokenCall`: an exception without an amount |
| `paid` | `operation()`, after the payment | `PaidCall`: the answer is good, or bad, late or unreadable; `BrokenCall` |
| `record` | `_complete_supplier` | `Complete`, or `CompleteAsUnknown` when the first update failed |
| `fail`, `prepare`, `unprepared`, `finish` | the end of `build...` | `FailRequest`, `Prepare`, `FailPreparation`, `FinishRequest` |
| any transaction | | `DatabaseError`: it raises, the lock is left |

`signed` and `charged` are external: the payment each supplier was sent, and the
day on which it took that money. They are what the ledger is compared with. Taking
the money is an action of the supplier (`Charge`), tied to no step of the call: it may
fall while the call waits, after a time-out closed the row as `UNKNOWN` and the lock
went to the next call, after midnight, or after a restart, and several suppliers may
be that late at once. `Midnight` moves the day, `Restart` clears everything in
memory; what was signed stays signed. Answers are abstracted to good, bad and
unreadable; prices are a small set that holds one acceptable and, for the cheap suppliers, one excessive price.

### FundingDossier

A *task* is one call of `build`, which holds `lock` from `Reserve` (`_reserve`:
one immediate transaction) to the end. `LoadSource` is the official filing,
`Search` the supplier with every way it may fail, before or after a payment was
signed, `Prepare` the stored result,
`Complete` and `CompleteFails` the one update of `_complete`. Which except clause
of `build` a failure reaches is the choice between `FailUnpaid`, `FailPaid` and
`Unexpected`: each decides both the row's last status and the cost the answer
reports. A row is booked at one cent whatever the supplier asked, so amounts are
whole units. What is asked for plays no part, since a payment that was ever
reserved is refused. `EvidenceError` after the search does not occur: what
`prepare_form_d_company_dossier` stores it has just built.

### PaidRequests

A *call* is one HTTP request. The pcs follow the layers inwards (`cap`,
`reserve`, `validate`, `prepare`, `bind`, `insert`, `verify`, `handle` or
`intent`/`intend`/`build`, `settle`) and outwards (`record`, `release`). A
*prepared* route binds the payment before it is verified, a *procured* one
binds the request, builds with the broker, and then binds the result; the
*composed* route of the dossier does the same without binding the request. The two
reads and the write of `bind_payment` are separate steps, since the deferred
transaction takes the write lock only at the `INSERT`. The facilitator takes a
payment at most once, and may do so although its answer never arrives
(`Settle`). The payment middleware and the facilitator are not in the
repository and are modelled from how `app.py` uses them (`external` in the map).

`ImplementsService` is the refinement of `PaidService`: *bound* is the table of
bindings, *taken* the payments the facilitator has really taken (whether or not
anybody was told), *kept* the stored fulfilments. Most steps of the pipeline
stutter; what matters is that a binding never moves or doubles, that nothing is
taken before it is bound, and that what is kept is what was bound and paid.

### PaidService

The contract of a paid route, seen from outside: `Bind` decides what a payment
stands for, once; `Take` takes its money, after that and once; `Keep` makes that
one answer replayable. It says nothing of how long any of them takes, whether a
caller is told, or whether `Keep` follows `Take` at all. It is used from both
sides: `PaidRequests` implements it, and `McpService` executes it.

### McpService

A *call* is one call of the tool `submit_x402_payment`. `tools[c]` holds its local
variables and `posts[c]` the paid request it makes. The two are separate tasks of
the server joined by HTTP with a timeout, and that is the point: after `TimeOut`
or `EventFails` the paid request goes on, to settle or to fail, while the same
customer calls again. `Replay` is the GET that comes first (anything but a 200,
also a 429 or a 5xx for a result that is kept, falls through to the POST), `Receive` reads the
response and its request id header, `Return` records the event and answers.
`Prepare`, `Bind`, `Verify`, `Settle` and `Record` are the layers of the paid
route, with `PaidService` as its state, so that each of them can also fail.
`Restart` ends both tasks, since the MCP server is mounted in the same process;
a payment the facilitator already has may be taken still.

`Recovered` has two escapes, and both are named. `Lost`: the money is taken and
the answer is not kept, because the facilitator's reply or the ledger's
transaction was lost. `Stranded`: the payment is bound to a version of the
sources that can no longer be prepared, and the customer never learnt its
request id, so every retry is refused with 409. Outside them, and in any case once
the customer has the id of a result that is kept, calling again ends with the
result.

### OfacEvidence

A *thread* refreshes a list (`Refreshers`: the background task, the command line)
or prepares an answer (`Workers`: one request each); a thread of the model may be
both in turn. No lock keeps two apart. The
file of a list in version *v* is written *v*, so content hashes and versions are
numbers and `index` holds triples `<<list, content hash it is filed under, file
its rows were parsed from>>`. The two transactions of `import_ofac_file`
(`Store`, `Index`) and the read-back between them (`ReadBack`) are separate
steps. The cache check and the SELECTs of `prepare_ofac` are merged into
`Lookup`: results are insert-only, so that a later read of the cache finds no
less. A *question* is a request as it is written. `_store_prepared` and the cache
key a result by product, bundle and the hash of the whole request (`SameKey`), so
that two spellings of one address (`Subject`) have a row each; the free preflight
looks for the row of the question it writes itself (`Preflights`: lower case, one
network, both lists). If an import is disturbed the two spellings may be
answered differently over the same files, and TLC reaches that; `PreflightAgrees`
speaks of one question. `answers` is a history variable: `Persist` and `Decide`
answer with the row they read back (`ReadAgain`), which another thread may have
stored with another result, and `AnswersStable` compares what was answered.
The history variable `disturbed` becomes true when a thread stores or
looks up while another is between `Store` and `Index` on the same list, or when
one is stopped there. `NoFalseClearance` shows that something does go wrong then
and `ExactUnlessDisturbed` that nothing goes wrong otherwise.

### SecEvidence

A *thread* prepares one answer: `Check` looks for a current snapshot that is
fresh enough, `Get` asks the SEC otherwise (an unchanged list may come as a 304 or
again as a 200), `Store` or `Mark` is the one
transaction that follows, `Reread` reads back whatever is current by then, and
`Prepare` stores the result. Contents are the number of filings the SEC lists.
Time is modelled here, because every property is about it: `Transit` is how long
an answer may be under way before it gets its timestamp, `Lag` how long after
its acceptance a filing is listed.

* `FreshAnswers` depends on `ConstantsAssumption`: TLC violates it as soon as
  `Transit > MaxAge`, since one thread's slow answer may then replace a
  newer one and be taken for fresh. That is an assumption about the SEC: the least
  age a request may ask for is 60 seconds and the HTTP timeout 30, but httpx
  applies it to every read, so that an answer that trickles in may take longer.
* The except clause that falls back on the copy seen before the request is never
  taken in the model, as in the code: that copy was found too old before the
  request, and time only passes. The mutant of `FreshAnswers` is the slip that
  would make it matter.
* `WindowComplete` has the overlap `Transit + Lag`. `next_since` is the moment
  the list was first stored *here*, and a filing can be accepted before and
  listed after it; a client that asks from exactly `next_since` can miss one. The
  property says how much earlier is enough.

### FormDSearch

The server keeps no state between two pages, so the state is the client's: the
cursor, and as history the rows its pages went through (`scanned`), the index
days there were when it began (`present`) and those that some page had to do
without (`missed`). `available` is what the SEC serves during one page. A row is
a pair of a filing and an issuer, since the index has one row per issuer and the
cursor names the filing only. `WalksEnd` has the escape `FitsPage`: the cursor
stands for the *first* row of its filing, so if a page cannot hold all rows of
one filing, the next page begins where this one began, for ever. With
`FitsPage` dropped TLC finds that loop.

### SourceWatch

`loop` is the one background task: `run_due` (pcs `due` to `unanswered`), then
`run_pending` (`jobs` to `reject`), then sleep. `due` holds the monitors whose
`next_check_at` has passed, oldest first. Clock times are abstracted to that
order: a monitor becomes due only just before `run_due` looks, and the loop
expires any subset of the active monitors, which covers every arrangement of
their expiry dates. `accepted` is the order of the jobs' `created_at`.
`Selections` is `SELECT ... ORDER BY ... LIMIT`, with `Limit` for `run_due` and
`JobLimit` for `run_pending`. `loop.batch` holds the rows as they were selected,
with the hash or the number of attempts of that moment: the code checks and
completes from those copies, not from what the tables say by then. `inbox` and
`callbacks` are external: what customers' webhooks and the marketplace received.
`_safe_https_request` tries the addresses of a host one after the other and sends
the whole request again whenever an answer is lost or late, so that one attempt may
be received once per address: `loop.address` is the one under way, `Addresses`
the most a name resolves to, and `Deliver` and `PostCallback` are one POST to one
address each. `Surprise` is an exception neither handler of the task
catches.

## 3. Runs

Expected to pass:

| run | distinct states | bounds | shows |
|---|---|---|---|
| `broker_safety` | 331,000 | 2 tasks, 2 payments, both products, prices {1, 3}, cap 6, one day, one restart | `TypeOK`, `DailyCapHeld`, `SpendCovered`, `PaymentSpendBounded`, `CostAgrees`, `ReplayFaithful`, `ClaimedOnce`, `WithinBudget` |
| `broker_fair` | 318,000 | 2 tasks, the two-stage product, price 2, cap 4, two days, all four payments taken at any time | `SpendOverDays`, and under fairness `Answered` |
| `dossier_safety` | 51,000 | 3 tasks, 3 payments, cap of two searches, prices {1, 2, 3}, two days, one restart | `TypeOK`, `SpendCapped`, `CostReported`, `DossierOnce`, `WithinBudget` |
| `paid_safety` | 290,000 | 2 calls, 2 payments or none, a route of each of the three kinds, cap 3, two days, two source versions, one restart | `TypeOK`, `ReservationsBalanced`, `SameDayCap`, `LedgerIsEarned`, `ImplementsService` |
| `mcp_safety` | 97,000 | 2 calls, each again and again, three source versions, two failures | `TypeOK`, `AnswersAgree`, and under fairness `Recovered` |
| `ofac_safety` | 3,720,000 | one list, two versions, two spellings of one question, a thread that refreshes or serves and one that serves, one failure, no new request once two results are stored | `TypeOK`, `ExactUnlessDisturbed`, `PreflightAgrees`, `AnswersStable` |
| `sec_safety` | 5,620,000 | 2 threads, five moments, 2 filings, 2 results, `MaxAge`, `Transit`, `Lag` and `MaxFilings` 1 | `TypeOK`, `FreshAnswers`, `WindowComplete`, `ResultsReproducible` |
| `formd_pages` | 739 | a client who walks again and again, 6 filings on 3 days, two of them with two issuers, limits 1 to 3, scan limit 3 | `NothingSkipped`, and under fairness `WalksEnd` |
| `watch_safety` | 732,000 | a bought monitor with webhook, an ordered one with its job, `Limit` and `JobLimit` 1, 2 attempts, hosts of 2 addresses, 2 changes, one failure | `TypeOK`, `EventsAreHistory`, `InboxFaithful`, `JobsDelivered`, `NeverRevived`, and under fairness `JobsSettled`, `DueIsChecked` |

Why the bounds are enough. Two tasks, calls or threads give every interleaving
of a pair; each step of theirs touches shared state only through a ledger row, a
lock or an index row, and a third would do nothing a repeated one of the two
cannot (tasks are used once, but a payment and a request may be used by both,
which is what retries are). The caps are chosen so that one plan fits and two do
not: cap 6 in `broker_safety` admits a whole plan (maxima 2+2 or 3+1+1) but lets
the second run out between any two of its stages; cap 3 in `paid_safety` admits
every pair but two dear ones. The price 3 is above the maximum of four suppliers
and acceptable to one. `broker_safety` has `MaxCharges` 0, since its properties
compare the ledger with what was signed and no step of the broker reads `charged`;
`broker_fair` lets all four payments be taken, before or after midnight. In
`dossier_safety` a search costs 2 units of a cap of 4,
so that the third call is refused unless an earlier one failed unpaid, and prices
lie below, at and above the maximum. `Limit` 1 in `watch_safety` (the code has 20)
makes one monitor wait behind the other, which is what starvation needs;
`MAX_ATTEMPTS` 2 has a last and a not-last attempt, and `Addresses` 2 a last and a
not-last address. One restart or failure may fall between any
two steps; `Midnight` likewise. Versions stop at two: an old and a new content
of a list or page. `mcp_safety` has three, so that a payment can be bound to a
version that is neither the first nor the last, and two failures, so that an
answer can be lost and the retry fail too; its calls, unlike those of
`paid_safety`, are used again. In `sec_safety` five moments are enough for a
snapshot to be stored, to become too old and to be replaced by a slower thread
while a filing is accepted, listed and asked for; `MaxFilings` 1 makes the second
filing exceed it. In `formd_pages` the filings with two rows are one that matches
and one that does not, so that a page can end inside one by the limit on leads and
by the scan limit. One list is enough in `ofac_safety`, since an import touches one
list and a request for two looks them up one after the other. `MaxResults` 2 stops
new requests once two results are stored, but not those under way: TLC reaches
states in which the two spellings were answered differently over the same file and
the preflight was decided, and states with results over both versions.

Deadlock is not checked: in each instance every request may have been answered
and every bounded event may have happened. Instead of it `broker_fair` shows
that calls end.

Fairness. `ProcurementBroker!FairSpec` has weak fairness of the steps of each
task: the event loop resumes a task that is ready; transactions run on the thread
pool and return; a supplier call times out after 60 seconds. Since the lock is
FIFO and only its holder has a step enabled, weak fairness suffices. Nothing
forces a customer to call. `Charge` has none: a supplier need never take its
money. `SourceWatch!FairSpec` has weak fairness of the loop
as a whole, not of any disjunct: the sleep ends, transactions return, and sources,
webhooks and the marketplace are cut off by their timeouts. Which of the
outcomes occurs is not constrained, so sources may fail for ever. `JobsSettled`
and `DueIsChecked` promise what they promise while the task lives: an exception
other than `OSError` and `sqlite3.Error` (`Surprise`) ends it, nothing restarts
it, and both properties name that escape, `At("dead")`. They are stated as *again and
again not open* and *again and again not due*, which is the same as *whatever is open
or due ceases to be*, and cheaper to check. `FairSpec` of
`OfacEvidence` is weak fairness of the refresher's task. `FairSpec` of `McpService`
has weak fairness of the steps of each call and of the paid request behind it, and of
`Ask`: the customer goes on calling and the server's tasks go on. Nothing makes a
network call succeed, but failures are bounded by `MaxFailures`, so that they end.
`FairWalkSpec` of `FormDSearch` is weak fairness of a page answered with every
published index: the client asks on while there is a next page, and again and
again the SEC serves all it has published; in between it may refuse any of them.

Expected to be violated (each is an entry of `findings`, with the sentence it
contradicts):

| run | property | what the counterexample shows |
|---|---|---|
| `ofac_clearance` | `NoFalseClearance` | a lookup between the two transactions of an import stores `NO_EXACT_MATCH` for a listed identifier, and the cache repeats it for that file |
| `ofac_loop` | `LoopKeepsRetrying` | a database error inside an import is not an `EvidenceError`, and ends the refresher |
| `paid_cap` | `AcceptedRevenueCapped` | a request that reserves before midnight is recorded after it, on a day it reserved nothing |

Each passing property also has a mutant in `PROJECT.json`: a plausible slip in
one definition (marked `mutant` in the modules) that TLC must find.

Three limits that need no run of their own. `PYTHON_RUN_EXPERIMENT.md:19` calls the
daily cap "the hard spending boundary": it bounds what is booked under a day.
Payments signed before midnight may be taken after it, on top of those of the new
day, so that what is taken on a single day can exceed the cap; `SpendOverDays` says
what does hold. The broker checks its cap stage by
stage, so that a run whose sandbox was created can be refused its own
termination when another run has spent the budget meanwhile, although
`PYTHON_RUN_EXPERIMENT.md:23-24` speaks of an attempt "after every created
run"; the sandbox then ends by its expiry. And a ledger write that fails after
settlement is only a response header, so that the paid result cannot be replayed,
although `README.md:92` (of `autonomous_data_api`) says that a fulfilled buyer can:
that is `Lost` of `McpService`, and the reason why `PaidService` does not promise
that `Keep` follows `Take`.

## 4. Proofs

All for arbitrary constants that satisfy the module's `ConstantsAssumption`
(`FormDAssumption` in `FormDSearch`).

| module | theorem | states |
|---|---|---|
| `ProcurementBroker_proofs` | `TypeCorrect`, `DailyCapTheorem`, `SpendCoveredTheorem` | `[]TypeOK`, `[]DailyCapHeld`, `[]SpendCovered` |
| | `ImplementsBudget` | `WithinBudget`: the broker is a `SupplierBudget` |
| | `ReplayFaithfulTheorem`, `CostAgreesTheorem`, `PaymentSpendTheorem`, `SpendOverDaysTheorem`, `ClaimedOnceTheorem` | `[]ReplayFaithful`, `[]CostAgrees`, `[]PaymentSpendBounded`, `[]SpendOverDays`, `ClaimedOnce` |
| `FundingDossier_proofs` | `TypeCorrect`, `SpendCappedTheorem`, `CostReportedTheorem`, `DossierOnceTheorem`, `ImplementsBudget` | `[]TypeOK`, `[]SpendCapped`, `[]CostReported`, `[]DossierOnce`, `WithinBudget`: so is the dossier |
| `PaidRequests_proofs` | `TypeCorrect`, `ImplementsServiceTheorem` | `[]TypeOK`, `ImplementsService`: the pipeline is a `PaidService` |
| | `ReservationsBalancedTheorem`, `SameDayCapTheorem`, `LedgerIsEarnedTheorem` | `[]ReservationsBalanced`, `[]SameDayCap`, `[]LedgerIsEarned` |
| `McpService_proofs` | `TypeCorrect`, `AnswersAgreeTheorem` | `[]TypeOK`, `[]AnswersAgree` |
| `OfacEvidence_proofs` | `TypeCorrect`, `ExactUnlessDisturbedTheorem`, `PreflightAgreesTheorem`, `AnswersStableTheorem` | `[]TypeOK`, `[]ExactUnlessDisturbed`, `[]PreflightAgrees`, `[]AnswersStable` |
| `SecEvidence_proofs` | `TypeCorrect`, `FreshAnswersTheorem`, `WindowCompleteTheorem`, `ResultsReproducibleTheorem` | `[]TypeOK`, `[]FreshAnswers`, `[]WindowComplete`, `[]ResultsReproducible` |
| | `NothingSkippedTheorem`, `CursorsDescendTheorem` | `[]NothingSkipped`, `CursorsDescend` of `FormDSearch`; no run of its own checks the second |
| `SourceWatch_proofs` | `TypeCorrect`, `EventsAreHistoryTheorem`, `InboxFaithfulTheorem`, `JobsDeliveredTheorem`, `NeverRevivedTheorem` | `[]TypeOK`, `[]EventsAreHistory`, `[]InboxFaithful`, `[]JobsDelivered`, `NeverRevived` |
| | `RowsNotStale` | `[](RowsCurrent /\ JobRowsCurrent)`: the rows of a batch are current when their turn comes |

### The broker

The first three invariants rest on `Invariance`, `Spec => []IInv`. None of the properties is inductive:
`Complete` writes whatever the call computed, so the cap needs to know that this
is no more than the reservation; that a row is still `RESERVED`; and that nobody
else is at the same row. `IInv` adds:

* `RunningHolds`: a call past its claim holds the lock. Hence at most one call
  is between a reservation and its record.
* `RowsBounded`: a row that counts holds no more than its supplier's maximum, and
  its day is not in the future. (Rows of later days would make the sum "since
  today" and the sum "on today" differ; `Reserve` checks the former.)
* `ReservationHeld`: a call at `call`, `paid` or `record` has a `RESERVED` row at the
  maximum under its own key, and its price is within it.
* `CallAccounted`: what was signed for the row under way is no more than what the
  call will record.
* `CapOnEveryDay`: the daily cap for every natural number, not only `1..MaxDay`.

`Reserve` is the one step that raises a sum; `TotalAdd` (`LedgerSum_proofs`) says
by how much, and `FitsCap` that there was room. `Complete` and
`CompleteAsUnknown` replace a reservation by at most itself: `TotalMonotone`.
Every other step leaves the amounts alone: `TotalAgree`. Sums are cardinalities of
sets of units exactly so that these lemmas follow from the library's facts on
finite sets: a recursive sum would need induction over data, which the provers at
hand cannot do.

`ImplementsBudget` needs one more invariant, `RowsPlain`: a row that does not
count holds nothing and an absent one has no date. Without it the abstract
budget, which adds up every row of a day, would not hold what `_reserve_supplier`
adds up (`HeldToday`), and `Hold` would not find an empty purchase. The steps are
then sorted: `Reserve` is `Hold` or refuses (`ReserveHolds`), `Sign` is `Sign`
(`SignSigns`), `Complete` and `CompleteAsUnknown` are `Settle` (`CompleteSettles`),
midnight is `NextDay`, and all others, the taking of the money among them, stutter.

The two tables, `procurement_requests` and `procurement_supplier_purchases`, are
written by different transactions, and the theorems about payments say that they
agree nevertheless. `BookInv` adds to the above:

* `ClaimHeld`, `RowsBought`: a call past its claim finds the claim as it made it,
  and every row that holds money is of the plan its payment was claimed for, and
  the opening one unless that one is `FULFILLED`. This needs `Opened`: a call goes
  beyond its first stage only with a `FULFILLED` opening row, which no later step
  changes (`FulfilledStays`).
* `CostTracked`: what a call has added up in memory is what its rows hold, the one
  under way excepted. A restart loses the sum and leaves the claim open; since a
  claim is only taken up by the call that made it (`ClaimedOnce`), no call ever
  closes a request with less than its rows hold: `CostAgrees`.
* `ChargeDays`: money is taken only on a payment that was signed, and no earlier than
  its row was reserved. Nothing says how much later.
* `Dated`, `BookedBy`: rows count from day 1 on, and those reserved up to day *d* hold
  at most *d* caps. `Reserve` is checked against the rows of its own day only, so
  this is the daily cap summed over days (`BookedByReserve`, `BookedByMidnight`).

`PaymentSpendBounded` then compares the rows of a payment with its plan: distinct
rows with money match distinct suppliers of the plan, each at its maximum or less
(`TotalInject` of `LedgerSum_proofs`). `SpendOverDays` follows without a word about the
lock or the calls: whatever was taken up to day *d* was signed for a row reserved up
to day *d* that still counts, at the amount signed or more (`SpendCovered`), and
`BookedBy` bounds those. A bound on what is taken on a single day does not hold.

### The dossier

`IInv` of `FundingDossier_proofs` adds what `CostReported` and `DossierOnce` need
while a call is still inside: that its row is `RESERVED`, that nothing was signed
before the search, and that at `record` the status, the cost and the reply it is
about to use go together (`Closing`) - the except clauses of `build` choose each of
the three. Since the row of a payment is inserted once and the lock admits one
call, a row that a call has closed stays as it closed it (`MoveKeeps`), which is
what `DossierOnce` comes to. `RowsSound` is the rest of the refinement: rows are
not of the future and payments are signed for rows that count only.

`SpendCapped` is about the payments themselves, not what is booked. `CapOnEveryDay`, for
every natural number, says that what is booked under a day is within the cap:
`Reserve` finds room for a row more (`ReserveCap`), `Complete` leaves the day of a
row alone and books no more on it (`CompleteCap`), and no other step touches the
ledger. With `RowsSound` what was signed, and may be taken at any later time, is no
more than that, row by row (`TotalMonotone`).

### The pipeline

`Safe` says what a request may rely on where it stands: past the cap it has a day,
past the challenge a payment, and from the moment the payment may be taken on the
payment is bound to exactly what it asked for. It is an invariant only together
with `OneBinding`: the `INSERT` of `bind_payment` is the one place where the two
reads before it no longer count, and the primary key is what keeps a second row
out. Bindings are never updated or removed, so whatever is bound for a request
stays bound while others race, retry or restart. `ImplementsServiceTheorem` then
sorts the steps: `INSERT`s are `Bind`, settlement (with or without an answer) and
a restart during it are `Take`, a successful `record_attempt` is `Keep`.

`CapInv` has the two properties about the cap and two parts more.
`RowsFollow`: a ledger row belongs to a call on its way out, at the price that
call reserved. `ReadCovers`: what the deciding call has read from the ledger still
covers the rows of its day that are not also reserved. That is the argument why
the cap holds although ledger and reservations are not read together: a request
that is recorded after the read is still reserved when the decision falls, because
its release needs the lock the decider holds. The sums follow from `TotalAdd`,
`TotalSplit` and `TotalUnion`. `ConstantsAssumption` asks for a dearest route,
which any finite price list has; without a bound on prices the units of `LedgerSum`
would not be a finite set.

`LedgerIsEarned` compares a sum over calls with a sum over payments. `EarnInv` says
that a row is written on the way out of the call whose payment was taken, at the
price that was taken (`RowsEarned`), and that no two calls stand for one payment
(`EachPaysOnce`): a second call with the same proof is bound to the same request,
but the facilitator takes the money once, and only the call that was told so
records it. So rows with money match payments taken, one to one, at equal prices,
and `TotalInject` compares the sums.

### The MCP tool

`ServiceSound`: the payment stands for at most one answer, and only that is kept,
once it was taken. The rest of `IInv` follows the request id from hand to hand: an
id in a paid request, in its response, in the tool and with the customer is the id
of what is bound (`PostSafe`, `ToolSafe`, `told`), and a result is handed on only
when the money was taken. Late, abandoned and repeated calls carry their ids with
them, so that each step has to preserve it for the one call it moves (`Keeps`).

### The OFAC evidence

`Grounded` says what a thread may rely on in each of its places: that a list it was
told is checked has a file, that what it downloaded or reads back is one, that an
answer names a file of every list asked for. The background refresher and the
workers import without a lock, so the proof needs a statement that survives
overlap: `Filed`, a file is in the index under its own hash, *or* a thread that
still holds it is about to put it there. `Undisturbed` collects it for everything
that names a file: the status, the bundles and the copies of threads. It is only
claimed while `disturbed` is false; the runs expected to fail show that it is
false otherwise. `OneImporter` is why an import reads back the file it stored.
`PreflightAgrees` needs none of this: `DecidedOnExact` says that a preflight is
decided on top of the exact result stored for the very question it writes, over the
same files, which is insert-only. `AnswersStable` rests on two parts of `IInv`:
`AnswersStored`, every answer given is a stored row, which holds because a worker
answers with the row it reads back and not with the one it made, and `KeysUnique`,
one row for a question and its files, which is what `INSERT OR IGNORE` keeps. Two
answers to one question are then the same row.

### The SEC source

`Complete(n, m)` says that *n* filings had at moment *m* miss nothing listed more
than `Transit` before. `Source` claims it of what is current, at the moment it was
last checked, and of each stored snapshot, at the moment it was first had. The
hard step is `Mark`: a thread that was told 304 confirms whatever is current *by
then*, which another thread may have replaced by an older list. `NoneOlder` rules
that out: the content a thread is about to ask about or to confirm (`Floor`) is no
newer than the current one, nor than any answer another thread is about to store.
It holds since a thread asks only when its copy is older than `MaxAge`, and an answer
still under way then began less than `Transit` ago, which is no more. This is where `Transit <= MaxAge`
is used, and without it TLC shows `FreshAnswers` violated.

`WindowComplete` also needs that `Newest` is everything or exactly `MaxFilings`
filings (`NewestFull`). This is proved without induction: the number of newer
filings is a one-to-one ranking of a finite set into as many numbers as it has
elements, hence onto (`FS_Injection`), so the ranks below `MaxFilings` are all
taken. The bound `MaxFiled` and the others are arbitrary in the theorems.

### The Form D search

The inductive invariant is `ScannedSoFar`: everything up to the row the cursor
stands for has been scanned, in the indexes no page had to do without. It needs
that a page is an initial part of the candidates (`PageCovers`), and that the
cursor, which stands for the first row of its filing, is never ahead of the last
row scanned. The proofs are at the end of `SecEvidence_proofs`, which extends both
modules; that is why the specification of `FormDSearch` has a name of its own,
`WalkSpec`.

### Source Watch

None of the invariants is inductive, because the loop works from copies: a check
compares the source with the hash in the row that `run_due` read, before it fetched
and delivered for all the rows ahead of it, and a failed attempt writes the number
of attempts of the row that `run_pending` read. `IInv` says what those copies are
worth:

* `RowsCurrent`: as long as a row is not written by its own check, its hash is the
  stored one and its monitor is still due. It is preserved because only checks
  write hashes and `next_check_at`, there is one loop, and no monitor is twice in a
  batch (`Distinct`). The last follows from `IsInjective(due)`, which follows from
  `INSERT OR IGNORE` and `Listed`: what is due is in its table (`SelectionProperties`,
  `RemoveAtProperties`, `AppendNew` are the lemmas about the sequences).
* `LastIsStored`: while a webhook is under way, what it reports is the last event
  of its monitor.
* `InboxSound`: `InboxFaithful` with the place of the loop: while address *a* is being
  tried, the last event has been heard fewer than *a* times, and after an answer it
  has been heard. So a POST extends the order-preserving map from what was heard to
  the events at its end, a new event leaves it alone, and `Mark` writes `HTTP` only
  for what was heard.
* `JobRowsCurrent`: the jobs of a batch that are still to be written are open and
  have the attempts of their row; at a callback the monitor is there, and after an
  answered one the marketplace was told.

`JobsDelivered` counts callbacks against attempts and failures: those not yet
accounted for belong to the job at hand, at most one for each address tried
(`UnderWay`); `AttemptKeeps` turns them into an attempt, and `CutOffKeeps` into a
failure. Each action is proved with the frame
lemmas for what it leaves alone (`HistoryFrame`, `InboxFrame`, `JobsFrame`,
`RowsFrame`, `RestFrame`), so that only what it does disturb needs an argument.
The bounds `MaxEvents` and `MaxFailures` are arbitrary. In the run each batch has one
row; that nothing goes stale within a longer one is what the theorems add.

### Only model-checked

Liveness under fairness (`Answered`, `Recovered`, `WalksEnd`, `JobsSettled`,
`DueIsChecked`) is out of the reach of the prover and stays with TLC, and so do the
three runs that are expected to fail. Every other property of a run is a theorem.
`WalksTypeOK` of `FormDSearch` is proved as a step of its own (`WalksTypeCorrect`) but
is not a property of a run.

## 5. What is not modelled

* Formatting, hashing, signatures, payload parsing, OpenAPI, samples and health
  pages, analytics (they read only), the operator scripts, the authentication
  of webhooks and administration. `manage_evidence` imports a file the way a
  refresh does.
* The rate limiter. `_check_rate_limit` has no await, so that a check is atomic on
  the event loop, and it evicts only keys that were idle for its whole window.
  Its outcome is a refusal in `PaidRequests` and `McpService`.
* The payment of a monitor. The handler activates it before its payment is settled
  (`app.py:3155`); `NeverRevived` is about its repetition only.
* `activate_portfolio`: two to ten monitors in one transaction, each activated as
  `activate` does. A third monitor is beyond what TLC can search under fairness.
* `submit_capability`: two statements in one transaction under a lock.
* The further SEC sources of one answer (ticker map, older filing lists,
  documents, company facts), which are fetched in the same way, the parsing of
  filings, and the Form D source of the dossier. In `FundingDossier` that source is
  one step that succeeds or fails.
* In `PaidRequests`: retired origins, agent feedback, and the update of a pending
  binding, which nothing in the code creates any more.

## 6. Plan

1. **Action properties of the pipeline**: a binding or a fulfilment is never
   replaced, as corollaries of the refinement.
2. **Two sources in one SEC answer**: the ticker map and a filing list that
   change between two fetches.
3. **Portfolio** in `SourceWatch`, in a safety run without fairness.

The runs are as many as there are questions to ask at present; a new one should
absorb a weaker one.
