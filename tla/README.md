# Precedent in TLA+

Precedent reconciles payments, bank lines and ledger entries.  A deterministic matcher
clears the confident majority; an agent investigates the rest and proposes a resolution; a
human decides at a *first gate*, and that decision deposits a *precedent* the next
investigation can retrieve; a *second gate* may send a refund for a case that turned out to
be a duplicate charge.  An evaluation harness generates a labelled dataset and measures, by
replaying it, whether deposited precedents help.  This directory holds TLA+ models of the
parts where ordering, failure, concurrency and arithmetic decide whether money, corpus and
measurements stay right, the TLC configurations that check them, and TLAPS proofs of the
main results.

Paths of the service are relative to `src/precedent/`, those of the harness to `evals/`.

## Inventory

| Component | State it keeps | Operations | Hard behaviour | What makes it correct |
|---|---|---|---|---|
| Second gate, refund (`usecases/remediate.py`, `domain/remediation.py`, `adapters/razorpay/refunds.py`, `api/remediation.py`, `api/remediation_ui.py`) | rows of `remediations`, audit rows | propose, approve or refuse, reserve, call, book | two requests at once; a provider that answers late or never; death between two steps; answers sent before their commit | money moves only under a committed reservation, once per intent, behind both gates; what the operator was told stays true |
| First gate, deposit (`api/ui.py`, `api/approvals.py`, `usecases/deposit.py`) | `resolutions.human_action`, `precedents`, audit rows | confirm, correct, reject; author and store a precedent | a check made before the lock is taken; the lock held across a model call; a failing model | dense versions, immutable snapshots, no precedent without review |
| Storage (`adapters/storage/*`, `api/deps.py`) | SQLite file, one write lock | connection per request, commit after the response | busy timeout, rollback, crash | part of every module of the service |
| Webhooks (`api/webhooks.py`), write key (`api/write_key.py`), application (`api/main.py`) | `webhook_events`, a browser's cookie | receive, unlock, pass or refuse a request | redelivery; an INSERT that blocks the event loop; a 200 sent before the commit | each event recorded once, the first copy kept, the first gate undisturbed |
| Investigation graph (`graph/*`, `domain/case.py`) | checkpointed state of a case | investigate, retrieve, propose, verify, revise, gate, escalate | loops with budgets, failing models, interrupt and resume | every case ends at the gate or escalated; budgets hold; right answers pass the verifier |
| Resolver (`usecases/resolve.py`) | none | one call | failing model | same routes as the graph |
| Matcher (`domain/matching.py`, `domain/money.py`) | what is consumed and unresolved, within one call | `match_batch` | ties, orders shared by payments and by entries, lines taken greedily | each item consumed once, nothing left out |
| Model clients (`adapters/llm/*`) | the token window | acquire, call, reconcile, retry | waiting workers, retries that are not charged, unreadable answers | the window is charged for what was billed; every call ends |
| Dataset, baseline (`dataset/*`, `runner.py`) | none | build a scenario, split, match by rules | rounding and rates that come near each other | labels, rules, hints and verifier agree |
| Experiments (`replay.py`, `ablation.py`, `human.py`), retrieval (`adapters/retrieval/*`, `corpus/seed.py`) | deposit sequence, arms, results | author, snapshot, measure, give up, write | thread pools, outages, restarts on a cache | held-out cases stay out; arms differ in one thing; only whole curves are written |
| Response cache (`cache.py`) | files | look up, ask, write, rename | several runs on one directory, kills | a hit was given to this very question |
| Read-only screens, reports, charts, scripts | none | render | | not modelled, see below |

The service's components meet in the database.  The first gate writes `human_action`; the
second gate reads it once, at the start of a request.  A review holds the database's write
lock while it waits for the model, and every other writer (a refund, another review, a
webhook) waits for that lock and gives up after SQLite's busy timeout.  FastAPI runs the code
after `yield` in `get_connection` once the response has been sent, so what a handler did not
commit itself is committed only after the client has its answer.  Handlers that are plain
functions run on a thread pool inside one process, each with its own connection; the webhook
handler is `async`, and whatever it waits for in SQLite stops the event loop.

The harness runs the graph and the matcher as libraries.  `generate.py` builds scenarios and
splits the exceptions into a pool and a held-out test set; `runner.py` gives each scenario to
the matcher; `replay.py` and `ablation.py` give the exceptions to the agent, over a thread
pool, through `cache.py` and a paced client.

`PROJECT.json` lists the hazards of this code, each at its line, with the properties that
would catch it going wrong.

## Modules

| Module | What it is |
|---|---|
| `RefundLedger` | the abstract promise: a refund intent is claimed before money can move, the claim is spent only where it moved, and is given back only where it certainly did not |
| `Remediation` | the second gate in detail; implements `RefundLedger` |
| `ReviewGate` | the first gate: screen route with deposit, API route without |
| `Service` | the process: `ReviewGate`, the webhook receiver and the write key on one event loop and one lock; implements `ReviewGate`'s specification |
| `ReconciliationCase` | one case: the verifier's arithmetic, the observations, the hint, the tools that compute |
| `Investigation` | the graph of one case, node by node, with its checkpoints; extends `ReconciliationCase` |
| `Matching` | `match_batch`, one step per ledger entry |
| `Dataset` | the builders and the baseline: `Matching` and `ReconciliationCase` over labelled scenarios |
| `Throttle` | the model clients and the token window they share |
| `ResponseCache` | the files of `CachingLLM` |
| `Split` | the test sets `generate.py` may draw |
| `Experiment` | replay and ablation over a `Split` |
| `Filtering` | the members of a sequence that lie in a set, in their order |
| `MC*` | the instances for TLC |
| `*Proofs` | the theorems of `Remediation`, `Service` with `ReviewGate`, `Investigation`, `Matching` with `Dataset`, `ResponseCache`, `Throttle`, and `Experiment` with `Split` |
| `FiniteFacts` | what the proofs share: induction over numbers and finite sets, the places of an order, filters and sums |

### Remediation

A request is a model value; it inserts at most one row, so `rows[q]` is the row of request
`q`.  The idempotency key is derived from resolution, payment and amount, and payment and
amount are functions of the resolution, so two requests have the same key when `IntentOf`
gives the same resolution.  `net[q]` follows the call of `q` from the wire to its answer,
also after the handler has given up on it.

| Action | Code |
|---|---|
| `Propose` | `propose_remediation` and the operator's `gate_action` |
| `Lookup` | `get_by_idempotency_key`: replay, or refuse as already claimed |
| `CheckCeiling` | `usage()` and `check_ceiling`, read outside a transaction |
| `Refuse`, `CommitRequest` | the refused row and its audit row, committed by `get_connection` |
| `Reserve` | the reservation and `conn.commit()`; the partial unique index is the only check made under the lock |
| `Send`, `Provider*` | `create_refund` and what Razorpay makes of it, which includes a refund made and an answer lost |
| `OnSuccess`, `CommitRequest` | `mark_executed` and its audit row, told to the operator before they are committed |
| `OnUnreadableAnswer` | a 2xx whose body cannot be read, or JSON that is no object where `_describe` words an error: an exception nobody catches |
| `OnRejected` | `mark_failed`, the only release of a reservation |
| `OnUnknown` | timeout, transport error, 5xx or 409: reservation held, audit row committed |
| `LockTimeout` | "database is locked" wherever the next statement writes |
| `Crash` | the process dies; SQLite rolls back what was open |
| `BeginReview`, `CommitReview`, `AbandonReview` | the first gate as this one sees it: it holds the lock for long, and its decision may overwrite an earlier one |

A statement that opens and commits a transaction without waiting in between is one action.
Where a transaction stays open past the handler, the opening and the commit are two actions,
with the lock held between them.

### ReviewGate

`Open` is the read of `human_action` and the guard on it.  On the screen route `RecordAction`
is the UPDATE that takes the lock, and `Deposit`, `DepositFails` and `AuthoringRaises` are
the three ends of the model call made under it.  On the API route `ApiRecord` is the UPDATE
together with the answer, and `ApiCommit` the commit after it.  Precedents carry their
version, the resolution they come from and the request that deposited them.

### Investigation

`st` is the `InvestigationState` LangGraph checkpoints after each node, `node` the node the
checkpoint says is next, `run` how the last `invoke` stands.  A node is one action, except
that the tool loop of `investigate` is one action per tool call, because the process can die
between two model calls; what the loop gathered is lost with it.  A model may answer anything
a prompt can get from it: any resolution code, confident or not, citing any precedents, or
nothing usable.

| Action | Code |
|---|---|
| `Invoke` | `run_investigation`, or `invoke` on a durable graph: `initial_state` merged into what the thread holds (`Restarted`) |
| `RetrievePrecedents` | `classify_kind`, `make_retrieve_precedents` |
| `CallTool`, `FinishInvestigation` | one round of `make_investigate`, and its three ways out |
| `InvestigateRaises` | a tool decision that is JSON but not an object |
| `Propose`, `ProposeFails` | `propose_resolution` and `revise`, which are one function |
| `Verify` with `Route` | `verify` and the conditional edge behind it |
| `Finalize`, `Escalate` | the nodes of that name and the edges behind them |
| `Pause`, `Resume` | the interrupt in `gate`, and `resume_gate` |
| `Crash` | the process dies; a gated graph finds its checkpoint on disk, an ungated one has lost it (`Abandon`) |

LangGraph is not part of the repository.  Assumed of it, from how `graph/` uses it: an input
is merged into the state of the thread through the reducers, so `tool_calls` is appended to
and the fields `initial_state` does not name are kept; a checkpoint is saved after each node;
a resume that raises leaves the case waiting.  `calls` counts model calls for the properties
only and saturates one past the budget.  A case is invoked again only when its last
invocation did not return: nothing in the repository does otherwise.

### Matching

A batch is three sequences, and a record is known by its position.  `next` is the ledger
entry the loop is at; each of `NoPayment`, `Match` and `NoLine` is one turn of the loop, and
`ReportRest` the two loops behind it.  `_find_single_payment_match` tries three codes in
order and takes the first fitting line of the first that has one: `Fits` is the pair of
conditions of a code, `Before` the codes tried earlier, and `Min` the first line.
`captured_at` counts hours, so that payments can be ordered within a day, while the date
windows look at days (`Within`).  The exceptions are a set: the code's list never holds two
equal ones, and no property is about their order.

### Service

`Service` extends `ReviewGate` and runs each of its actions where the process runs it:
`RunOnThread` and `TakeLock` on a pool thread, `OpenRequest` and `EndApiRequest` (the code
behind `yield`) through the event loop, and so only while `loop = "free"`.  A delivery goes
`away -> received -> open -> away`, or by way of `blocked`:

| Action | Code |
|---|---|
| `Deliver` | Razorpay delivers, again when it got no 200, and also when it did |
| `Dismiss` | no event id, or no supported type: acked and forgotten; an unhashable type is a `TypeError`, hence a 500 |
| `Record`, `Unblock` with `Insert` | `insert_if_new` has the lock; the handler returns and the 200 goes out, the transaction still open |
| `Block` | the lock is taken: SQLite sleeps on the event loop |
| `InsertTimeout` | past the busy timeout: 500, nothing stored |
| `CommitDelivery` | `get_connection` commits; `INSERT OR IGNORE` kept the row that was there |
| `OpenRequest`, `Unlock` | the middleware and `/unlock` |
| `Die` | the process dies, once |

The interesting case is a deposit on the API route waiting for the loop to commit while the
loop waits, in `Block`, for the lock that commit would free: only the busy timeout resolves it.

### Throttle

A prompt goes `queued -> waiting -> posted`, then to `backoff` and back, and to `done`.
`Acquire` and `Wait` are the two outcomes of one turn of `acquire`'s loop; `Body` is a readable
answer, whose usage `Corrected` charges to the youngest charge, as `reconcile` does, whoever
made it; `Unreadable`, `Refusal` and `Transient` are the other branches of
`_post_with_retries`, and `Retry` the resend, which asks no throttle.  `spent` is `_spent`
with ages in place of times; `real` is what the provider billed, kept only while every request
has been answered with its usage (`told`).  Time is `Tick`, and a sleep is what is left of it.

### ResponseCache

Files are inodes: `entry` and `temp` are the two names of a question, and a writer holds the
inode it opened, wherever its names have gone meanwhile.  `Look`, `Read`, `Drop`, `Ask`,
`Open`, `Write` and `Rename` are the file operations of `complete()` in order; `Kill` ends all
calls of one run.  `met` remembers, for the properties only, that two calls were between
opening and renaming the temporary file of one question.  Writing over a longer record another call wrote into the same inode leaves
its tail, so `Write` may leave a torn file then.

### ReconciliationCase and Dataset

`ReconciliationCase` holds what the code computes of one case, as operators: `observations()`
by which sentence it states (`Present`, `Invoiced`, `Arrived`), `classify_kind` by the first
sentence it knows, `verify`'s rules (`ClaimHolds`), the rates of `money.py` with their
rounding half up, and the three tools that compute.  A rate counts ten-thousandths, so every
comparison is between whole numbers.

Each builder of `Dataset` is the set of scenarios it may return, with one gold code; random
amounts and times range over `Amounts` and `Times`.  `RunnerSpec` is `Matching`'s specification
over a batch that is a scenario's, or any of the unlabelled ones of the matcher's own checks.
Hours are counted from a day's midnight, so a duplicate minutes later may fall into the next
hour.  What every scenario has in common is assumed of the constants: amounts from 99 to 4,999
rupees, as in `AMOUNT_BUCKETS_PAISE`; a fee of at most a tenth and a tax of at most half of
it; a rounding tolerance of 1 to 100 paise; rates a customer withholds of at least 1.5%, at
which 99 rupees lose more than that tolerance; advances of 250 to 900 rupees; and a date window
that holds the settlement lag of up to two days.

### Split and Experiment

`TestSets` is what `_assign_pool_or_test` may return: how many sightings of a customer and how
many cases of a kind is determined, which ones is the generator's draw.

`Experiment` has two phases.  `ordered` and `cases`, what is worked and what is measured, are
fixed when a run is asked for; `Shuffle`, the order of the deposits, is any permutation of the
scenarios.  While depositing, `Begin`, `Gather`, `Propose` and `Author` are the parts of
`author` for one position of the deposit order, run by `Workers` threads that start in order
(`NextUp`); `DepositingEnds` is `list(pool.map(...))`, which raises at the first position that
did.  `Gather` is the tool loop of `investigate`.  It follows the tool decisions that are
cached and asks for the next ones, up to `MaxToolCalls`.  Losing the model ends it with what it
has, as in the code, so the proposal is then made on less evidence; a cached decision that is
no object raises, and raises again in every rerun.  `Propose` is the proposal with its
revisions and the reviewer's decision: the evidence makes the prompt, so the cache keeps one
answer for each length of it, and a model not reached is an escalation that keeps none.  While measuring, `BeginCase` and `EndCase` are the attempts of an arm,
`ArmEnds` its scoring or the circuit breaker, `ArmRaises` the exception.  `Plan` lists the
arms: three for an ablation, retrieval and control for each snapshot of a replay.  `cache`
keeps, for each scenario, what the model said to each of these prompts: the tool decisions, the
proposal on each evidence, the precedent for each note; `Kill` loses all but that, and `Rerun`
starts over.  Outages during depositing have no breaker: they are
gaps in the sequence (`Author` with `unreachable`).  A replay whose snapshots are all out of
reach raises in `print_report`, which takes the last point of an empty curve, before anything
is written (`Write`); an ablation with `--limit` prints its report and writes nothing.

## Checks

| Run | Instance | What it shows |
|---|---|---|
| `remediation` | 3 requests, two of them for the same refund; 2 workers; ceiling of one refund | `MoneyIsReserved`; `NeverSentTwice`; `AnswersStayTrue`; `FirstGateFirst`; the ledger is implemented; every request ends, and an answered refund is booked unless the process died |
| `remediation_ceiling` | 4 refunds, 2 workers, ceiling of 2 refunds | `OvershootIsBounded`: the unlocked check overruns the count by at most one refund for each other worker, and the money by at most one cap |
| `review` | 2 decisions on one case, 1 on another, both routes | `CorpusIsDense`, `SnapshotsNeverChange`, `PrecedentsAreReviewed`, `AnswersMatchTheStore`, `FinalOnceQuiet`; every review ends |
| `service` | 2 decisions on one case over both routes behind the key; an event delivered signed and unsigned, and one that is not storable; a crash | `GateSpec` (the process implements `ReviewGate`), `FirstCopyStands`, `DeliveriesAreRecorded` although deliveries may block the loop that frees their lock |
| `investigation` | four shapes of case, two precedents, 2 tool calls, 2 revisions, 2 invocations, gated and not | `Budgets`, `AcceptedIsVerified`, `EscalationsNameTheirCause` across a crash and a second invocation; every invocation ends |
| `matching` | every batch of up to 3 payments, 3 lines and 3 entries drawn from three, four and three telling records; every scenario of the builders over five amounts, two times and six real payments | `ConsumedOnce`, `EverythingAccounted`, `LaterPaymentsRejected`, `NoBetterLineLeft`; `RulesAgreeWithGold`, `HintNamesTheClass`, `GoldIsBorneOut` |
| `throttle` | 3 prompts, one larger than the budget, 1 and 2 workers, each kind of client | with one worker `ChargesCoverTheBill` and `PaceIsKept`; with any, every call ends |
| `cache` | 5 calls by 3 runs, one of them uncached, over 2 questions | `SameQuestion`, `TornByTwoWriters` |
| `experiment` | 6 scenarios, 2 held out, 2 workers, one tool call; three replays and two ablations, with a limit and without, two of them started twice | `SnapshotsAreVersions`, `HeldOut`, `ControlDiffersInContent`, `CustomersAreLearnable`, `WrittenIsMeasured`, `Reproduced`; every run ends |

Three more runs show where the code departs from what the repository says of it:

| Run | Statement | What happens |
|---|---|---|
| `ceiling_race` | the ceiling test's `total <= max_total_paise and count <= max_refunds` | two approvals pass the ceiling on the same reading |
| `unaudited_refund` | "a refund with no audit row is money that moved for no recorded reason" | an unreadable answer, or a lock lost after the refund landed, leaves no audit row at all |
| `acked_unrecorded` | "Always acks with 200 once the delivery is durably recorded" | the 200 is out before the commit; a process that dies in between has lost the event |

Further statements of the repository that the code does not keep are written, with their
quotation, at the end of the module they concern; TLC refutes each when it is given as the
property of its module's run.

| Statement | Module | What happens |
|---|---|---|
| `RetryAfter503IsSent` | `Remediation` | the retry a 503 asks for is refused, because the reservation it made holds the key |
| `ReviewsHavePrecedents` | `ReviewGate` | `deposit_precedent` swallows the model's failure and the review commits alone |
| `DepositsAreMade` | `ReviewGate` | the API answers `deposits: true` to a confirmation, and nothing authors a precedent on that route |
| `DecidedOnce` | `ReviewGate` | the check is made before the lock is taken, the UPDATE does not repeat it |
| `NoNodeRaises` | `Investigation` | `investigate` reads a tool decision outside the `try` that parsed it; a JSON list has no `get` |
| `PaymentConsumedOnce` | `Matching` | only bank lines are remembered as consumed; two entries of one order match one payment |
| `RebatesLookArbitrary` | `Dataset` | a rebate of 2.15% lies exactly `ROUND_RATE_TOLERANCE` from 2% and is described as a round proportion, as in the committed scenario `rec_0174` |
| `SpendStaysWithinBudget` | `Throttle` | two workers: an answer that comes after its own charge has left the window lowers the charge of another request |
| `NeverHalfWritten` | `ResponseCache` | two runs that miss on one question write one temporary file, and a torn one is renamed |
| `SnapshotsReproduce` | `Experiment` | the tool loop swallows an outage and the proposal is made on less evidence; the next run gathers more, proposes otherwise and authors another precedent |

Smaller things met on the way: `fetch_ledger_entry` by order returns one entry, and so hides
the second invoice of a split payment from the model; `search_prior_resolutions` speaks of
"some subset" of the payments and tries only all of them; at an invoice of 99 rupees
`compute_expected_amount` finds 1% to match a withholding of 2% as well.

**Bounds.**  Two requests for one intent are the least that race, time out and retry; the
third, for another intent, contends for lock, worker and ceiling.  The number of requests is
the only bound on a behaviour: no counter is capped, and a request is never reused.  The
ceiling run needs one request more than the ceiling and the overrun together (2 + 1), so
that a wider overrun would be seen; its requests are interchangeable, which makes the
symmetry sound (it checks an invariant only).  In `review` the third decision gives the corpus
a second and third version to race for.  In `service` two copies of one event and a
delivery that cannot be stored meet two decisions, one for each route; a delivery comes as
often as it likes.  In `investigation` two tool calls and two revisions (the code has 5 and 2)
tell the first turn of each loop, a middle one and the cap apart, and a second invocation is
the first to meet what another left; the proofs carry every budget and any number of
invocations.  The resolution codes are those `verify` has a rule for and one for the rest, and
confidence is above the threshold or below it.

In `matching` three records of a kind make a duplicate with a bystander, two entries of an
order with a third between them, and a choice of lines with one left over; the records differ
where the matcher looks: a late line, a line and an entry off by the tolerance, a debit,
payments hours apart.  The scenarios take one amount from each bucket of
`AMOUNT_BUCKETS_PAISE`, with the smallest of the first, all real rates, rebate rates and
advances, rounding deltas of both signs up to the tolerance, the smallest real payment, and a
capture an hour before midnight.

In `throttle` a window of two ticks tells a charge inside it from one that has left, two
prompts fit the budget together, and the third only fits an empty window; usage is above and
below the estimate.  Five calls in `cache` are the least with two runs racing on one question,
a run that bypasses the cache, and a second question.  In `experiment` one customer is seen
twice, a kind has two cases, a snapshot lies before, at and beyond the end of the sequence,
and the breaker (more than one case, and more than 34 of a hundred; the code has 3 and 15) can
trip and not trip.  One tool call (the code has 5) lets a loop lose the model before and after
it has gathered something, a second code lets a proposal be wrong, and the reviewer declines
one of two cases.  Two starts of a run are what `Reproduced` compares.

Deadlock is not checked: requests, deliveries, calls and runs are finite in
number, and each system rightly stops when all have ended.

**Fairness.**  Weak fairness of each handler: a pool thread runs until its handler returns,
the HTTP client has a timeout and SQLite's lock wait has one, so no step waits for ever.
Operators, the reviews inside `Remediation`, the provider of refunds and crashes are given no
fairness: nothing in the code makes them act.  In `ReviewGate` the model call ends because the
client times out.  In `Service` fairness is strong, because the event loop is taken again and
again: a callback that is ready is queued and run in its turn, and SQLite's waiting thread
polls; `Redeliver` is Razorpay's promise to deliver again what was not acknowledged.  In
`Investigation` fairness is on `GraphStep` alone, the process running the graph on; nobody has
to invoke or resume a case.  In `Throttle` time passes, threads run, and the provider answers
or the request times out.  In `Experiment` the process goes on until it ends or is killed;
nobody has to start it again.

**Mutants.**  For each property of a passing run `PROJECT.json` names a mutated form of one
definition, written beside it, that TLC finds to violate it: a dropped index, a reservation
released on a timeout, a guard not looked at, a commit left out, a version counted by
completion, a charge corrected downwards only.

## Proofs

`RemediationProofs` proves, for every finite set of requests, every ceiling and every number
of workers:

* `TypeCorrect`, the type invariant, and `ReservationPrecedesMoney`, `NoSecondCall`,
  `ToldTheTruth`, `NoCallWithoutReview`: the safety properties of the run `remediation`;
* `LedgerImplemented`: `Spec => Ledger!LedgerSpec`;
* `OvershootBounded`: at most `MaxRefunds + Workers - 1` live rows, worth at most
  `MaxTotal + (Workers - 1) * MaxSingle`.

None of these properties is inductive.  A reservation outlives the call only because of how
three things go together, and the invariant `IInv` says how: `RowFits` ties the place of a
handler to its row and to the fate of its call (a row is `approved` from the reservation
until the answer is booked; a row that is `failed` had its call rejected); `AnswerFits` ties
what was told to what it was told on; `MovedByACall` says that a refund that was made has a
call to show for it; `OneLiveClaim` is the unique index.  With these, a call on the wire has
a live row, two such calls of one intent would need two live rows, and a rejected call's
release cannot undo a refund: the call that made it would hold the same key.

The refinement reads the claim of a resolution off its one live row (`ClaimByRow`); each of
`Reserve`, `Provider`, `OnRejected` and `CommitRequest` maps to one ledger step or to a
stutter, and every other step leaves rows and money alone.  The overrun bound strengthens
`CountOvershoot` to the rows that are live together with the requests past the check
(`CountInv`): a request that passes saw fewer than `MaxRefunds` live rows, and those past the
check with it are handlers, of which there are at most `Workers`.  The bound in money
(`MoneyInv`) is the same argument over sums: what the others past the check are worth is at
most one cap each, because the check refused anything larger.

Assumed of the constants: `IntentOf` and `Amount` are functions into resolutions and positive
paise, the requests are a finite set, `"free"` and `"review"` are not requests, and the
ceilings are numbers with the single cap inside the total, as `RemediationCeiling` demands.

`ServiceProofs` first proves of `ReviewGate`, for every finite set of requests and every
assignment of requests to resolutions, the five safety properties of the run `review`. Its
invariant `IInv` has three parts beside the types. `DenseInv` counts: the versions in use are
`1..n` where n precedents are stored, so the version a deposit computes under the lock (one
more than the largest) is both free and the next one. `ActionKnown` says that a handler past
its first read carries an action of its own, and that a decision on record came from a request.
`AnswerInv` ties an answer to the handler that gave it: "deposited" is told only by one whose
precedent is stored, "nothing deposited" by one that left an audit row alone, a refusal, an
error or a plain "recorded" by one that left neither.  The API's `deposits: true` is not among
these answers, since nothing keeps it (`DepositsAreMade`). `FinalOnceQuiet` is then a theorem about consecutive states: a decision
that is not to change changes only by a handler that opened the case before it was made.

`InvestigationProofs` proves the four safety properties of the run `investigation`, for every
case and corpus, every cap and every bound on invocations.  Its invariant says what a place in
the graph implies: how many model calls can have been made on the way there, that past
`verify` the flag and the proposal belong together, and that an escalated state between
`propose_resolution` and `escalate` carries the code of the model call that failed in this
invocation.  `reason_code` alone is not enough, since `initial_state` leaves it behind; the
proof goes through because it resets `escalated`, which `escalate` looks at first.

`MatchingProofs` proves, for every batch of any length, the four properties of the run
`matching` that are about the matcher alone.  Its invariant speaks of the entries looked at so
far: a match settles one of them with the earliest payment of its order (`MatchInv`), the
unresolved payments are exactly the rest (`RejectInv`), the exceptions are of two kinds
(`ExceptionInv`, `OrphanInv`), and no line still available could have served one of them
better (`GreedyInv`).  The lemma behind most of it is `OneOrder`: entries that share a payment
share the order, so they agree on the earliest payment, and a payment one entry matches is
never a duplicate another rejects.  That a payment is matched at most once cannot be proved:
`PaymentConsumedOnce` is false.

The other three are about what the matcher and the case say of a labelled scenario, and are
theorems of `RunnerSpec` over `DatasetAssumption`. `FitInv` adds to the invariant that the line
of a match fits its entry under the code it was found by, and `ReportInv` that what is reported
in the end is nothing but duplicates, entries without a payment, payments without a match and
lines nobody claimed; `LabelInv` that the batch stays the scenario's. `RulesAgree` then goes
builder by builder: what falls short does so by more than the tolerance, two payments cannot
both fit one line, and what arrived is matched because nothing available was better.
`HintsAreRight` needs that an advance is like no round rate of its invoice, so that
`_advance_clear_of_round_rates` finds a step within its forty tries (`ClearStepExists`): the
bands around the rates are 80 ten-thousandths of the invoice wide, which steps of five rupees
cross in time, and lie further apart than a step. `GoldHolds` is about rounding half up: what
was grossed up from a net amount comes back within a paisa.

`ServiceProofs` proves that the process implements the first gate (`ServiceImplementsGate`):
every step of `Service` is a step of `ReviewGate` or leaves its variables alone, whatever
deliveries, blocked loops, locked browsers and crashes come between.  The theorems of
`ReviewGate` hold of the process for that reason, and `GateInvariants` and `GateSteps`
say so.  Of the receiver, `FirstCopyKept` shows that what the first copy of an event wrote is
never changed, and `AckedHasItsRow` that the gap the run `acked_unrecorded` shows is the only
one: a storable delivery that was acked and is over has its row, unless the process died.  The
invariant behind both (`ServiceInv`) says that an open delivery is storable and that the loop
is held only by a blocked one.  Assumed is `ServiceAssumption` beside the assumption of
`ReviewGate`: the constants have their types, and "none" and "free" name no event and no
delivery.

`ResponseCacheProofs` proves both properties of the run `cache`, for any number of runs, calls
and questions.  `HitsAreForTheQuestion` rests on an invariant about files and not about names
(`QInv`): a file carries one question from its creation on, under whatever names it goes and
whoever writes to it, so it does not matter which of two racing renames wins.
`TornEntriesHadTwoWriters` needs a second one (`WInv`): a file that is in use was opened by the
call that created it (`CreatorsOpened`), two calls at work on one question have met
(`WritersMeet`), and as long as none have, the one at work has the temporary file to itself, as
it left it (`SoloWriter`), and that file is not the entry (`EntryStandsApart`).  Assumed is `CacheAssumption`: each
call belongs to a run and asks a question, and calls and questions are told apart.

`ThrottleProofs` proves `ChargesCoverTheBill` and `PaceIsKept`, for any prompts, estimates,
usage, budget, window and number of attempts.  That the sums compare is not inductive, since a
charge leaves the window in one step with its bill; the invariant `EachTickIsCovered` says it
tick by tick, of the charges that have had their answer.  It holds with one worker because
the youngest charge is then that of the request on the wire (`ChargedAsSent`), so `reconcile`
corrects the charge it means to; `OneAtATime` says that one worker has one prompt in hand.
With two workers it is false, as `SpendStaysWithinBudget` shows.

`ExperimentProofs` proves the six safety properties of the run `experiment`, for every dataset
and split, ranking, plan of snapshots and number of workers and runs.  Its invariant is that
everything is a function of what stands still: a result of an arm, of the deposit sequence
(`ResultsFit`); an entry of that sequence, of its position, the reviewer's draw, the evidence
its tool loop came to and what the cache holds of the prompts asked on the way (`EntryFits`).
The cache only grows (`CacheGrows`): a loop that was ended stays ended where it was, and a
prompt that was answered keeps its answer.  The same is kept of the run before, so two runs
decline the same positions, gather the same where neither loop lost the model, and on the same
evidence agree wherever both reached the model, which is `RunsReproduce`.  More is not true, as
`SnapshotsReproduce` shows.
`ControlIsMatched` shows that the random control retrieves as many notes as the ranking does,
and `CustomersOnBothSidesOfACurve` that a customer seen more than once has their first sighting
among the deposits and a later one among the cases measured, and that the test set has its
size; for the size it needs that the largest remainders hand out exactly the places
rounding down left (`AllPlacesGiven`, `TestSetSized`).  Assumed are `SplitAssumption`,
`SlotsAssumption` (the customers leave places, and no more than the rest can fill, as
`CLASS_COUNTS` has it), and `ExperimentAssumption`: seeds are no scenarios, relevance is a
number, `Shuffle` is a permutation, the bounds are numbers, and a wrong code is none of the words
for another end of an investigation.

The library's induction theorems take an operator, which the provers cannot instantiate, so
`FiniteFacts` states induction about sets: a set that holds zero and with each number its
successor holds every number, and a collection of subsets that holds the empty one and grows
by one element at a time holds every finite subset.  Sums are the community modules' fold,
unfolded by its definition: a sum takes one element at a time in any order
(`SumTakesOne`), and from that follow unions, parts, classes and bounds.

**Only model-checked.**  Every safety property of every passing run has a theorem.  Liveness has
none (`RequestsEnd`, `RefundsAreBooked`, `ReviewsEnd`, `DeliveriesAreRecorded`,
`InvocationsEnd`, `CallsEnd`, `RunsEnd`), because fairness and ENABLED are out of the provers'
reach; TLC checks it on the instances above.

## Not modelled

* The one-shot resolver `usecases/resolve.py`: a straight line without state whose routes are
  those of `Propose`, `ProposeFails` and `Finalize` in `Investigation`.
* The three tools that only look a record up: their result is evidence for a model that may
  answer anything in any case.  The texts of observations, prompts, precedents and notes,
  except for what the properties tell apart in them (which sentence is stated, whether a note
  is the precedent or the control).
* Confidence values, retrieval scores, the dense and hybrid retrievers, the scoring of arms and
  the McNemar tests: floating-point computations over what is modelled.  `Experiment` is given
  any ranking and shows what is retrieved from it; `Investigation` tells confident from not.
* The Ollama client (one request, no retry) and the scripted clients of the tests.
* The screens, reports, charts, scripts, configuration, logging and wording: sequential, and
  they change nothing the models speak of.  The repositories of payments, bank lines and ledger
  entries are inserts and reads.
* `processed_at` of a stored event: nothing calls `mark_processed`.
* What LangGraph does with a resume nobody waits for: not visible in the source.
* The two gates are not composed.  `Remediation` lets any decision overwrite any other at any
  time, which is more than the first gate can do, so its safety properties hold for what the
  first gate can do too; a resolution's payment and amount are taken as fixed, because the
  service does not write the tables they are computed from.

## Plan

The order of work was: the gates, because money and corpus depend on them
(`RefundLedger`, `Remediation`, `ReviewGate` and their proofs); the case and the batch
(`Investigation`, `Matching`); the process around the first gate (`Service`); what the agent is
told and judged by (`ReconciliationCase`, `Dataset`); what it is measured with (`Throttle`,
`ResponseCache`, `Split`, `Experiment`).  All of it is done, and every safety property of a passing
run is proved.
Left, in order of worth:

1. A composition of `Service` and `Remediation`, with the decisions a refund reads made by the
   first gate of the same process: what a decision recorded while a refund is under way can and
   cannot change.
2. An abstract case (proposed, then decided or escalated, once) that `Investigation` implements.
3. The one-shot resolver beside the graph: the same proposals, the same routes.
4. Matches carried to refunds, which would relate the two orders of duplicates.
