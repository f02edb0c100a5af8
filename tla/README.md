# Resolve-E, specified

A TLA+ development of Resolve-E (`src/backend/app`): the service that calls
suppliers about overdue purchase-order acknowledgements and decides from what
they said. It models how calls are planned, placed, answered for and decided
upon by several processes over one database, checks the models with TLC, and
proves the central safety properties with TLAPS.

Line references are to files below `src/`, `app/` stands for `src/backend/app/`.

## 1. The system

| Part | State it keeps | Operations | Works with |
|---|---|---|---|
| Exception state machine, `app/domain/state_machine.py` | none (a table) | `can_transition`, `is_terminal` | every transition |
| Call orchestrator, `app/services/call_orchestrator.py`, with `attempt_policy`, `call_eligibility`, `disclosure` | exceptions, runs, attempts, batches | `plan_batch`, `dispatch_batch`, `_refuse` | called by the API and the scanner; calls the provider between two commits |
| Result processor, `app/services/result_processor.py` | exceptions, attempts, batches, opt-out flag | `process_terminal_call`, `_process_attempt`, `_apply` | called by reconciliation; calls the decision engine |
| Reconciliation, `app/services/reconciliation_service.py` | RECONCILING marks | `reconcile_call`, `sweep_stale_calls`, `mark_reconciling`, `_return_to_calling` | called by the outbox and the sweep; asks the provider |
| Worker loops, `app/workers/runner.py` | outbox rows | `scan_exceptions`, `drain_outbox`, `reconcile_stale` | three loops, each a thread with its own session |
| Webhook intake, `app/api/routes.py` | webhook events, outbox rows | `calle_webhook` | the provider delivers at least once, in any order |
| Repositories, `app/db/repositories.py` | all tables | version-checked transitions, `FOR UPDATE SKIP LOCKED`, selection queries | everything above |
| Decision engine, `app/policies/` | none (pure) | `decide`, `validate_recipient_result`, `confidence_permits_resolution`, `parse_ship_date` | called by the result processor |
| Provider layer, `app/services/provider.py`, `app/adapters/calle/` | the simulator's memory, per process | `select_provider`, `create_call`, `get_call`, `_provider_for` | SDK, raw HTTP client, simulator |
| Read API, CLI, dashboard, skill, migrations, scripts | none the workflow depends on | display and drive the API | |

What is hard here, and what each part must get right:

* **The provider request sits between two commits.** A process may die, lose
  the answer, or be overtaken on either side of it. Nobody may be dialled more
  than the budget allows, or twice for one attempt; whoever is shown as on a
  call must be on one that somebody will ask about.
* **Several writers per exception.** API requests, the scanner, the outbox, the
  sweep and a person hold what they read of a row while others commit. A
  settled exception must stay settled, and an opt-out must be final.
* **Results arrive late, twice, or never.** A result must be credited to the
  supplier it is about; the sweep alone must bring every call to an end.
* **One batch, many suppliers.** One member's refusal or failure must not
  leave the others behind.
* **Precedence in the engine.** Thirteen branches; confidence may withhold but
  never grant, and a "do not call again" outranks everything that follows.
* **Which provider.** Settings and simulators differ between processes; a
  create may be received after its sender gave up.

`PROJECT.json` lists each such hazard at the line where it bites, with the
properties that watch it.

## 2. Modules

```
StateMachine <- Verdicts <- CallWorkflow <- MCCallWorkflow, CallWorkflow_proofs
     ^             ^------ DecisionEngine <- DecisionEngine_proofs
     |             ^------ CallPolicy <- MCCallPolicy, CallPolicy_proofs
     |--- Lifecycle  (instantiated by CallWorkflow with a refinement mapping)
CallWorkflow_proofs <- CallWorkflow_safety_proofs <- CallWorkflow_refinement_proofs
                                                  <- CallWorkflow_claims_proofs
Delivery <- MCDelivery, Delivery_proofs
ProviderClient <- MCProviderClient, ProviderClient_proofs
```

### `StateMachine`, `Verdicts`

The exception states, the edges of `_EXCEPTION_EDGES` and the terminal states;
the classes of answer a finished call can give of one supplier (`AllOutcomes`)
and the state each leads to (`DecisionState`). `CallWorkflow` uses the classes;
`DecisionEngine` checks (`OutcomesAreFaithful`) that deciding by class is what
`decide()` does with every concrete answer of that class. This is the seam
between the two models.

### `Lifecycle`, the contract

What an exception goes through, whoever does it: planned only from OPEN or
RETRY_PENDING, dialled at most `MaxAttempts` times, shown as CALLING only when a
call exists, resolved only as something a call reported, terminal for ever.
`CallWorkflow` implements it under the mapping of `Contract`: the committed
state, the set of calls placed to the supplier, and what they reported.

### `CallWorkflow`, the core

| Variable | Code |
|---|---|
| `exc` | `ExceptionRecord.state`, `.version`, `.recipient_blocklisted` |
| `run`, `count`, `att`, `rid` | the run's state, the attempts counted, `CallAttempt.status`, attempts with a `provider_recipient_id` |
| `batch`, `linked` | `CallBatch.status`, batches with a `provider_call_id` |
| `outbox` | `OutboxMessage.status` per call and webhook event |
| `call`, `slice` | the provider: calls by idempotency key, what each says of each attempt |
| `flying` | creates their sender has given up (a timeout, a crash) that may still reach the provider |
| `disp` | an API request or the scanner between its two commits |
| `wk` | an outbox or sweep worker: call in hand, uncommitted RECONCILING marks (row locks), rows read |

A batch is named by its idempotency key, which is its content: the function
from its exceptions to their attempt numbers (`compute_batch_idempotency_key`).

A database transaction is one step; what a process carries over a provider
request, or from a read to its write, makes a step on each side.

* Planning (`PlanBatch`, `PlanRefused`, `PlanBlocked`, `PlanUnconfigured`) is
  `plan_batch` with `dispatch_batch` up to its first commit.
* `CreateAccepted`, `CreateFailed`, `DispatcherCrash` are `create_call` as its
  caller sees it. A create that failed may have placed its call, only the answer
  being lost, or be given up on its way (`GiveUp`). One that was given up may
  land at any later time, after a retry of the same supplier, an answer or a
  person's decision, or never (`CreateLands`).
* `RecordDispatched`, `RecordCutShort`, `RecordRolledBack` are the second
  transaction, complete, cut short and committed (the scanner), or rolled back
  (an API request).
* `OutboxClaim`, `OutboxUnknownCall`, `SweepMark`, `SweepFetched`,
  `SweepStillRunning`, `SweepReturns`, `SweepFetchFailed` are the two paths to
  `reconcile_call`; `ReadLater` lets the rows of a batch be read at different
  times; `ApplyResults`, `ApplyCutShort` are `process_terminal_call`;
  `WorkerCrash` is any rollback.
* `FinishCall`, `Webhook` are the provider; `OperatorSettles` is a person.

Abstractions, and why they keep what the properties see:

* *Time.* Overdue dates, quiet hours and backoff decide whether a pass looks at
  an exception now; the model lets a pass choose any set of those otherwise
  admissible, which includes every choice the clock makes. A retry is therefore
  possible at once, a superset of the real behaviours for safety. For liveness
  nothing depends on a pass being made. Time is `CallPolicy`'s subject.
* *Transactions of several messages or batches.* One message per outbox
  transaction and one batch per sweep transaction. `drain_outbox` and
  `sweep_stale_calls` may hold several in one; the locks this takes, what waits
  for them and what is rolled back together are `Delivery`'s subject.
* *Unexpected errors.* A deadlock abort, a database error or an exception
  outside `ResolveEError` rolls a transaction back: `WorkerCrash` and
  `DispatcherCrash`.
* *Redelivery* of the same webhook event finds its row and changes nothing, so
  it is not a step; two deliveries at a time race in `Delivery`. An outbox message whose fetch fails stays PENDING, also not
  a step. Only terminal events are sent, and `get_call` agrees with them.
* *What a dispatcher re-reads.* The scanner keeps its list of candidates, so
  its records are those it planned. An API request holds no reference, and
  SQLAlchemy's identity map is weak: it may see either (`fresh`).
* `batch_by_idempotency_key` never finds a row, as an attempt number is always
  new; the reuse branch is unreachable and left out. `reconciliation_available`
  is always FALSE in production, so the decision RECONCILE occurs only in
  `DecisionEngine`.
* The same id twice in one `ResolveRequest` is not modelled.
* `Readiness` holds the values `disclosure_ready` takes across deployments;
  `ShortReplies` allows create responses with fewer recipient ids than sent.

### `Delivery`

How a finished call reaches the database: the webhook receiver, the outbox
drains and the sweeps, one statement at a time. `CallWorkflow` takes such a
transaction in one or two steps; here a pass has several items, a row is locked
when it is written and until the pass ends, and an `UPDATE` that meets a lock
waits and then compares the version it read before the wait.

| Variable | Code |
|---|---|
| `over` | the provider: how each call ended |
| `status`, `aged` | `CallBatch.status` (UNKNOWN until `provider_call_id` is stored), and whether `dispatched_at` is older than `reconciliation_after_seconds` |
| `place` | `ExceptionRecord.state`, with every terminal state in one |
| `msg`, `delayed` | the `WebhookEvent` row with its `OutboxMessage.status`; whether `available_at` lies ahead |
| `hand` | requests to `calle_webhook` between look-up, insert and commit |
| `wk` | open transactions of `drain_outbox` and `sweep_stale_calls`: items to do, the item in hand, rows left to write, the row waited for, what was written (`draft`, `closes`, `done`, `failed`) |

* `Receive`, `Insert`, `InsertRefused`, `CommitEvent`, `HandlerCrash` are
  `calle_webhook` with `register_webhook_event` and `enqueue`: the unique index
  decides between two deliveries that both looked before either inserted.
* `Claim`, `TakeMessage` are `claim_outbox` and the loop of `drain_outbox`;
  `Sweep`, `TakeBatch` those of `sweep_stale_calls`.
* `WriteRow`, `AwaitRow`, `WriteAwaited`, `Conflict`, `PassBy`, `ApplyRefused`
  are `transition_exception` as the phases `mark_reconciling` (`"fetch"`),
  `_return_to_calling` (`"return"`) and `process_terminal_call` (`"apply"`) use
  it. A conflict is swallowed in the last, gives up the item in the second, and
  in the first, which stands outside the sweep's `try`, rolls the pass back.
* `CloseBatch`, `AwaitBatch` are `persist_call_snapshot`: the batch row has no
  version. `Commit` publishes a whole pass. `DeadlockAbort` is PostgreSQL's.

Abstractions. A lock that comes free goes to who waits for it, as PostgreSQL's
queue does it. A call has one outcome for all of its members. Whether a
released exception is dialled again is `CallWorkflow`'s subject, so an exception
is on one call here. Only live calls: a simulated one also rewrites
`mock_payload` on its batch row. The delivery of an event is optional, so one
acknowledged before its commit, which then fails, is one that was never
delivered: from FastAPI 0.118 on, which `fastapi>=0.115` admits, the reply leaves
before `get_db` commits. The Redis lock is advisory by its docstring and taken to
hold nobody up. `FetchFailed` stands for any error the loops expect.

### `CallPolicy`

Whom a pass may call, and when: the selection, eligibility and budget rules
against a clock, without the interleavings of `CallWorkflow`.

| Variable | Code |
|---|---|
| `quiet` | `PolicySettings.enforce_quiet_hours`, `quiet_hours_start`, `quiet_hours_end` |
| `hour` | `now.hour` of the pass, which is in UTC |
| `due` | exceptions whose `ack_due_at` has passed; they are numbered in its order |
| `state`, `count`, `last`, `stamped` | `ExceptionRecord.state` (CALLING stands for RECONCILING too), the attempts counted, status and presence of `dispatched_at` of the last |
| `since` | time since a dispatch of the exception was last recorded |
| `hands` | dispatches between their two commits |

* `Eligibility` is `call_eligibility.evaluate`, `Budget` is
  `attempt_policy.evaluate`, `BackoffFor` is `backoff_minutes_for`; `Plan` is
  `plan_batch` with `dispatch_batch` up to its first commit.
* `Scan` plans the candidates of `find_callable_exceptions`, in order and up to
  its limit; `Trigger` any set a person names.
* `Dispatch`, `CreateFails`, `DispatcherDies`, `CallEnds`: what becomes of it.

Abstractions. An exception in one dispatch is not planned by another: what
overlapping dispatches do is `CallWorkflow`'s subject, and `RetriesAreSpaced`
is about dispatches that were recorded; a call whose answer was lost is not one.
Opt-outs and the disclosure gate are in `CallWorkflow`. A tick of the clock is
both an hour of the day and a unit of the schedule. The two reasons for a bad
number are one.

### `DecisionEngine`

`decide()` as a function of a case: the exception's state and attempts, the
call's status and self-assessment, and the recipient's slice. An answer carries
every enumerated field; a free-text ship date is the day it parses to, or none;
`conforms` stands for the schema re-validation. `Judge` considers one case.
The module is a table, so its runs enumerate inputs and there is no history.

### `ProviderClient`

One create, from the choice of a provider to the recorded answer, in detail
that `CallWorkflow` abstracts to "accepted", "failed" or "died".

| Variable | Code |
|---|---|
| `settings` | the settings each process was started with (`CALLE_LIVE_CALLS`, a key, `CALLE_USE_SDK`) |
| `batch` | `CallBatch.status`, `.is_live`, whether `mock_payload` is stored |
| `work` | the `create_call` a process is in, its tries and the last answer |
| `flying`, `placed` | requests under way, possibly abandoned by their sender; calls the provider holds |
| `mocked` | each process's simulator, lost on restart |
| `asked` | the last `reconcile_call`: whom it asked and whether they knew the call |

The raw client retries rate limits and server errors three times under one key;
the SDK client sends once. A number's E.164 check always passes here, since
eligibility has validated it. The simulator's deferred calls are a test aid
(`defer_terminal` is set by no production code) and left out. A reply with an
unreadable body is modelled for the raw client, which parses it; the SDK does
its own parsing, outside the repository.

## 3. Runs

| Run | Question | Bounds and why they suffice |
|---|---|---|
| `one_exception` | Types, budget, final states, opt-outs, and the contract, with every fault, a create that lands after its sender gave up among them | 1 exception, 2 attempts, 1 API, 1 outbox worker, 1 sweeper, 1 event: a retry, a webhook racing a sweep, and an operator all fit |
| `scanner_batch` | Attribution between suppliers sharing a call; is who is shown as on a call on their latest, unanswered one | 2 exceptions, 2 attempts, symmetric; every split into batches |
| `late_results` | Claims, live calls, the disclosure gate, with only scanners planning | 2 exceptions, one with a sensitive note, 3 attempts so that a late result of the first call can release the exception for a third while the second runs, 2 scanners |
| `sweep_liveness` | Does everything end without webhooks | 1 exception, 2 attempts, 2 inconclusive sweeps, short replies, missing slices, deployments with and without `BUYER_COMPANY` |
| `decision_engine` | Every class of answer | budget 2, scores 59 and 60 around the threshold 60, slips of 1 and 2 days around 36 hours, a terminal and a non-terminal state |
| `provider_client` | Selection, retries, ownership | 3 batches, one off the allowlist, 2 processes, 4 deployments, 2 restarts, 3 tries |
| `delivery` | Processed once, results with their batch, settled is final; every batch closes and every message is dealt with | 2 calls, each announced by an event of its own. The first, to two suppliers, releases them, and two requests may bring its event at once; the second, to one, settles it. 1 drain, which may claim both messages in one transaction, 1 sweep that takes both batches in one pass, 1 fault: a conflict in each of the three phases, a deadlock between batch and exception rows, a failed item beside a good one, and a message that comes back after its backoff while the other is in hand all occur |
| `call_policy` | Quiet hours, spacing of retries, no escalation for waiting, and nobody waits for ever | 3 exceptions of which one has no usable number, a scan of one at a time, 3 attempts on the schedule 0, 1, 2, a day of 3 ticks; spans that wrap midnight, that do not, that are empty, and not enforced |

Every bound is a constant named in its module: `MaxAttempts`, `MaxBatch`,
`ClaimLimit`, `Limit` and `MaxCreateAttempts` are the program's own limits;
`MaxPolls` (inconclusive sweeps), `Carriers` (which requests may bring an event), `MaxRestarts`, `MaxFaults` (crashes and failed
fetches) and `LongAgo` (where time since a dispatch stops being counted, past
the longest wait) exist to keep the state space finite. Versions grow
without a bound of their own and are bounded by the others. `Slots` has one
attempt number beyond the budget, so that overspending it would be visible.

Deadlock is not checked: the system rests when all exceptions are settled or
waiting for a person.

Symmetry is used for interchangeable exceptions, scanners, processes or batches in safety
runs only. No run of `CallWorkflow` has a supplier without a usable number
(`BadContact`): that refusal is the same step (`PlanRefused`) as an exhausted
budget's or an opt-out's, and `call_policy` has one.

### Disagreements between the code and its documents

Four runs check what a document, docstring or comment says, and TLC finds it
violated by what the code does. `PROJECT.json` quotes the sentences.

| Run | Promise | What happens |
|---|---|---|
| `retried_trigger` | a second trigger is refused | after a lost answer the second trigger takes a new attempt number, so a new key, so a second call. For the same reason two batches can claim one supplier: the locks end at the commit before the create, and a manual trigger plans it again while the first create is in flight |
| `duplicate_result` | a duplicate result is a no-op | a late event of a settled call is applied to the exception, now on its next call |
| `webhook_and_sweep` | never a stuck workflow | a swallowed version conflict after the batch was closed leaves the exception in CALLING |
| `create_timeout` | a timed-out create is retried under the same key | the raw client's timeout escapes its own retry loop; the SDK's ends the dispatch |

The passing runs state the same properties where they do hold:
`late_results` shows that disjoint claims and one live call hold as long as only
scanners plan; `sweep_liveness` shows that without webhooks every call ends.

## 4. Fairness

`CallWorkflow`'s `FairSpec` is used by `sweep_liveness` and `webhook_and_sweep`
only.

* Weak fairness of `FinishCall`: the provider ends its calls.
* Strong fairness of the sweep's marking, fetching and returning, of the
  outbox's claim, and of applying: `_loop` runs for ever, logs whatever its body
  raises and goes on, and the container restarts a dead worker. Strong, because
  a crash or a lock held by another disables such a step for a while, and the
  loop tries again.
* No fairness of planning, dispatching, webhooks, operators, crashes or creates
  that were given up: nobody has to trigger a call, a dispatcher may die, a
  webhook may be lost, a request that timed out may never arrive. The
  promise is about calls that were recorded as dispatched.
* Inconclusive sweeps are bounded by `MaxPolls`: a provider that never says
  "terminal" is not asked of the sweep to overcome.

`Delivery`: weak fairness of each worker's progress, which includes PostgreSQL
ending it in a deadlock, of calls ending and batches ageing, and of each message's
backoff elapsing. Weak is enough because faults are bounded by `MaxFaults` and a
lock goes to who waits for it. One thing fairness does not exclude, and
`BacklogClears` names it (`DeadlocksRecur`): a sweep locks exceptions before their
batch and a drain the batch first, so that the two can end in a deadlock again
and again, if each begins anew at once whenever it is the victim. What prevents
it in the program is the pause of 2 seconds between drains and 15 between sweeps,
which the model leaves out. Nothing is assumed of the receiver, the dispatcher or
the provider's deliveries. `BacklogClears` does not wait for a message whose
batch another path has closed and whose exceptions it released (`Overtaken`):
applying its result again is an illegal transition, so the message is put back
every 300 seconds.

`CallPolicy`: strong fairness of the scan, which comes round every few seconds
(`scanner_interval_seconds`, 10 by default) and so meets every stretch in which
somebody may be called; weak fairness of time, of calls ending and of a dispatch
being answered or dying. Every span of quiet hours ends, as
one whose start and end are equal is empty in the code.

## 5. Proofs

For all values of the constants allowed by the named assumptions:

| Theorem | Says | Argument |
|---|---|---|
| `TypeCorrect` | `Spec => []TypeOK` (`CallWorkflow`) | inductive as it stands; one lemma per group of actions. The bound on `count` follows because `Ready` demands `count < MaxAttempts` |
| `ClaimsHold` | `[]AttemptsClaimedOnce` | the inductive invariant of the core, with `TypeOK` |
| `AttemptsAreCalledOnce` | `[]OneCallPerAttempt` | two calls sharing an attempt would be two batches naming it |
| `DialBudget` | `[]DialsWithinBudget` | calls to a supplier map one-to-one to attempt numbers in `1..count`, and `count <= MaxAttempts` |
| `InvariantHolds` | `[]Inv`, the invariant of what follows | see below |
| `TerminalStatesAreFinal` | `TerminalIsFinal` | every change of a row is one of the moves of `RowMove`, and none leaves a terminal state |
| `AwaitingCallIsStored` | `[]AwaitingHasCall` | the one move into CALLING from elsewhere is made by the step that stores a call |
| `EvidenceIsOwn` | `[]ResolvedOnOwnEvidence` | a move to RESOLVED names the call that supports it, and a call's word never changes (`EvidenceKept`) |
| `ClosedBatchesAreOver` | `[]ClosedOnlyWhenOver` | a worker closes a batch with an ended call in hand |
| `UnfitAreNotDialled` | `[]NoUnfitDial` | planning puts nobody unfit in a batch, and calls follow batches |
| `WorkflowImplementsLifecycle` | `ImplementsLifecycle` | step by step: a row moves along the contract's edges, a create that arrives, in time or late, is one dial within the budget, the end of a call is heard once by each member |
| `ClaimsAreDisjoint` | `[]DisjointClaims`, if `OneAtATime` | a dispatcher has its members' latest attempts in hand (`Current`), and two batches never name one attempt |
| `OneCallAtATime` | `[]OneLiveCall`, if nobody triggers by hand and replies are complete | a call that runs, or whose given-up create may still start it, is of its members' latest attempts (`LiveCalls`) |
| `OptOutsAreRespected` | `NoDialAfterOptOut`, if `OneAtATime` | once an opt-out is recorded nobody asks for a call to its recipient; one that starts all the same is of a create given up before. An attempt is followed by another only when its answer was applied (`Heard`), so no dispatcher has in hand who opted out (`Willing`) |
| `AwaitingIsOnItsCall` | `[]AwaitingIsUnanswered`, if `Orderly` | what the one worker has read of such a row is the row (`UpToDate`), so the row leaves CALLING with its answer |
| `ResolutionNeedsEvidence` | `[]ResolvesOnFullEvidence` (`DecisionEngine`) | case by case over the branches that can resolve |
| `EveryCaseIsDecided` | `[]TypeOK` (`DecisionEngine`) | branch by branch |
| `ConfidenceNeverGrants` | `[]ConfidenceOnlyWithholds` | two judgments of one call differ in the confidence gate alone, and the gate yields a person |
| `TheirWordHolds` | `[]NobodyIsRedialledAgainstTheirWord` | a wish for a person is the first branch behind a usable result |
| `ClassesAreFaithful` | `[]OutcomesAreFaithful` | the engine's branches, in their order, are the classes of `OutcomeOf`; so `CallWorkflow` loses nothing by exploring classes only |
| `OneCallPerBatchAlways` | `[]OneCallPerBatch` (`ProviderClient`) | every request, flying or placed, carries its batch's one key |
| `OnlyListedIsDialledAlways` | `[]OnlyListedIsDialled` | a process that posts works for a listed row |
| `IsLiveIsTruthfulAlways` | `[]IsLiveIsTruthful` | the mark is committed before the request leaves and never changes; a row is recorded as dispatched only with its call in hand |
| `OwnerIsAskedAlways` | `[]OwnerIsAsked` | a batch once dispatched keeps its mark, and a simulated one its payload, so whoever asks later finds the holder |
| `DefiniteErrorsAreFinal` | `DefiniteErrorsEndTheCreate` | only the create's own answer moves it on, and definite errors are not retried |
| `TypeCorrect` | `[]TypeOK` (`ProviderClient`) | a create that is about to send has a try left |
| `TypeCorrect` | `[]TypeOK` (`CallPolicy`) | from the invariant below |
| `SpacedAlways` | `RetriesAreSpaced` | an attempt without `dispatched_at` was planned after a wait that is still over |
| `QuietHoursKeptAlways` | `QuietHoursAreKept` | the code's two comparisons are the round-the-clock interval, for any length of day |
| `WaitingStaysQueued` | `WaitingIsNotEscalated` | the refusals that need a person are not those of time |
| `TypeCorrect` | `[]TypeOK` (`Delivery`) | from the invariant below |
| `ResultsHaveTheirBatch` | `[]ResultsComeWithTheirBatch` | a draft's results are those of calls the same transaction closes |
| `EventsAreProcessedOnce` | `EventIsProcessedOnce` | an event on its way in has no row, and one request brings it |
| `SettledIsFinalAlways` | `SettledIsFinal` | a row in a draft, or waited for on a version that holds, is not settled |

`DialsWithinBudget` and `OneCallPerAttempt` are not inductive: nothing in them
says where a new call's key comes from. `AttemptsClaimedOnce` does. It follows a
key from the committed batch to the process that works on it and to the
provider, says that a batch names only attempts already counted, and that no
attempt is named by two batches. Planning keeps it because a new batch takes
the next attempt number under the lock; all other steps only move keys that
have a row (`ClaimKept`). `TypeOK` supplies the bound on the count.

For the other properties of `CallWorkflow` the invariant is `Inv` of
`CallWorkflow_safety_proofs`. It adds to the two above what processes know while
others commit: `Views` (what was read of a row is no newer than the row, and of
an equal version the same state; so a write whose version still matches writes
over the state its author saw), `Marks` (a sweep's row locks are its own, on
CALLING rows of its call), `Hands` and `Answers` (a key being dispatched is neither
linked nor given up, a given-up key is not linked and has no call yet, a key
being applied is linked and its call has ended), `Slices` (a call
says nothing before its end) and `FitBatches`. None of it is in the properties,
and `TerminalIsFinal` is not inductive without it: a worker holding an old view
of a settled row, with a version that happened to match, would overwrite it.
From `Inv` follows one lemma, `Rows`, on which most theorems rest: in any step a
row keeps its state, or its version grows and it makes one of the eight moves of
`RowMove`, each with what its author had in hand. The refinement needs no more
than that, the budget, and that calls and their answers only grow (`Growth`).

Four theorems hold under a condition on who runs, which each names and which the
runs of those properties satisfy. None is an artefact of the proof; without it
TLC finds a counterexample:

* `OneAtATime`: no API request beside another dispatcher. The locks of a plan
  end at its first commit, and a manual trigger accepts an exception in
  CALL_PLANNED, so a request may plan whom another dispatcher has in hand
  (section 6).
* `Apis = {}` and complete replies, for one live call: a second trigger, or a
  reply without a recipient id, which leaves the attempt PENDING and so does not
  hold back the next, starts a call beside a running one (`retried_trigger`).
* `Orderly`, for answers: `OneAtATime`, complete replies where there are API
  requests, and at most one process that applies results. With a drain beside a
  sweep the row may change between a worker's read and its write, and the
  conflict is swallowed after the attempt's result was written
  (`webhook_and_sweep`).

For `ProviderClient` the invariant is `Inv`: the shape of rows and creates,
`RequestsInv` (what a request is), `CreatesInv` (a create in progress matches
its row) and `DispatchedInv`; `OwnerInv` (what a later reconciliation relies on)
and `TypesInv` (the tries left) are inductive given `Inv`.

For `CallPolicy` it is `TypeOK`, `HandsInv` (dispatches in progress are disjoint
and hold attempts that were counted and not recorded) and `Waited`.
`RetriesAreSpaced` spans any number of failed attempts, which ask for no wait of
their own; `Waited` carries the wait across them: an exception whose last attempt
has no `dispatched_at` has waited already, and time only adds to that.

For `Delivery` it is `TypeOK`, `OwnInv` (what an open transaction knows of the rows
it wrote or waits for), `OneWriter` (a row lock has one holder), `HandlerInv` and
`ResultsComeWithTheirBatch` itself. `SettledIsFinal` needs `OneWriter`, for nobody
may settle a row under another's hand, and that a commit marks as outdated
every read of its rows that somebody waits on.

Assumptions: positive budgets and batch sizes, outcomes among `AllOutcomes`,
disjoint sets of processes and of names, an allowlist among the batches, a
schedule within `LongAgo`, hours within the day. TLC evaluates each
of them in the runs.

Every invariant, action property and refinement of a passing run is proved.
Model-checked only: the liveness properties (`CallsAreAnswered` and
`SweepClosesBatches` of `CallWorkflow`, `BacklogClears` of `Delivery`, `QueueMoves`
of `CallPolicy`), since fairness
is stated with ENABLED, which is beyond the installed backends.

## 6. Not modelled

* Webhook signature and body limits, which reject a request without changing
  state; the Redis lock of the worker loops, advisory by its docstring.
* The wording of tasks, the regular expressions of the disclosure scan and the
  formats accepted for dates: what they yield is an input.
* Audit events and policy-decision rows: written, never read by the workflow.
* The edges of `WorkflowRun`: no production code consults them (a run goes from
  PLANNED to COMPLETED, which the table does not list).
* Dashboard, CLI, read endpoints, migrations, agent skill, scripts.

Known limitations of the program that no document denies, or that no run of this
project demonstrates:

* An exception left in CALL_PLANNED by a crash, or by a scan while
  `BUYER_COMPANY` is unset, is picked up by no scan.
* A manual trigger while the last permitted attempt is in flight escalates it.
* An illegal transition of one member ends `process_terminal_call` for the rest
  (`ApplyCutShort`): their attempts stay DISPATCHED under a closed batch. With
  three suppliers on a call one may be left in CALLING for good: a person settles
  the second between the commits of the dispatch, which is then cut short with
  the first in CALLING and the third in CALL_PLANNED; a result that asks for a
  retry of the third is illegal from there, and if its attempt is read first
  (`attempts_for_batch` has no order) the first keeps its state under a closed
  batch, which no sweep selects. `sweep_liveness` has one exception and so does
  not speak of this.
* A snapshot whose failure code, confidence label or recipient status is wider
  than its column raises a `DataError`, no `ResolveEError`: each pass that meets
  it is rolled back, its attempt counter and the other items' results with it.
* Two API requests in flight at once may dial somebody who has opted out: both
  have planned the supplier, the first one's call is answered with the opt-out,
  and the second one's create, decided before, follows. The opt-out bars later
  plans, and the second was made already.
* A create that timed out may dial somebody who has opted out since, with one API
  process: the first create is given up on its way, a second trigger's call is
  answered with the opt-out, and the first one lands. Nothing recalls a create, so
  `NoDialAfterOptOut` is about who is asked for after the opt-out.
* A message put back for an illegal transition is put back every 300 seconds
  without end (section 4).
* Quiet hours are compared in UTC (`app/policies/call_eligibility.py` 101, 119),
  while the settings speak of local time (`app/domain/models.py` 103).
* Nothing orders the rows that a sweep and a drain lock, so a batch with several
  suppliers invites deadlocks between them (section 4).
* The clock is read once per plan: a create that takes long is placed after
  quiet hours have begun.
* A comment (`app/domain/models.py` 95) and the docstring of
  `backoff_minutes_for` index the schedule differently; the code follows the
  docstring.

## 7. Plan

Done: the contract, the core workflow, the decision engine, the provider client,
delivery statement by statement, the calling policies against a clock, a proof
of every safety property and of the refinement. What would add most next:

1. `Delivery` with two drains: the proofs cover any number, liveness is checked
   with one.
2. That `Delivery` implements the steps in which `CallWorkflow` takes its
   transactions; so far the two share only their reading of the source.
3. The progress steps behind the liveness properties, as far as they can be
   stated without ENABLED: that a batch not closed keeps a step that moves it.
