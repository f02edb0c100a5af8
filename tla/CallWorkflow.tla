---------------------------- MODULE CallWorkflow ----------------------------
(***************************************************************************)
(* The life of an overdue purchase-order exception, from planning a call   *)
(* to applying its result, as the API, the worker's three loops and the    *)
(* provider interleave over one PostgreSQL database.                       *)
(*                                                                         *)
(* A database transaction is one step, because nobody sees it before it    *)
(* commits.  A process that holds something across a provider request or   *)
(* between a read and its write has a step on each side of it.             *)
(***************************************************************************)
EXTENDS Naturals, FiniteSets, Verdicts

CONSTANTS
  Exceptions,      \* purchase-order exceptions, one recipient each
  MaxAttempts,     \* settings.max_attempts
  MaxBatch,        \* MAX_BATCH_RECIPIENTS of one scan
  Scanners,        \* worker processes running scan_exceptions
  Apis,            \* API requests that resolve exceptions
  OutboxWorkers,   \* worker processes running drain_outbox
  Sweepers,        \* worker processes running reconcile_stale
  Events,          \* webhook event ids the provider emits for one call
  BadContact,      \* exceptions with no phone number, or one not E.164
  Sensitive,       \* exceptions whose operator text trips the disclosure scan
  Readiness,       \* FALSE \in Readiness: it may be that live calls are on and
                   \* BUYER_COMPANY is unset; TRUE: that a call may be placed
  ShortReplies,    \* may a create response carry fewer recipient ids than sent
  Outcomes,        \* what a terminal call may say of one recipient
  MaxPolls         \* bound: sweeps answered "still running" or with an error

ASSUME AttemptsAssumption == MaxAttempts \in Nat \ {0}
ASSUME BatchAssumption == MaxBatch \in Nat \ {0}
ASSUME PollsAssumption == MaxPolls \in Nat
ASSUME OutcomesAssumption == Outcomes \subseteq AllOutcomes
ASSUME FlagsAssumption ==
  Readiness \subseteq BOOLEAN /\ ShortReplies \in BOOLEAN
ASSUME ProcessesAssumption ==
  Scanners \cap Apis = {} /\ OutboxWorkers \cap Sweepers = {}

Dispatchers == Scanners \cup Apis
Workers == OutboxWorkers \cup Sweepers

\* Attempt numbers, with one beyond the budget so that overspending it is a
\* state the model can reach rather than a value it cannot hold.
Slots == 1 .. (MaxAttempts + 1)

(***************************************************************************)
(* compute_batch_idempotency_key hashes the sorted {run:attempt} pairs of  *)
(* a batch.  The key is therefore the batch's content: which exceptions,   *)
(* and for each which attempt.  It names the batch row here, and, since    *)
(* the provider creates one call per key, the provider's call.             *)
(***************************************************************************)
Keys == UNION { [S -> Slots] : S \in (SUBSET Exceptions) \ {{}} }
NoKey == << >>

AttemptStatus == {"NONE", "PENDING", "DISPATCHED", "COMPLETED", "FAILED"}
BatchStatus == {"NONE", "PENDING", "DISPATCHED", "TERMINAL", "FAILED"}
CallStatus == {"none", "running", "completed", "failed"}
OutboxStatus == {"NONE", "PENDING", "DELIVERED"}

VARIABLES
  exc,      \* exceptions.state, .version, .recipient_blocklisted
  run,      \* workflow_runs.state of the exception's run
  count,    \* attempts made so far (the run's current_attempt_no)
  att,      \* call_attempts.status by attempt number
  rid,      \* attempts that have a provider_recipient_id
  batch,    \* call_batches.status by key
  linked,   \* batches that have a provider_call_id
  call,     \* the provider: the call task created under a key
  slice,    \* the provider: what a terminal call says of each attempt
  flying,   \* creates their sender has given up, which may still arrive
  outbox,   \* outbox.status of each call's terminal event
  disp,     \* dispatchers: the call in hand and the records planned
  wk,       \* result workers: the call in hand, row locks, records read
  polls     \* inconclusive sweeps so far

db == << exc, run, count, att, rid, batch, linked, outbox >>
provider == << call, slice, flying >>
vars == << db, provider, disp, wk, polls >>

Record == [state : ExceptionStates, version : Nat, blocked : BOOLEAN]
View == [state : ExceptionStates \cup {"NONE"}, version : Nat, spent : BOOLEAN]
NoView == [state |-> "NONE", version |-> 0, spent |-> FALSE]
NoViews == [e \in Exceptions |-> NoView]

\* transition_exception: the new state, under the next version.
Transitioned(r, s) == [r EXCEPT !.state = s, !.version = @ + 1]

\* What a process keeps of a row it has read: enough to re-check the version.
Seen(e, record) ==
  [state |-> record.state, version |-> record.version,
   spent |-> count[e] >= MaxAttempts]

\* A process that is not idle has a batch's key in hand.
DispatcherRecord ==
  [pc : {"idle"}, key : {NoKey}, seen : [Exceptions -> View]]
    \cup [pc : {"create", "record"}, key : Keys, seen : [Exceptions -> View]]
WorkerRecord ==
  [pc : {"idle"}, key : {NoKey}, events : {{}}, marked : {{}},
   seen : [Exceptions -> View]]
    \cup [pc : {"fetch", "return", "apply"}, key : Keys, events : SUBSET Events,
          marked : SUBSET Exceptions, seen : [Exceptions -> View]]

IdleDispatcher == [pc |-> "idle", key |-> NoKey, seen |-> NoViews]
IdleWorker ==
  [pc |-> "idle", key |-> NoKey, events |-> {}, marked |-> {}, seen |-> NoViews]

Init ==
  /\ exc = [e \in Exceptions |->
              [state |-> "OPEN", version |-> 0, blocked |-> FALSE]]
  /\ run = [e \in Exceptions |-> "NONE"]
  /\ count = [e \in Exceptions |-> 0]
  /\ att = [e \in Exceptions |-> [n \in Slots |-> "NONE"]]
  /\ rid = {}
  /\ batch = [k \in Keys |-> "NONE"]
  /\ linked = {}
  /\ call = [k \in Keys |-> "none"]
  /\ slice = [e \in Exceptions |-> [n \in Slots |-> "none"]]
  /\ flying = {}
  /\ outbox = [k \in Keys |-> [v \in Events |-> "NONE"]]
  /\ disp = [d \in Dispatchers |-> IdleDispatcher]
  /\ wk = [w \in Workers |-> IdleWorker]
  /\ polls = 0

\* Rows a sweep has moved to RECONCILING and not committed: it keeps their
\* locks for as long as the provider takes to answer.
Locked == UNION { wk[w].marked : w \in Workers }
LockedByOther(w) == UNION { wk[x].marked : x \in Workers \ {w} }

-----------------------------------------------------------------------------
(***************************************************************************)
(* Planning: plan_batch and the first half of dispatch_batch, one          *)
(* transaction.  Temporal refusals (not yet due, quiet hours, backoff)     *)
(* leave an exception where it is, so a pass is given the set S of those   *)
(* that time lets through.                                                 *)
(***************************************************************************)

LastStatus(e) == IF count[e] = 0 THEN "NONE" ELSE att[e][count[e]]

\* Plausible slip: the suppression list is not consulted.
CallableIgnoringBlocklist(e) == e \notin BadContact
Callable(e) == ~exc[e].blocked /\ e \notin BadContact

\* Plausible slip: the budget comparison is off by one.
VerdictOffByOne(e) ==
  IF count[e] > MaxAttempts THEN "HUMAN_REVIEW"
  ELSE IF LastStatus(e) = "DISPATCHED" THEN "NOOP"
  ELSE "PROCEED_WITH_CALL"

\* Plausible slip: an attempt in flight does not hold back the next.
VerdictIgnoringFlight(e) ==
  IF count[e] >= MaxAttempts THEN "HUMAN_REVIEW" ELSE "PROCEED_WITH_CALL"

BudgetVerdict(e) ==
  IF count[e] >= MaxAttempts THEN "HUMAN_REVIEW"
  ELSE IF LastStatus(e) = "DISPATCHED" THEN "NOOP"
  ELSE "PROCEED_WITH_CALL"

Ready(e) ==
  /\ ~IsTerminal(exc[e].state)
  /\ Callable(e)
  /\ BudgetVerdict(e) = "PROCEED_WITH_CALL"

Refused(e) ==
  /\ ~IsTerminal(exc[e].state)
  /\ ~Callable(e) \/ BudgetVerdict(e) = "HUMAN_REVIEW"

\* Plausible slip: attempts are numbered from the count, not the count + 1.
NextAttemptNoReused(e) == IF count[e] = 0 THEN 1 ELSE count[e]
NextAttemptNo(e) == count[e] + 1

\* Plausible slip: the exception is shown as on a call before one is placed.
PlannedRecordTooSoon(r) == Transitioned(r, "CALLING")

\* OPEN -> ELIGIBLE -> CALL_PLANNED; RETRY_PENDING -> CALL_PLANNED; any other
\* state is planned again without a transition.
PlannedRecord(r) ==
  CASE r.state = "OPEN" ->
         Transitioned(Transitioned(r, "ELIGIBLE"), "CALL_PLANNED")
    [] r.state = "RETRY_PENDING" ->
         Transitioned(r, "CALL_PLANNED")
    [] OTHER -> r

EscalatedRecord(r) == Transitioned(r, "HUMAN_REVIEW")

\* Plausible slip: the scanner also picks up what is already planned.
ScannerPicksPlanned(e) ==
  /\ exc[e].state \in {"OPEN", "RETRY_PENDING", "CALL_PLANNED"}
  /\ ~exc[e].blocked
ScannerPicks(e) ==
  /\ exc[e].state \in {"OPEN", "RETRY_PENDING"}
  /\ ~exc[e].blocked

\* Row locks are taken SKIP LOCKED, so a locked row is not in S; neither is a
\* row the pass would leave alone.
MayPlan(d, S) ==
  /\ disp[d].pc = "idle"
  /\ S # {} /\ S \cap Locked = {}
  /\ \A e \in S : Ready(e) \/ Refused(e)
  /\ d \in Scanners => Cardinality(S) <= MaxBatch /\ \A e \in S : ScannerPicks(e)

ReadyIn(S) == {e \in S : Ready(e)}
NewKey(S) == [e \in ReadyIn(S) |-> NextAttemptNo(e)]

\* Plausible slip: a batch is held back only if all of it is sensitive.
SaysTooMuchWholly(S) == ReadyIn(S) # {} /\ ReadyIn(S) \subseteq Sensitive
\* The disclosure scan covers the whole rendered batch.
SaysTooMuch(S) == ReadyIn(S) \cap Sensitive # {}

\* A PENDING attempt row for every exception that passed, under its run.
StageAttempts(S) ==
  /\ count' = [e \in Exceptions |->
                 IF e \in ReadyIn(S) THEN NextAttemptNo(e) ELSE count[e]]
  /\ att' = [e \in Exceptions |->
               IF e \in ReadyIn(S)
               THEN [att[e] EXCEPT ![NextAttemptNo(e)] = "PENDING"]
               ELSE att[e]]
  /\ run' = [e \in Exceptions |->
               IF e \in ReadyIn(S) THEN "PLANNED" ELSE run[e]]

\* Everybody in S was refused: escalate them and place no call.
PlanRefused(d, S) ==
  /\ MayPlan(d, S) /\ ReadyIn(S) = {}
  /\ exc' = [e \in Exceptions |->
               IF e \in S THEN EscalatedRecord(exc[e]) ELSE exc[e]]
  /\ UNCHANGED << run, count, att, rid, batch, linked, outbox,
                  provider, disp, wk, polls >>

\* BUYER_COMPANY is missing: dispatch_batch raises PolicyViolation.  The API
\* request rolls back (no step); scan_exceptions returns and commits the plan.
PlanUnconfigured(d, S) ==
  /\ MayPlan(d, S) /\ ReadyIn(S) # {}
  /\ FALSE \in Readiness /\ d \in Scanners
  /\ StageAttempts(S)
  /\ exc' = [e \in Exceptions |->
               IF e \in ReadyIn(S) THEN PlannedRecord(exc[e])
               ELSE IF e \in S THEN EscalatedRecord(exc[e])
               ELSE exc[e]]
  /\ UNCHANGED << rid, batch, linked, outbox, provider, disp, wk, polls >>

\* One sensitive field refuses every member, after their attempts are staged.
PlanBlocked(d, S) ==
  /\ MayPlan(d, S) /\ SaysTooMuch(S)
  /\ TRUE \in Readiness
  /\ StageAttempts(S)
  /\ exc' = [e \in Exceptions |->
               IF e \in ReadyIn(S) THEN EscalatedRecord(PlannedRecord(exc[e]))
               ELSE IF e \in S THEN EscalatedRecord(exc[e])
               ELSE exc[e]]
  /\ UNCHANGED << rid, batch, linked, outbox, provider, disp, wk, polls >>

\* The plan and its PENDING batch are committed before the provider is asked.
PlanBatch(d, S) ==
  /\ MayPlan(d, S) /\ ReadyIn(S) # {} /\ ~SaysTooMuch(S)
  /\ TRUE \in Readiness
  /\ StageAttempts(S)
  /\ exc' = [e \in Exceptions |->
               IF e \in ReadyIn(S) THEN PlannedRecord(exc[e])
               ELSE IF e \in S THEN EscalatedRecord(exc[e])
               ELSE exc[e]]
  /\ batch' = [batch EXCEPT ![NewKey(S)] = "PENDING"]
  /\ disp' = [disp EXCEPT ![d] =
                [pc |-> "create", key |-> NewKey(S),
                 seen |-> [e \in Exceptions |->
                             IF e \in ReadyIn(S) THEN Seen(e, PlannedRecord(exc[e]))
                             ELSE NoView]]]
  /\ UNCHANGED << rid, linked, outbox, provider, wk, polls >>

-----------------------------------------------------------------------------
(***************************************************************************)
(* Dispatch: the provider request, then a second transaction.              *)
(***************************************************************************)

\* The provider creates the call of this key, or returns the one it has.
StartCall(k) ==
  call' = [call EXCEPT ![k] = IF @ = "none" THEN "running" ELSE @]

CreateAccepted(d) ==
  /\ disp[d].pc = "create"
  /\ StartCall(disp[d].key)
  /\ disp' = [disp EXCEPT ![d].pc = "record"]
  /\ UNCHANGED << db, slice, flying, wk, polls >>

\* A create whose sender stops waiting for it is not taken back.
GiveUp(d) ==
  flying' = IF disp[d].pc = "create" THEN flying \cup {disp[d].key} ELSE flying

\* create_call raised.  Whether the provider has acted ("record": only the answer
\* was lost) or may still act is not known: the batch and its attempts are FAILED.
CreateFailed(d) ==
  LET k == disp[d].key IN
  /\ disp[d].pc # "idle"
  /\ GiveUp(d)
  /\ batch' = [batch EXCEPT ![k] = "FAILED"]
  /\ att' = [e \in Exceptions |->
               IF e \in DOMAIN k THEN [att[e] EXCEPT ![k[e]] = "FAILED"]
               ELSE att[e]]
  /\ disp' = [disp EXCEPT ![d] = IdleDispatcher]
  /\ UNCHANGED << exc, run, count, rid, linked, outbox, call, slice, wk, polls >>

\* The record a dispatcher transitions: the one it planned, while it still
\* holds it (the scanner's candidates list does), or a fresh read (the session's
\* identity map is weak, and an API request keeps no other reference).
DispatchView(d, e, fresh) ==
  IF fresh THEN Seen(e, exc[e]) ELSE disp[d].seen[e]

\* Plausible slip: the dispatcher writes without checking the version.
CannotCallUnversioned(d, e, fresh) ==
  ~CanTransition(DispatchView(d, e, fresh).state, "CALLING")
CannotCall(d, e, fresh) ==
  \/ ~CanTransition(DispatchView(d, e, fresh).state, "CALLING")
  \/ DispatchView(d, e, fresh).version # exc[e].version

MayRecord(d, fresh) ==
  /\ disp[d].pc = "record"
  /\ fresh => d \in Apis
  /\ DOMAIN disp[d].key \cap Locked = {}

\* Store the call id, correlate the recipient ids in got, move `moved` to
\* CALLING, and commit.
RecordCall(d, got, moved) ==
  LET k == disp[d].key IN
  /\ got # DOMAIN k => ShortReplies
  /\ batch' = [batch EXCEPT ![k] = "DISPATCHED"]
  /\ linked' = linked \cup {k}
  /\ rid' = rid \cup {<<e, k[e]>> : e \in got}
  /\ att' = [e \in Exceptions |->
               IF e \in got THEN [att[e] EXCEPT ![k[e]] = "DISPATCHED"]
               ELSE att[e]]
  /\ exc' = [e \in Exceptions |->
               IF e \in moved
               THEN Transitioned(exc[e], "CALLING")
               ELSE exc[e]]
  /\ disp' = [disp EXCEPT ![d] = IdleDispatcher]
  /\ UNCHANGED << run, count, outbox, provider, wk, polls >>

RecordDispatched(d) ==
  \E fresh \in BOOLEAN, got \in SUBSET DOMAIN disp[d].key :
    /\ MayRecord(d, fresh)
    /\ \A e \in DOMAIN disp[d].key : ~CannotCall(d, e, fresh)
    /\ RecordCall(d, got, DOMAIN disp[d].key)

\* A transition is refused part way through the loop.  scan_exceptions swallows
\* the error inside its session scope, so what came before it is committed.
RecordCutShort(d) ==
  \E got, moved \in SUBSET DOMAIN disp[d].key :
    /\ d \in Scanners
    /\ MayRecord(d, FALSE)
    /\ \E e \in DOMAIN disp[d].key : CannotCall(d, e, FALSE)
    /\ \A e \in moved : ~CannotCall(d, e, FALSE)
    /\ RecordCall(d, got, moved)

\* The same refusal in an API request becomes an HTTP error, and the session
\* rolls back: the provider's call is recorded nowhere.
RecordRolledBack(d) ==
  \E fresh \in BOOLEAN :
    /\ d \in Apis
    /\ MayRecord(d, fresh)
    /\ \E e \in DOMAIN disp[d].key : CannotCall(d, e, fresh)
    /\ disp' = [disp EXCEPT ![d] = IdleDispatcher]
    /\ UNCHANGED << db, provider, wk, polls >>

\* The process dies with the call in hand, or on an error that is no ResolveEError
\* (the raw client's timeout); what it had committed stays.
DispatcherCrash(d) ==
  /\ disp[d].pc # "idle"
  /\ GiveUp(d)
  /\ disp' = [disp EXCEPT ![d] = IdleDispatcher]
  /\ UNCHANGED << db, call, slice, wk, polls >>

-----------------------------------------------------------------------------
(***************************************************************************)
(* The provider and its webhook.                                           *)
(***************************************************************************)

\* A create that was given up arrives after all, at any later time or never.
CreateLands(k) ==
  /\ k \in flying
  /\ StartCall(k)
  /\ flying' = flying \ {k}
  /\ UNCHANGED << db, slice, disp, wk, polls >>

\* A running call ends.  Nothing a failed call says is evidence.
FinishCall(k) ==
  \E status \in {"completed", "failed"}, says \in [DOMAIN k -> Outcomes] :
    /\ call[k] = "running"
    /\ status = "failed" =>
         \A e \in DOMAIN k : says[e] \in {"unreached", "unusable", "missing"}
    /\ call' = [call EXCEPT ![k] = status]
    /\ slice' = [e \in Exceptions |->
                   IF e \in DOMAIN k THEN [slice[e] EXCEPT ![k[e]] = says[e]]
                   ELSE slice[e]]
    /\ UNCHANGED << db, flying, disp, wk, polls >>

\* Plausible slip: any status but "none" counts as terminal.
CallEndedLoosely(k) == call[k] # "none"
CallEnded(k) == call[k] \in {"completed", "failed"}

\* A terminal event is delivered.  A redelivery of the same event id finds its
\* webhook_events row and changes nothing; one never delivered is never a step.
Webhook(k, v) ==
  /\ call[k] \in {"completed", "failed"}
  /\ outbox[k][v] = "NONE"
  /\ outbox' = [outbox EXCEPT ![k][v] = "PENDING"]
  /\ UNCHANGED << exc, run, count, att, rid, batch, linked,
                  provider, disp, wk, polls >>

-----------------------------------------------------------------------------
(***************************************************************************)
(* Applying a terminal call: process_terminal_call, _process_attempt and   *)
(* _apply, as run by a worker w that holds the call k and has read the     *)
(* exceptions' rows.                                                       *)
(***************************************************************************)

\* A sweep sees its own uncommitted mark; everyone else sees the committed row.
OwnRecord(w, e) ==
  IF e \in wk[w].marked
  THEN Transitioned(exc[e], "RECONCILING")
  ELSE exc[e]

\* Plausible slip: correlate by the recipient's place in the call, so that one
\* supplier's answer is read as another's.
SliceByPlace(k, e) ==
  LET o == CHOOSE x \in DOMAIN k : DOMAIN k # {e} => x # e IN slice[o][k[o]]
SliceOf(k, e) == slice[e][k[e]]

Unattributed(k, e) == <<e, k[e]>> \notin rid \/ SliceOf(k, e) = "missing"

\* A slice that cannot be attributed always releases the exception for retry.
Target(k, e, view) ==
  IF Unattributed(k, e) THEN "RETRY_PENDING"
  ELSE DecisionState(SliceOf(k, e), view.spent)

Awaiting(s) == s \in {"CALLING", "RECONCILING"}

\* From CALLING or RECONCILING the result is walked through RESULT_RECEIVED and
\* EVIDENCE_VALIDATED, which may be followed by every target.  From any other
\* state the target is tried directly.
Illegal(k, e, view) ==
  /\ ~Awaiting(view.state) /\ ~IsTerminal(view.state)
  /\ ~CanTransition(view.state, Target(k, e, view))

\* Plausible slip: the write does not check the version it read.
SameVersionUnchecked(w, e) == TRUE
SameVersion(w, e) == wk[w].seen[e].version = OwnRecord(w, e).version

\* A terminal exception absorbs the result (NOOP, or TerminalStateProtected
\* when unattributed); a version conflict is audited and swallowed.
Moves(w, e) ==
  /\ ~IsTerminal(wk[w].seen[e].state)
  /\ ~Illegal(wk[w].key, e, wk[w].seen[e])
  /\ SameVersion(w, e)

\* The suppression flag is written before, and apart from, the transition.
OptsOut(w, e) ==
  /\ ~IsTerminal(wk[w].seen[e].state)
  /\ ~Unattributed(wk[w].key, e)
  /\ SliceOf(wk[w].key, e) = "optout"

AppliedRecord(w, e) ==
  LET own == OwnRecord(w, e)
      view == wk[w].seen[e]
  IN [state |-> IF Moves(w, e) THEN Target(wk[w].key, e, view) ELSE own.state,
      version |-> IF ~Moves(w, e) THEN own.version
                  ELSE IF Awaiting(view.state) THEN own.version + 3
                  ELSE own.version + 1,
      blocked |-> own.blocked \/ OptsOut(w, e)]

AttemptResult(k, e) ==
  IF Unattributed(k, e) \/ SliceOf(k, e) = "unreached"
  THEN "FAILED" ELSE "COMPLETED"

\* The exceptions whose result was applied, plus, when the loop was cut short,
\* the one whose transition raised: its attempt is written, its state is not.
ApplyTo(w, applied, raised) ==
  LET k == wk[w].key IN
  /\ batch' = [batch EXCEPT ![k] = IF call[k] = "failed" THEN "FAILED" ELSE "TERMINAL"]
  /\ att' = [e \in Exceptions |->
               IF e \in applied \cup raised
               THEN [att[e] EXCEPT ![k[e]] = AttemptResult(k, e)]
               ELSE att[e]]
  /\ exc' = [e \in Exceptions |->
               IF e \in applied THEN AppliedRecord(w, e) ELSE OwnRecord(w, e)]
  /\ run' = [e \in Exceptions |->
               IF /\ e \in applied /\ Moves(w, e)
                  /\ IsTerminal(Target(k, e, wk[w].seen[e]))
               THEN "COMPLETED" ELSE run[e]]
  /\ wk' = [wk EXCEPT ![w] = IdleWorker]
  /\ UNCHANGED << count, rid, linked, provider, disp, polls >>

MayApply(w) ==
  /\ wk[w].pc = "apply"
  /\ DOMAIN wk[w].key \cap LockedByOther(w) = {}

RaisingMembers(w) ==
  {e \in DOMAIN wk[w].key : Illegal(wk[w].key, e, wk[w].seen[e])}

\* Plausible slip: a claimed message is committed before it is delivered.
SettledStatusInFlight(delivered) == "IN_FLIGHT"
SettledStatus(delivered) == IF delivered THEN "DELIVERED" ELSE "PENDING"

SettleMessages(w, delivered) ==
  LET k == wk[w].key IN
  outbox' = [outbox EXCEPT ![k] =
               [v \in Events |-> IF v \in wk[w].events THEN SettledStatus(delivered)
                                 ELSE @[v]]]

ApplyResults(w) ==
  /\ MayApply(w) /\ RaisingMembers(w) = {}
  /\ ApplyTo(w, DOMAIN wk[w].key, {})
  /\ SettleMessages(w, TRUE)

\* InvalidTransition leaves the loop over the attempts: those after it are not
\* looked at.  What was done is committed all the same (the message goes back
\* to PENDING; the sweep goes on to its next batch).
ApplyCutShort(w) ==
  \E bad \in RaisingMembers(w) :
    \E applied \in SUBSET (DOMAIN wk[w].key \ RaisingMembers(w)) :
      /\ MayApply(w)
      /\ ApplyTo(w, applied, {bad})
      /\ SettleMessages(w, FALSE)

-----------------------------------------------------------------------------
(***************************************************************************)
(* The two paths to a result.                                              *)
(***************************************************************************)

ReadRows(w, k) ==
  [e \in Exceptions |-> IF e \in DOMAIN k THEN Seen(e, OwnRecord(w, e)) ELSE NoView]

Unclaimed(k, v) ==
  /\ outbox[k][v] = "PENDING"
  /\ \A w \in OutboxWorkers : wk[w].key = k => v \notin wk[w].events

\* No batch has this call id yet: reconcile_call returns, and the message counts
\* as delivered.
OutboxUnknownCall(w, k, v) ==
  /\ wk[w].pc = "idle" /\ Unclaimed(k, v) /\ k \notin linked
  /\ outbox' = [outbox EXCEPT ![k][v] = "DELIVERED"]
  /\ UNCHANGED << exc, run, count, att, rid, batch, linked,
                  provider, disp, wk, polls >>

\* Claim a message, fetch its call, and read the rows it concerns.
OutboxClaim(w, k, v) ==
  /\ wk[w].pc = "idle" /\ Unclaimed(k, v) /\ k \in linked
  /\ wk' = [wk EXCEPT ![w] =
              [pc |-> "apply", key |-> k, events |-> {v}, marked |-> {},
               seen |-> ReadRows(w, k)]]
  /\ UNCHANGED << db, provider, disp, polls >>

\* Rows are read one after another: some of them after others have committed.
ReadLater(w, late) ==
  /\ wk[w].pc = "apply"
  /\ late # {} /\ late \subseteq DOMAIN wk[w].key
  /\ wk' = [wk EXCEPT ![w].seen =
              [e \in Exceptions |-> IF e \in late THEN Seen(e, OwnRecord(w, e)) ELSE @[e]]]
  /\ UNCHANGED << db, provider, disp, polls >>

\* Plausible slip: only batches never answered for are swept.
StalePending(k) == batch[k] = "PENDING" /\ k \in linked
Stale(k) == batch[k] = "DISPATCHED" /\ k \in linked

\* mark_reconciling, uncommitted: the marked rows stay locked.
SweepMark(w, k) ==
  LET marks == {e \in DOMAIN k : exc[e].state = "CALLING"} IN
  /\ wk[w].pc = "idle" /\ Stale(k)
  /\ marks \cap Locked = {}
  /\ wk' = [wk EXCEPT ![w] =
              [pc |-> "fetch", key |-> k, events |-> {}, marked |-> marks,
               seen |-> NoViews]]
  /\ UNCHANGED << db, provider, disp, polls >>

\* get_call answered with a terminal call.
SweepFetched(w) ==
  /\ wk[w].pc = "fetch" /\ CallEnded(wk[w].key)
  /\ wk' = [wk EXCEPT ![w] =
              [@ EXCEPT !.pc = "apply", !.seen = ReadRows(w, wk[w].key)]]
  /\ UNCHANGED << db, provider, disp, polls >>

\* get_call answered "still running".
SweepStillRunning(w) ==
  /\ wk[w].pc = "fetch" /\ call[wk[w].key] = "running"
  /\ polls < MaxPolls
  /\ wk' = [wk EXCEPT ![w].pc = "return"]
  /\ polls' = polls + 1
  /\ UNCHANGED << db, provider, disp >>

\* _return_to_calling, and commit, whatever became of the call since.
SweepReturns(w) ==
  /\ wk[w].pc = "return"
  /\ DOMAIN wk[w].key \cap LockedByOther(w) = {}
  /\ exc' = [e \in Exceptions |->
               IF e \in DOMAIN wk[w].key /\ OwnRecord(w, e).state = "RECONCILING"
               THEN Transitioned(OwnRecord(w, e), "CALLING")
               ELSE OwnRecord(w, e)]
  /\ wk' = [wk EXCEPT ![w] = IdleWorker]
  /\ UNCHANGED << run, count, att, rid, batch, linked, outbox, provider, disp, polls >>

\* get_call raised: the sweep goes on, and the marks are committed.
SweepFetchFailed(w) ==
  /\ wk[w].pc = "fetch" /\ polls < MaxPolls
  /\ exc' = [e \in Exceptions |-> OwnRecord(w, e)]
  /\ wk' = [wk EXCEPT ![w] = IdleWorker]
  /\ polls' = polls + 1
  /\ UNCHANGED << run, count, att, rid, batch, linked, outbox, provider, disp >>

\* The process dies, or its transaction is rolled back by an error no handler
\* expects: nothing of it stays.
WorkerCrash(w) ==
  /\ wk[w].pc # "idle"
  /\ wk' = [wk EXCEPT ![w] = IdleWorker]
  /\ UNCHANGED << db, provider, disp, polls >>

\* External: a person settles an exception by hand.  No endpoint does this; the
\* tests call transition_exception as the operator.
OperatorSettles(e, s) ==
  /\ s \in {"HUMAN_REVIEW", "CLOSED_UNRESOLVED"}
  /\ CanTransition(exc[e].state, s) /\ e \notin Locked
  /\ exc' = [exc EXCEPT ![e] = Transitioned(@, s)]
  /\ UNCHANGED << run, count, att, rid, batch, linked, outbox,
                  provider, disp, wk, polls >>

-----------------------------------------------------------------------------
DispatcherStep(d) ==
  \/ \E S \in SUBSET Exceptions :
       \/ PlanRefused(d, S) \/ PlanUnconfigured(d, S)
       \/ PlanBlocked(d, S) \/ PlanBatch(d, S)
  \/ CreateAccepted(d) \/ CreateFailed(d)
  \/ RecordDispatched(d) \/ RecordCutShort(d) \/ RecordRolledBack(d)
  \/ DispatcherCrash(d)

ProviderStep ==
  \E k \in Keys : CreateLands(k) \/ FinishCall(k) \/ \E v \in Events : Webhook(k, v)

OutboxStep(w) ==
  \E k \in Keys, v \in Events : OutboxUnknownCall(w, k, v) \/ OutboxClaim(w, k, v)

SweepStep(w) ==
  \/ \E k \in Keys : SweepMark(w, k)
  \/ SweepFetched(w) \/ SweepStillRunning(w) \/ SweepReturns(w)
  \/ SweepFetchFailed(w)

Next ==
  \/ \E d \in Dispatchers : DispatcherStep(d)
  \/ ProviderStep
  \/ \E w \in OutboxWorkers : OutboxStep(w)
  \/ \E w \in Sweepers : SweepStep(w)
  \/ \E w \in Workers :
       \/ ApplyResults(w) \/ ApplyCutShort(w) \/ WorkerCrash(w)
       \/ \E late \in SUBSET Exceptions : ReadLater(w, late)
  \/ \E e \in Exceptions, s \in TerminalStates : OperatorSettles(e, s)

Spec == Init /\ [][Next]_vars

-----------------------------------------------------------------------------
(***************************************************************************)
(* Properties.                                                             *)
(***************************************************************************)

\* Every variable holds what its table or process can hold; in particular no
\* outbox row is ever committed IN_FLIGHT, where claim_outbox would not find it.
TypeOK ==
  /\ exc \in [Exceptions -> Record]
  /\ run \in [Exceptions -> {"NONE", "PLANNED", "COMPLETED"}]
  /\ count \in [Exceptions -> 0 .. MaxAttempts]
  /\ att \in [Exceptions -> [Slots -> AttemptStatus]]
  /\ rid \subseteq Exceptions \X Slots
  /\ batch \in [Keys -> BatchStatus]
  /\ linked \subseteq Keys
  /\ call \in [Keys -> CallStatus]
  /\ slice \in [Exceptions -> [Slots -> Outcomes \cup {"none"}]]
  /\ flying \subseteq Keys
  /\ outbox \in [Keys -> [Events -> OutboxStatus]]
  /\ disp \in [Dispatchers -> DispatcherRecord]
  /\ wk \in [Workers -> WorkerRecord]
  /\ polls \in 0 .. MaxPolls

\* The calls the provider has placed to the supplier of e.
CallsTo(e) == {k \in Keys : e \in DOMAIN k /\ call[k] # "none"}

\* A terminal state is final: no late or stale result, retry, sweep or dispatch
\* overwrites what an operator or an earlier result settled
\* (domain/state_machine.py assert_can_transition and the version check of
\* repositories.transition_exception, taken together).
TerminalIsFinal ==
  [][\A e \in Exceptions :
       IsTerminal(exc[e].state) => exc'[e].state = exc[e].state]_vars

\* A supplier is dialled at most max_attempts times, whatever crashes, lost
\* responses and manual triggers there are (policies/attempt_policy.py: "we do
\* not keep dialling").
DialsWithinBudget == \A e \in Exceptions : Cardinality(CallsTo(e)) <= MaxAttempts

\* One attempt is one call: no attempt is carried by the batches of two calls.
OneCallPerAttempt ==
  \A e \in Exceptions : \A j, k \in CallsTo(e) : j[e] = k[e] => j = k

\* Why the two above hold: a call is asked for and placed only under the key of a committed
\* batch, a process works only on such a key, a batch names attempts already
\* counted, and each attempt is named by one batch (the batch and its attempts
\* "are committed before the provider is called", services/call_orchestrator.py 9).
AttemptsClaimedOnce ==
  /\ \A k \in Keys :
       call[k] # "none" \/ k \in flying \/ k \in linked => batch[k] # "NONE"
  /\ \A d \in Dispatchers : disp[d].pc # "idle" => batch[disp[d].key] # "NONE"
  /\ \A w \in Workers : wk[w].pc # "idle" => batch[wk[w].key] # "NONE"
  /\ \A k \in Keys : batch[k] # "NONE" => \A e \in DOMAIN k : k[e] <= count[e]
  /\ \A j, k \in Keys : batch[j] # "NONE" /\ batch[k] # "NONE" =>
       \A e \in DOMAIN j \cap DOMAIN k : j[e] = k[e] => j = k

\* Nobody is asked to call a recipient who has asked not to be called again
\* (services/result_processor.py 235: "no later retry on THIS exception can dial
\* them back"): a call that starts nevertheless is of a create that was given up
\* before the opt-out was recorded, and arrives late.
NoDialAfterOptOut ==
  [][\A e \in Exceptions :
       exc[e].blocked => \A k \in Keys : e \in DOMAIN k =>
         /\ k \in flying' => k \in flying
         /\ call[k] = "none" /\ call'[k] # "none" => k \in flying]_vars

\* No supplier is on two calls at once (README 214: "One call.").
OneLiveCall ==
  \A e \in Exceptions : \A j, k \in CallsTo(e) :
    call[j] = "running" /\ call[k] = "running" => j = k

\* An exception shown as on a call is covered by a call that was placed and
\* whose id is stored, so that somebody can ask the provider about it.
AwaitingHasCall ==
  \A e \in Exceptions :
    Awaiting(exc[e].state) => CallsTo(e) \cap linked # {}

\* An exception shown as on a call is on the call of its latest attempt, whose id
\* is stored and whose answer is not yet written: whoever writes an attempt's
\* result, or a terminal state, takes the exception off the call as well.
AwaitingIsUnanswered ==
  \A e \in Exceptions :
    Awaiting(exc[e].state) =>
      \E k \in CallsTo(e) \cap linked :
        k[e] = count[e] /\ att[e][k[e]] \in {"PENDING", "DISPATCHED"}

\* A resolution is what a finished call said of this very supplier, in an
\* attempt whose recipient id is known (services/result_processor.py 5: "A
\* confident answer from supplier A must never influence the outcome for
\* supplier B").
ResolvedOnOwnEvidence ==
  \A e \in Exceptions :
    exc[e].state \in {"RESOLVED_ON_TIME", "RESOLVED_DELAYED"} =>
      \E k \in CallsTo(e) :
        /\ call[k] = "completed" /\ <<e, k[e]>> \in rid
        /\ slice[e][k[e]] =
             IF exc[e].state = "RESOLVED_ON_TIME" THEN "ontime" ELSE "delayed"

\* A batch is closed only on the provider's word that its call is over
\* (services/result_processor.py 87: "Not terminal: ... Never decide").
ClosedOnlyWhenOver ==
  \A k \in linked :
    batch[k] \in {"TERMINAL", "FAILED"} => call[k] \in {"completed", "failed"}

\* A result of a call whose batch is already closed changes no exception
\* (services/reconciliation_service.py 151: "a duplicate webhook is harmless").
DuplicateResultIsHarmless ==
  [][\A w \in Workers :
       wk[w].pc = "apply" /\ wk'[w].pc = "idle"
         /\ batch[wk[w].key] \in {"TERMINAL", "FAILED"}
       => \A e \in DOMAIN wk[w].key : exc'[e].state = exc[e].state]_vars

\* No two dispatchers have the same supplier's call in hand (README 221: "two
\* batches can never claim one supplier").
DisjointClaims ==
  \A c, d \in Dispatchers :
    disp[c].pc # "idle" /\ disp[d].pc # "idle" /\ c # d
      => DOMAIN disp[c].key \cap DOMAIN disp[d].key = {}

\* A supplier without a usable number, or whose task says too much, is on no call,
\* whoever shares its batch and however often it is planned
\* (call_orchestrator.dispatch_batch, the disclosure gate).
NoUnfitDial ==
  \A k \in Keys :
    call[k] # "none" => DOMAIN k \cap (BadContact \cup Sensitive) = {}

Contract ==
  INSTANCE Lifecycle WITH
    state <- [e \in Exceptions |-> exc[e].state],
    calls <- [e \in Exceptions |-> CallsTo(e)],
    heard <- [e \in Exceptions |->
                {slice[e][n] : n \in Slots} \ {"none", "missing"}]

\* The workflow implements the contract of the lifecycle.
ImplementsLifecycle == Contract!Spec

-----------------------------------------------------------------------------
(***************************************************************************)
(* Liveness.  The worker's loops run for ever and are restarted when they  *)
(* die (a loop body's exception is logged and the loop goes on), so a       *)
(* worker that can infinitely often finish a batch or a message does.  A    *)
(* provider's call ends.  A dispatcher that is not killed finishes.         *)
(***************************************************************************)
Applies(w) == ApplyResults(w) \/ ApplyCutShort(w)

Fairness ==
  /\ \A k \in Keys : WF_vars(FinishCall(k))
  /\ \A w \in Sweepers :
       /\ SF_vars(SweepFetched(w)) /\ SF_vars(SweepReturns(w))
       /\ \A k \in Keys : SF_vars(SweepMark(w, k))
  /\ \A w \in OutboxWorkers, k \in Keys, v \in Events :
       SF_vars(OutboxClaim(w, k, v))
  /\ \A w \in Workers : SF_vars(Applies(w))

FairSpec == Spec /\ Fairness

\* An exception on a call gets an answer, without any webhook: it does not stay
\* in CALLING or RECONCILING (services/reconciliation_service.py 16: "a lost
\* webhook is a delay, never a stuck workflow").
CallsAreAnswered ==
  \A e \in Exceptions : Awaiting(exc[e].state) ~> ~Awaiting(exc[e].state)

\* Every dispatched batch is eventually closed, so nothing is swept for ever.
SweepClosesBatches ==
  \A k \in Keys : batch[k] = "DISPATCHED" ~> batch[k] \in {"TERMINAL", "FAILED"}
=============================================================================
