----------------------------- MODULE CallPolicy -----------------------------
(***************************************************************************)
(* Whom a pass may call, and when: the scanner's selection, eligibility    *)
(* and the attempt budget, against a clock.                                *)
(*                                                                         *)
(* CallWorkflow gives a pass any set of exceptions that time lets through; *)
(* this module is about time.  In return the exceptions of a dispatch in   *)
(* progress are not planned again here: what overlapping dispatches of one *)
(* supplier do is CallWorkflow's subject.                                  *)
(***************************************************************************)
EXTENDS Naturals, FiniteSets, Sequences, Verdicts

CONSTANTS
  Exceptions,    \* numbered in the order of their ack_due_at
  BadContact,    \* those with no phone number, or one not E.164
  MaxAttempts,   \* settings.max_attempts
  Backoff,       \* settings.retry_backoff_minutes, in ticks of the clock
  LongAgo,       \* bound: ticks since a dispatch are counted up to here
  Limit,         \* MAX_BATCH_RECIPIENTS of one scan
  Day,           \* ticks in a day, after which the hours repeat
  QuietPolicies, \* enforce_quiet_hours with quiet_hours_start and _end
  Outcomes       \* what a call may say of its recipient

ASSUME ExceptionsAssumption == Exceptions \subseteq Nat
ASSUME BudgetAssumption == MaxAttempts \in Nat \ {0} /\ Limit \in Nat \ {0}
ASSUME BackoffAssumption ==
  /\ Backoff \in Seq(Nat) /\ Backoff # << >>
  /\ LongAgo \in Nat /\ \A i \in DOMAIN Backoff : Backoff[i] <= LongAgo
ASSUME ClockAssumption ==
  /\ Day \in Nat \ {0}
  /\ QuietPolicies \subseteq
       [enforced : BOOLEAN, start : 0 .. (Day - 1), end : 0 .. (Day - 1)]
ASSUME OutcomesAssumption == Outcomes \subseteq AllOutcomes

AttemptStatus == {"NONE", "PENDING", "DISPATCHED", "COMPLETED", "FAILED"}

VARIABLES
  quiet,    \* the policy in force
  hour,     \* the hour the policy is asked about, in UTC
  due,      \* exceptions whose ack_due_at has passed
  state,    \* exceptions.state; CALLING stands for RECONCILING too
  count,    \* attempts made so far, of all runs
  last,     \* status of the last of them
  stamped,  \* whether the last of them has a dispatched_at
  since,    \* ticks since any attempt was recorded as dispatched
  hands     \* dispatches between their two commits: the exceptions of each

clock == << quiet, hour, due >>
vars == << clock, state, count, last, stamped, since, hands >>

\* Plausible slip: the entry after attempt n is read as the one before it.
BackoffForPrevious(n) ==
  IF n <= 1 THEN 0
  ELSE Backoff[IF n - 1 < Len(Backoff) THEN n - 1 ELSE Len(Backoff)]

\* Ticks to wait before attempt n; beyond the schedule its last entry repeats.
BackoffFor(n) ==
  IF n <= 1 THEN 0 ELSE Backoff[IF n < Len(Backoff) THEN n ELSE Len(Backoff)]

Init ==
  /\ quiet \in QuietPolicies
  /\ hour \in 0 .. (Day - 1)
  /\ due = {}
  /\ state = [e \in Exceptions |-> "OPEN"]
  /\ count = [e \in Exceptions |-> 0]
  /\ last = [e \in Exceptions |-> "NONE"]
  /\ stamped = [e \in Exceptions |-> FALSE]
  /\ since = [e \in Exceptions |-> LongAgo]
  /\ hands = {}

-----------------------------------------------------------------------------
(***************************************************************************)
(* The two policies, in the order in which they look at things.            *)
(***************************************************************************)

\* Plausible slip: a simple range test, which is empty for hours that wrap.
InQuietHoursUnwrapped == quiet.start <= hour /\ hour < quiet.end
InQuietHours ==
  IF quiet.start <= quiet.end
  THEN quiet.start <= hour /\ hour < quiet.end
  ELSE hour >= quiet.start \/ hour < quiet.end

Eligibility(e) ==
  IF IsTerminal(state[e]) THEN "ALREADY_TERMINAL"
  ELSE IF e \in BadContact THEN "PHONE_NOT_E164"
  ELSE IF e \notin due THEN "NOT_YET_OVERDUE"
  ELSE IF quiet.enforced /\ InQuietHours THEN "QUIET_HOURS"
  ELSE "ELIGIBLE_FOR_CALL"

TemporalRefusals == {"NOT_YET_OVERDUE", "QUIET_HOURS"}

\* Plausible slip: every refusal is put on a person's queue.
NeedsAHumanAlways(code) == code # "ALREADY_TERMINAL"
NeedsAHuman(code) == code \notin TemporalRefusals \cup {"ALREADY_TERMINAL"}

\* last_attempt_at is the dispatched_at of the last attempt.  One whose create
\* failed, or was never answered, has none, and asks for no wait.
WaitIsOver(e) == stamped[e] => since[e] >= BackoffFor(count[e] + 1)

\* Plausible slip: the budget comparison is off by one.
BudgetOffByOne(e) ==
  IF count[e] > MaxAttempts THEN "HUMAN_REVIEW"
  ELSE IF last[e] = "DISPATCHED" \/ ~WaitIsOver(e) THEN "NOOP"
  ELSE "PROCEED_WITH_CALL"
Budget(e) ==
  IF count[e] >= MaxAttempts THEN "HUMAN_REVIEW"
  ELSE IF last[e] = "DISPATCHED" \/ ~WaitIsOver(e) THEN "NOOP"
  ELSE "PROCEED_WITH_CALL"

Eligible(e) == Eligibility(e) = "ELIGIBLE_FOR_CALL"
Ready(e) == Eligible(e) /\ Budget(e) = "PROCEED_WITH_CALL"
Refused(e) ==
  \/ ~Eligible(e) /\ NeedsAHuman(Eligibility(e))
  \/ Eligible(e) /\ Budget(e) = "HUMAN_REVIEW"

-----------------------------------------------------------------------------
(***************************************************************************)
(* Passes.                                                                 *)
(***************************************************************************)

ReadyIn(S) == {e \in S : Ready(e)}
RefusedIn(S) == {e \in S : Refused(e)}

\* plan_batch, and dispatch_batch up to its first commit.  A pass that would
\* leave everything as it is is no step.
Plan(S) ==
  /\ S \cap UNION hands = {}
  /\ ReadyIn(S) \cup RefusedIn(S) # {}
  /\ state' = [e \in Exceptions |->
                 IF e \in ReadyIn(S) THEN "CALL_PLANNED"
                 ELSE IF e \in RefusedIn(S) THEN "HUMAN_REVIEW"
                 ELSE state[e]]
  /\ count' = [e \in Exceptions |-> count[e] + IF e \in ReadyIn(S) THEN 1 ELSE 0]
  /\ last' = [e \in Exceptions |-> IF e \in ReadyIn(S) THEN "PENDING" ELSE last[e]]
  /\ stamped' = [e \in Exceptions |-> stamped[e] /\ e \notin ReadyIn(S)]
  /\ hands' = hands \cup ({ReadyIn(S)} \ {{}})
  /\ UNCHANGED << clock, since >>

\* find_callable_exceptions: the longest overdue come first, and one that is
\* waiting for its next attempt keeps its place.
\* Plausible slip: so does one that a person has in hand.
OverdueWithEscalated ==
  {e \in due : state[e] \in {"OPEN", "RETRY_PENDING", "HUMAN_REVIEW"}}
Overdue == {e \in due : state[e] \in {"OPEN", "RETRY_PENDING"}}
Candidates == {e \in Overdue : Cardinality({f \in Overdue : f < e}) < Limit}

Scan == Plan(Candidates)

\* resolve_one and resolve_many with ids: a person names anybody.
Trigger(S) == Plan(S)

-----------------------------------------------------------------------------
(***************************************************************************)
(* What becomes of a dispatch, the passing of time, and results.           *)
(***************************************************************************)

\* The provider accepts, and the second transaction records it.
Dispatch(S) ==
  /\ S \in hands
  /\ hands' = hands \ {S}
  /\ state' = [e \in Exceptions |-> IF e \in S THEN "CALLING" ELSE state[e]]
  /\ last' = [e \in Exceptions |-> IF e \in S THEN "DISPATCHED" ELSE last[e]]
  /\ stamped' = [e \in Exceptions |-> stamped[e] \/ e \in S]
  /\ since' = [e \in Exceptions |-> IF e \in S THEN 0 ELSE since[e]]
  /\ UNCHANGED << clock, count >>

\* create_call raised: the attempts are FAILED, the exceptions stay planned, and
\* it takes a person to trigger them again.
CreateFails(S) ==
  /\ S \in hands
  /\ hands' = hands \ {S}
  /\ last' = [e \in Exceptions |-> IF e \in S THEN "FAILED" ELSE last[e]]
  /\ UNCHANGED << clock, state, count, stamped, since >>

\* The process dies with the call in hand.
DispatcherDies(S) ==
  /\ S \in hands
  /\ hands' = hands \ {S}
  /\ UNCHANGED << clock, state, count, last, stamped, since >>

AttemptResult(says) ==
  IF says \in {"missing", "unreached"} THEN "FAILED" ELSE "COMPLETED"

\* A terminal exception keeps its state whatever its call says.
CallEnds(e, says) ==
  /\ last[e] = "DISPATCHED"
  /\ last' = [last EXCEPT ![e] = AttemptResult(says)]
  /\ state' = [state EXCEPT ![e] =
                 IF IsTerminal(@) THEN @
                 ELSE IF says = "missing" THEN "RETRY_PENDING"
                 ELSE DecisionState(says, count[e] >= MaxAttempts)]
  /\ UNCHANGED << clock, count, stamped, since, hands >>

HourPasses ==
  /\ hour' = (hour + 1) % Day
  /\ since' = [e \in Exceptions |-> IF since[e] < LongAgo THEN since[e] + 1 ELSE LongAgo]
  /\ UNCHANGED << quiet, due, state, count, last, stamped, hands >>

\* ack_due_at passes, in order.
FallsDue(e) ==
  /\ e \notin due /\ \A f \in Exceptions : f < e => f \in due
  /\ due' = due \cup {e}
  /\ UNCHANGED << quiet, hour, state, count, last, stamped, since, hands >>

Next ==
  \/ Scan
  \/ \E S \in SUBSET Exceptions :
       Trigger(S) \/ Dispatch(S) \/ CreateFails(S) \/ DispatcherDies(S)
  \/ \E e \in Exceptions : FallsDue(e) \/ \E says \in Outcomes : CallEnds(e, says)
  \/ HourPasses

Spec == Init /\ [][Next]_vars

-----------------------------------------------------------------------------
(***************************************************************************)
(* Properties.                                                             *)
(***************************************************************************)

\* Every variable holds what its column can hold, no attempt is counted beyond
\* the budget, and a dispatch holds exceptions that are planned.
TypeOK ==
  /\ quiet \in QuietPolicies
  /\ hour \in 0 .. (Day - 1)
  /\ due \subseteq Exceptions
  /\ state \in [Exceptions -> ExceptionStates]
  /\ count \in [Exceptions -> 0 .. MaxAttempts]
  /\ last \in [Exceptions -> AttemptStatus]
  /\ stamped \in [Exceptions -> BOOLEAN]
  /\ since \in [Exceptions -> 0 .. LongAgo]
  /\ hands \subseteq SUBSET {e \in Exceptions : state[e] = "CALL_PLANNED"}

\* The hours from start up to end, round the clock.
QuietHours ==
  {h \in 0 .. (Day - 1) :
     (h + Day - quiet.start) % Day < (quiet.end + Day - quiet.start) % Day}

\* No call is planned in enforced quiet hours, whether or not they wrap midnight
\* and whoever asks for it (policies/call_eligibility.py 118: "Quiet hours wrap
\* midnight, so this is not a simple range test").
QuietHoursAreKept ==
  [][quiet.enforced /\ hour \in QuietHours => hands' \subseteq hands]_vars

\* A wait of the schedule that a retry may have to observe has passed.
SomeWaitPassed(e) ==
  \E i \in DOMAIN Backoff :
    (i = 1 => Len(Backoff) = 1) /\ since[e] >= Backoff[i]

\* Between two dispatches of one supplier that were recorded lies at least the
\* shortest wait of the schedule, however many attempts failed in between and
\* whoever triggered them (domain/models.py 110 backoff_minutes_for: "attempt 2
\* after the policy delay").
RetriesAreSpaced ==
  [][\A e \in Exceptions :
       last[e] # "DISPATCHED" /\ last'[e] = "DISPATCHED" => SomeWaitPassed(e)]_vars

\* Planning escalates nobody whose turn has merely not come: not before the date,
\* in quiet hours, nor between two attempts (policies/call_eligibility.py 131:
\* "NOT escalated").
WaitingIsNotEscalated ==
  [][\A e \in Exceptions :
       /\ e \notin BadContact /\ count[e] < MaxAttempts
       /\ last[e] # "DISPATCHED" /\ ~IsTerminal(state[e])
       => ~IsTerminal(state'[e])]_vars

-----------------------------------------------------------------------------
(***************************************************************************)
(* Liveness.  The scanner comes round every few seconds, so it meets every *)
(* stretch in which somebody may be called; a create is answered or fails, *)
(* or its process dies; a call ends, and time passes.                      *)
(***************************************************************************)
Fairness ==
  /\ SF_vars(Scan)
  /\ WF_vars(HourPasses)
  /\ \A e \in Exceptions :
       WF_vars(FallsDue(e)) /\ WF_vars(\E says \in Outcomes : CallEnds(e, says))
  /\ \A S \in SUBSET Exceptions :
       WF_vars(Dispatch(S) \/ CreateFails(S) \/ DispatcherDies(S))

FairSpec == Spec /\ Fairness

\* Nobody waits for ever, neither for a first call nor for the next: those ahead
\* fill the scan's limit while they wait, and every one of them leaves the queue
\* (db/repositories.py 262, the order and limit of find_callable_exceptions).
QueueMoves ==
  \A e \in Exceptions :
    state[e] \in {"OPEN", "RETRY_PENDING"} ~> state[e] \notin {"OPEN", "RETRY_PENDING"}
=============================================================================
