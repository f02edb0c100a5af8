--------------------------- MODULE DecisionEngine ---------------------------
(***************************************************************************)
(* The policies that turn one supplier's slice of a finished call into a   *)
(* decision: policies/evidence_policy.py (what counts as evidence) and     *)
(* policies/transition_policy.py (what to do with it).  The functions are  *)
(* pure, so the module is a table from cases to decisions, and its one     *)
(* action judges a case.                                                   *)
(***************************************************************************)
EXTENDS Integers, Sequences, Verdicts

CONSTANTS
  MaxAttempts,          \* settings.max_attempts
  MinConfidence,        \* settings.min_completion_confidence, in hundredths
  DelayThresholdHours,  \* settings.delay_threshold_hours
  States,               \* states an exception may be in when a result arrives
  Scores,               \* completion confidences the provider may publish
  Slips                 \* stated ship dates, in days after ack_due_at

ASSUME PolicyAssumption ==
  MaxAttempts \in Nat \ {0} /\ MinConfidence \in Nat /\ DelayThresholdHours \in Nat
ASSUME InputAssumption ==
  States \subseteq ExceptionStates /\ Scores \subseteq Nat /\ Slips \subseteq Int

\* A value that may be absent (None) is a sequence of at most one element.
Optional(S) == {<< >>} \cup {<<x>> : x \in S}

Received == {"yes", "no", "unknown"}
PoStatus == {"on_time", "delayed", "blocked", "unknown"}
SpokeWith ==
  {"intended_contact", "authorized_representative", "wrong_person", "unknown"}
EscalationReasons ==
  { "none", "wants_human", "disputes_po", "commercial_change",
    "asked_not_to_be_called", "unknown" }

\* parse_ship_date is applied to the stated text: it yields a day, or nothing.
Evidence ==
  [ received : Received, status : PoStatus, needsHuman : {"yes", "no", "unknown"},
    spokeWith : SpokeWith, escalation : EscalationReasons,
    shipDate : Optional(Slips) ]

\* A ship date matters, and is parsed, in the answer "delayed" only.
Answers == {says \in Evidence : says.status # "delayed" => says.shipDate = << >>}

(***************************************************************************)
(* A case: the exception's state and attempts, the call's status and its   *)
(* own judgment of itself, and the recipient's slice.  conforms is FALSE   *)
(* of a result that is null, of the wrong type, short of a field, with one *)
(* too many, or with a value outside its enum: whatever it says is then    *)
(* not to be used.                                                         *)
(***************************************************************************)
Cases ==
  [ state : States, attempts : 1 .. MaxAttempts, reconcilable : BOOLEAN,
    call : {"completed", "failed", "canceled"},
    taskCompleted : Optional(BOOLEAN), score : Optional(Scores),
    reached : BOOLEAN, conforms : BOOLEAN, says : Answers ]

-----------------------------------------------------------------------------
Exhausted(c) == c.attempts >= MaxAttempts

\* Plausible slip: a spent budget closes the exception instead of escalating it.
RetryOrClose(c) == IF Exhausted(c) THEN "CLOSE_UNRESOLVED" ELSE "RETRY"
RetryOrEscalate(c) == IF Exhausted(c) THEN "HUMAN_REVIEW" ELSE "RETRY"

Usable(c) == c.reached /\ c.conforms

\* Plausible slip: only needs_human is looked at, as before schema v2.
AsksForAPersonBefore(says) == says.needsHuman = "yes"
AsksForAPerson(says) ==
  says.escalation \notin {"none", "unknown"} \/ says.needsHuman = "yes"

OptsOutOfCalls(says) == says.escalation = "asked_not_to_be_called"

\* Plausible slip: a wrong person is refused, an unidentified one is not.
IdentifiedLoosely(says) == says.spokeWith # "wrong_person"
Identified(says) == says.spokeWith \in {"intended_contact", "authorized_representative"}

CouldClose(says) == says.received = "yes" /\ says.status \in {"on_time", "delayed"}

ConfidencePermits(c) ==
  c.taskCompleted = <<TRUE>> /\ c.score # << >> /\ c.score[1] >= MinConfidence

\* Plausible slip: a doubtful call is simply placed again.
WithheldByRetry(c) == RetryOrEscalate(c)
Withheld(c) == "HUMAN_REVIEW"

\* date - date in whole days, against a threshold in hours.
WithinPolicy(slip) == slip * 24 <= DelayThresholdHours

\* Plausible slip: a delay is accepted without a confirmed receipt.
DelayDecisionUnconfirmed(says) ==
  IF says.shipDate # << >> /\ WithinPolicy(says.shipDate[1])
  THEN "RESOLVE_DELAYED" ELSE "HUMAN_REVIEW"
DelayDecision(says) ==
  IF /\ says.shipDate # << >> /\ WithinPolicy(says.shipDate[1])
     /\ says.received = "yes"
  THEN "RESOLVE_DELAYED" ELSE "HUMAN_REVIEW"

AnswerDecision(c) ==
  CASE c.says.status = "on_time" /\ c.says.received = "yes" -> "RESOLVE_ON_TIME"
    [] c.says.status = "delayed" -> DelayDecision(c.says)
    [] c.says.status = "blocked" -> "HUMAN_REVIEW"
    [] c.says.status \in {"on_time", "unknown"} /\ c.says.received = "no" ->
         RetryOrEscalate(c)
    [] OTHER -> "HUMAN_REVIEW"

\* The branch order is the precedence.
EvidenceDecision(c) ==
  IF AsksForAPerson(c.says) THEN "HUMAN_REVIEW"
  ELSE IF CouldClose(c.says) /\ ~Identified(c.says) THEN "HUMAN_REVIEW"
  ELSE IF CouldClose(c.says) /\ ~ConfidencePermits(c) THEN Withheld(c)
  ELSE AnswerDecision(c)

Decide(c) ==
  IF IsTerminal(c.state) THEN "NOOP"
  ELSE IF c.call \in {"failed", "canceled"} THEN RetryOrEscalate(c)
  ELSE IF Usable(c) THEN EvidenceDecision(c)
  ELSE IF c.reconcilable THEN "RECONCILE"
  ELSE RetryOrEscalate(c)

\* PolicyDecision.suppress_future_calls.
SuppressesCalls(c) ==
  /\ ~IsTerminal(c.state) /\ c.call = "completed" /\ Usable(c)
  /\ OptsOutOfCalls(c.says)

\* DECISION_TO_STATE; NOOP leaves the exception where it is.
DecidedState(decision, state) ==
  CASE decision = "RESOLVE_ON_TIME" -> "RESOLVED_ON_TIME"
    [] decision = "RESOLVE_DELAYED" -> "RESOLVED_DELAYED"
    [] decision = "RETRY" -> "RETRY_PENDING"
    [] decision = "RECONCILE" -> "RECONCILING"
    [] decision = "HUMAN_REVIEW" -> "HUMAN_REVIEW"
    [] OTHER -> state

-----------------------------------------------------------------------------
VARIABLES case, decision
vars == << case, decision >>

Init == case \in Cases /\ decision = "PENDING"

Judge ==
  /\ decision = "PENDING"
  /\ decision' = Decide(case)
  /\ UNCHANGED case

Next == Judge
Spec == Init /\ [][Next]_vars

-----------------------------------------------------------------------------
Decisions ==
  { "PENDING", "NOOP", "RETRY", "RECONCILE", "HUMAN_REVIEW",
    "RESOLVE_ON_TIME", "RESOLVE_DELAYED" }

Resolving == {"RESOLVE_ON_TIME", "RESOLVE_DELAYED"}

\* A case is decided once, by one of the decisions the engine has.
TypeOK == case \in Cases /\ decision \in Decisions

Escalates == decision = "HUMAN_REVIEW"

\* A purchase order is closed only on a completed call that reached somebody
\* entitled to answer, who confirmed receipt and asked for nobody, judged
\* complete with enough confidence, and for a delay with a date in bounds
\* (policies/evidence_policy.py 17-26; docs/prompts/decision-engine.md "Never
\* resolve when").
ResolvesOnFullEvidence ==
  decision \in Resolving =>
    /\ case.call = "completed" /\ case.reached /\ case.conforms
    /\ case.says.received = "yes"
    /\ case.says.spokeWith \notin {"wrong_person", "unknown"}
    /\ case.says.escalation \in {"none", "unknown"} /\ case.says.needsHuman # "yes"
    /\ case.taskCompleted = <<TRUE>>
    /\ \E s \in Scores : case.score = <<s>> /\ s >= MinConfidence
    /\ decision = "RESOLVE_DELAYED" =>
         \E d \in Slips :
           case.says.shipDate = <<d>> /\ 24 * d <= DelayThresholdHours

\* Confidence is a dampener: on any other judgment of the same call the decision
\* is the same one, or a person's.  It never grants a resolution, and it never
\* has the supplier called again (policies/evidence_policy.py 178 "it can hold a
\* resolution back").
ConfidenceOnlyWithholds ==
  decision # "PENDING" =>
    \A judged \in Optional(BOOLEAN), score \in Optional(Scores) :
      LET other == Decide([case EXCEPT !.taskCompleted = judged, !.score = score])
      IN other = decision \/ other = "HUMAN_REVIEW" \/ Escalates

\* Whoever asked for a person, disputed the order or wants no more calls is not
\* called again on this result, and a suppression always comes with an
\* escalation (policies/transition_policy.py 170 "not optional").
NobodyIsRedialledAgainstTheirWord ==
  /\ decision = "RETRY" /\ case.call = "completed" /\ Usable(case) =>
       case.says.escalation \in {"none", "unknown"} /\ case.says.needsHuman # "yes"
  /\ decision # "PENDING" /\ SuppressesCalls(case) => Escalates

(***************************************************************************)
(* The outcome class a case belongs to, told from the answers alone.       *)
(***************************************************************************)
Heard(c) == c.call = "completed" /\ c.reached /\ c.conforms
PersonWanted(says) ==
  says.needsHuman = "yes"
    \/ says.escalation \in {"wants_human", "disputes_po", "commercial_change"}
Trusted(c) ==
  /\ c.says.received = "yes"
  /\ c.says.spokeWith \in {"intended_contact", "authorized_representative"}
  /\ c.taskCompleted = <<TRUE>>
  /\ \E s \in Scores : c.score = <<s>> /\ s >= MinConfidence
  /\ ~PersonWanted(c.says)
NeverArrived(says) ==
  /\ says.received = "no" /\ says.status \notin {"delayed", "blocked"}
  /\ ~PersonWanted(says)

OutcomeOf(c) ==
  CASE ~c.reached -> "unreached"
    [] c.reached /\ ~Heard(c) -> "unusable"
    [] Heard(c) /\ c.says.escalation = "asked_not_to_be_called" -> "optout"
    [] /\ Heard(c) /\ c.says.escalation # "asked_not_to_be_called"
       /\ NeverArrived(c.says) -> "unusable"
    [] /\ Heard(c) /\ c.says.escalation # "asked_not_to_be_called"
       /\ Trusted(c) /\ c.says.status = "on_time" -> "ontime"
    [] /\ Heard(c) /\ c.says.escalation # "asked_not_to_be_called"
       /\ Trusted(c) /\ c.says.status = "delayed"
       /\ \E d \in Slips :
            c.says.shipDate = <<d>> /\ 24 * d <= DelayThresholdHours -> "delayed"
    [] OTHER -> "human"

\* The outcome classes of CallWorkflow lose nothing: as reconcile_call runs the
\* engine (reconciliation_available is FALSE), the state it decides is the one
\* the class leads to, and calls are suppressed exactly for "optout".
OutcomesAreFaithful ==
  decision # "PENDING" /\ ~case.reconcilable /\ ~IsTerminal(case.state) =>
    /\ DecidedState(decision, case.state)
         = DecisionState(OutcomeOf(case), Exhausted(case))
    /\ SuppressesCalls(case) <=> OutcomeOf(case) = "optout"
=============================================================================
