------------------------ MODULE DecisionEngine_proofs ------------------------
(***************************************************************************)
(* What the decision engine promises for every budget, threshold and date. *)
(***************************************************************************)
EXTENDS DecisionEngine, TLAPS

\* A case's fields have their types.
LEMMA CaseFields ==
  ASSUME NEW c \in Cases
  PROVE  /\ c.says \in Evidence
         /\ c.score \in Optional(Scores)
         /\ c.says.shipDate \in Optional(Slips)
BY DEF Cases, Answers, Evidence

\* What an optional value holds, when it holds one.
LEMMA OptionalFacts ==
  ASSUME NEW S, NEW o \in Optional(S), o # << >>
  PROVE  \E x \in S : o = <<x>> /\ o[1] = x
BY DEF Optional

\* The engine resolves only through AnswerDecision, on an answer it trusts.
LEMMA ResolvingBranch ==
  ASSUME NEW c \in Cases, Decide(c) \in Resolving
  PROVE  /\ c.call = "completed" /\ Usable(c)
         /\ ~AsksForAPerson(c.says)
         /\ ~(CouldClose(c.says) /\ ~Identified(c.says))
         /\ ~(CouldClose(c.says) /\ ~ConfidencePermits(c))
         /\ Decide(c) = AnswerDecision(c)
<1>1. RetryOrEscalate(c) \notin Resolving
  BY DEF RetryOrEscalate, Resolving
<1>2. /\ ~IsTerminal(c.state) /\ c.call \notin {"failed", "canceled"} /\ Usable(c)
      /\ Decide(c) = EvidenceDecision(c)
  BY <1>1 DEF Decide, Resolving
<1>3. c.call = "completed"
  BY <1>2 DEF Cases
<1> QED
  BY <1>2, <1>3 DEF EvidenceDecision, Withheld, Resolving

\* What the answer of a resolution says.
LEMMA ResolvingAnswer ==
  ASSUME NEW c \in Cases, AnswerDecision(c) \in Resolving
  PROVE  /\ CouldClose(c.says)
         /\ AnswerDecision(c) = "RESOLVE_DELAYED" =>
              \E d \in Slips :
                c.says.shipDate = <<d>> /\ 24 * d <= DelayThresholdHours
<1>1. c.says.shipDate \in Optional(Slips) /\ c.says.status \in PoStatus
  BY CaseFields DEF Evidence
<1>2. RetryOrEscalate(c) \notin Resolving
  BY DEF RetryOrEscalate, Resolving
<1>3. CASE c.says.status = "on_time"
  BY <1>2, <1>3 DEF AnswerDecision, Resolving, CouldClose
<1>4. CASE c.says.status = "delayed"
  <2>1. AnswerDecision(c) = DelayDecision(c.says)
    BY <1>4 DEF AnswerDecision
  <2>2. /\ c.says.received = "yes" /\ c.says.shipDate # << >>
        /\ WithinPolicy(c.says.shipDate[1])
    BY <2>1 DEF DelayDecision, Resolving
  <2>3. PICK d \in Slips : c.says.shipDate = <<d>> /\ c.says.shipDate[1] = d
    BY <1>1, <2>2, OptionalFacts
  <2>4. 24 * d <= DelayThresholdHours
    BY <2>2, <2>3, InputAssumption, PolicyAssumption DEF WithinPolicy
  <2> QED
    BY <1>4, <2>2, <2>3, <2>4 DEF CouldClose
<1>5. CASE c.says.status = "blocked"
  BY <1>5 DEF AnswerDecision, Resolving
<1>6. CASE c.says.status = "unknown"
  BY <1>2, <1>6 DEF AnswerDecision, Resolving
<1> QED
  BY <1>1, <1>3, <1>4, <1>5, <1>6 DEF PoStatus

\* What full evidence is, of a case the engine resolves.
LEMMA ResolvedCase ==
  ASSUME NEW c \in Cases, Decide(c) \in Resolving
  PROVE  /\ c.call = "completed" /\ c.reached /\ c.conforms
         /\ c.says.received = "yes"
         /\ c.says.spokeWith \notin {"wrong_person", "unknown"}
         /\ c.says.escalation \in {"none", "unknown"} /\ c.says.needsHuman # "yes"
         /\ c.taskCompleted = <<TRUE>>
         /\ \E s \in Scores : c.score = <<s>> /\ s >= MinConfidence
         /\ Decide(c) = "RESOLVE_DELAYED" =>
              \E d \in Slips :
                c.says.shipDate = <<d>> /\ 24 * d <= DelayThresholdHours
<1>1. AnswerDecision(c) \in Resolving
  BY ResolvingBranch
<1>2. CouldClose(c.says) /\ Identified(c.says) /\ ConfidencePermits(c)
  BY <1>1, ResolvingBranch, ResolvingAnswer
<1>3. \E s \in Scores : c.score = <<s>> /\ s >= MinConfidence
  <2>1. c.score # << >> /\ c.score[1] >= MinConfidence
    BY <1>2 DEF ConfidencePermits
  <2> QED
    BY <2>1, CaseFields, OptionalFacts
<1>4. c.says.spokeWith \notin {"wrong_person", "unknown"}
  BY <1>2 DEF Identified
<1>5. c.taskCompleted = <<TRUE>> /\ c.says.received = "yes"
  BY <1>2, Zenon DEF ConfidencePermits, CouldClose
<1>6. c.call = "completed" /\ c.reached /\ c.conforms
  BY ResolvingBranch DEF Usable
<1>7. c.says.escalation \in {"none", "unknown"} /\ c.says.needsHuman # "yes"
  BY ResolvingBranch DEF AsksForAPerson
<1> QED
  BY <1>1, <1>3, <1>4, <1>5, <1>6, <1>7, ResolvingBranch, ResolvingAnswer

\* The invariant behind the theorem: a decision is the engine's, on a case.
Judged == case \in Cases /\ decision \in {"PENDING", Decide(case)}

\* It holds at first and of every step.
LEMMA JudgedHolds == Spec => []Judged
<1>1. Init => Judged
  BY DEF Init, Judged
<1>2. Judged /\ [Next]_vars => Judged'
  <2> SUFFICES ASSUME Judged, [Next]_vars PROVE Judged'
    OBVIOUS
  <2>1. CASE Judge
    BY <2>1 DEF Judged, Judge
  <2>2. CASE UNCHANGED vars
    BY <2>2 DEF Judged, vars
  <2> QED
    BY <2>1, <2>2 DEF Next
<1> QED
  BY <1>1, <1>2, PTL DEF Spec

\* For every budget, confidence threshold, delay threshold, score and ship date,
\* a purchase order is closed only on full evidence.
THEOREM ResolutionNeedsEvidence == Spec => []ResolvesOnFullEvidence
<1>1. Judged => ResolvesOnFullEvidence
  <2> SUFFICES ASSUME Judged, decision \in Resolving PROVE ResolvesOnFullEvidence
    BY DEF ResolvesOnFullEvidence
  <2>1. case \in Cases /\ decision = Decide(case)
    BY DEF Judged, Resolving
  <2> QED
    BY <2>1, ResolvedCase DEF ResolvesOnFullEvidence
<1> QED
  BY <1>1, JudgedHolds, PTL

\* The engine has no other decisions.
LEMMA DecisionsOfACase ==
  ASSUME NEW c \in Cases
  PROVE  Decide(c) \in Decisions
<1>1. RetryOrEscalate(c) \in Decisions
  BY DEF RetryOrEscalate, Decisions
<1>2. DelayDecision(c.says) \in Decisions
  BY DEF DelayDecision, Decisions
<1>3. AnswerDecision(c) \in Decisions
  BY <1>1, <1>2 DEF AnswerDecision, Decisions
<1>4. EvidenceDecision(c) \in Decisions
  BY <1>3 DEF EvidenceDecision, Withheld, Decisions
<1> QED
  BY <1>1, <1>4 DEF Decide, Decisions

\* Every case is decided, by one of the decisions that have a state to lead to
\* (transition_policy.py 217, decide).
THEOREM EveryCaseIsDecided == Spec => []TypeOK
<1>1. Judged => TypeOK
  BY DecisionsOfACase DEF Judged, TypeOK, Decisions
<1> QED
  BY <1>1, JudgedHolds, PTL

\* Two judgments of one call are told apart by the confidence gate alone.
LEMMA OtherJudgment ==
  ASSUME NEW c \in Cases, NEW judged, NEW score
  PROVE  LET other == Decide([c EXCEPT !.taskCompleted = judged, !.score = score])
         IN other = Decide(c) \/ other = "HUMAN_REVIEW" \/ Decide(c) = "HUMAN_REVIEW"
<1> DEFINE d == [c EXCEPT !.taskCompleted = judged, !.score = score]
<1>1. /\ d.state = c.state /\ d.attempts = c.attempts /\ d.reconcilable = c.reconcilable
      /\ d.call = c.call /\ d.reached = c.reached /\ d.conforms = c.conforms
      /\ d.says = c.says
  BY DEF Cases
<1> HIDE DEF d
<1>2. Usable(d) <=> Usable(c)
  BY <1>1 DEF Usable
<1>3. RetryOrEscalate(d) = RetryOrEscalate(c)
  BY <1>1 DEF RetryOrEscalate, Exhausted
<1>4. AnswerDecision(d) = AnswerDecision(c)
  BY <1>1, <1>3 DEF AnswerDecision
<1>5. \/ EvidenceDecision(d) = EvidenceDecision(c)
      \/ EvidenceDecision(d) = "HUMAN_REVIEW"
      \/ EvidenceDecision(c) = "HUMAN_REVIEW"
  BY <1>1, <1>4 DEF EvidenceDecision, Withheld
<1>6. Decide(d) = Decide(c) \/ Decide(d) = "HUMAN_REVIEW" \/ Decide(c) = "HUMAN_REVIEW"
  BY <1>1, <1>2, <1>3, <1>5 DEF Decide
<1> QED
  BY <1>6 DEF d

\* Whatever the thresholds and the scores, the provider's judgment of its own call
\* can put a decision before a person, and change it in no other way
\* (evidence_policy.py 178, confidence_permits_resolution).
THEOREM ConfidenceNeverGrants == Spec => []ConfidenceOnlyWithholds
<1>1. Judged => ConfidenceOnlyWithholds
  <2> SUFFICES ASSUME Judged, decision # "PENDING" PROVE ConfidenceOnlyWithholds
    BY DEF ConfidenceOnlyWithholds
  <2>1. case \in Cases /\ decision = Decide(case)
    BY DEF Judged
  <2> QED
    BY <2>1, OtherJudgment DEF ConfidenceOnlyWithholds, Escalates
<1> QED
  BY <1>1, JudgedHolds, PTL

\* Who asks for a person, or for no more calls, gets a person.
LEMMA AskingGetsAPerson ==
  ASSUME NEW c \in Cases, ~IsTerminal(c.state), c.call = "completed", Usable(c),
         AsksForAPerson(c.says)
  PROVE  Decide(c) = "HUMAN_REVIEW"
BY DEF Decide, EvidenceDecision

\* For every budget left and every threshold: an answer that asks for a person,
\* disputes the order or forbids calls is followed by no retry, and the suppression
\* of calls by a person (transition_policy.py 170).
THEOREM TheirWordHolds == Spec => []NobodyIsRedialledAgainstTheirWord
<1>1. Judged => NobodyIsRedialledAgainstTheirWord
  <2> SUFFICES ASSUME Judged, decision # "PENDING" PROVE NobodyIsRedialledAgainstTheirWord
    BY DEF NobodyIsRedialledAgainstTheirWord
  <2>1. case \in Cases /\ decision = Decide(case)
    BY DEF Judged
  <2>2. ASSUME decision = "RETRY", case.call = "completed", Usable(case)
        PROVE  ~AsksForAPerson(case.says)
    <3>1. ~IsTerminal(case.state)
      BY <2>1, <2>2 DEF Decide
    <3> QED
      BY <2>1, <2>2, <3>1, AskingGetsAPerson
  <2>3. ASSUME SuppressesCalls(case) PROVE Escalates
    <3>1. AsksForAPerson(case.says)
      BY <2>3 DEF SuppressesCalls, OptsOutOfCalls, AsksForAPerson
    <3> QED
      BY <2>1, <2>3, <3>1, AskingGetsAPerson DEF SuppressesCalls, Escalates
  <2> QED
    BY <2>2, <2>3 DEF NobodyIsRedialledAgainstTheirWord, AsksForAPerson
<1> QED
  BY <1>1, JudgedHolds, PTL

-----------------------------------------------------------------------------
\* The gates of the engine, in the words of OutcomeOf.
LEMMA Gates ==
  ASSUME NEW c \in Cases
  PROVE  /\ ConfidencePermits(c) <=>
              /\ c.taskCompleted = <<TRUE>>
              /\ \E s \in Scores : c.score = <<s>> /\ s >= MinConfidence
         /\ (c.says.shipDate # << >> /\ WithinPolicy(c.says.shipDate[1])) <=>
              \E d \in Slips :
                c.says.shipDate = <<d>> /\ 24 * d <= DelayThresholdHours
<1>1. (c.score # << >> /\ c.score[1] >= MinConfidence) <=>
        \E s \in Scores : c.score = <<s>> /\ s >= MinConfidence
  BY CaseFields, OptionalFacts
<1>2. \A d \in Slips : WithinPolicy(d) <=> 24 * d <= DelayThresholdHours
  BY InputAssumption, PolicyAssumption DEF WithinPolicy
<1>3. (c.says.shipDate # << >> /\ WithinPolicy(c.says.shipDate[1])) <=>
        \E d \in Slips :
          c.says.shipDate = <<d>> /\ 24 * d <= DelayThresholdHours
  BY <1>2, CaseFields, OptionalFacts
<1> QED
  BY <1>1, <1>3, Zenon DEF ConfidencePermits

\* A slice that could not be used is retried, whatever the reason.
LEMMA UnheardIsRetried ==
  ASSUME NEW c \in Cases, ~IsTerminal(c.state), ~c.reconcilable, ~Heard(c)
  PROVE  Decide(c) = RetryOrEscalate(c) /\ OutcomeOf(c) \in Retryable
<1>1. Decide(c) = RetryOrEscalate(c)
  BY DEF Heard, Usable, Decide, Cases
<1>2. CASE ~c.reached
  BY <1>1, <1>2 DEF OutcomeOf, Retryable, Heard
<1>3. CASE c.reached
  BY <1>1, <1>3 DEF OutcomeOf, Retryable, Heard
<1> QED
  BY <1>1, <1>2, <1>3

\* What was heard without a wish for a person is decided on the answer.
LEMMA HeardIsJudged ==
  ASSUME NEW c \in Cases, ~IsTerminal(c.state), Heard(c)
  PROVE  Decide(c) = EvidenceDecision(c)
BY DEF Heard, Usable, Decide

\* For each class of answers, the decision and the class.
LEMMA ClassOfAnAnswer ==
  ASSUME NEW c \in Cases, Heard(c), ~AsksForAPerson(c.says)
  PROVE  \/ OutcomeOf(c) = "unusable" /\ EvidenceDecision(c) = RetryOrEscalate(c)
         \/ OutcomeOf(c) = "ontime" /\ EvidenceDecision(c) = "RESOLVE_ON_TIME"
         \/ OutcomeOf(c) = "delayed" /\ EvidenceDecision(c) = "RESOLVE_DELAYED"
         \/ OutcomeOf(c) = "human" /\ EvidenceDecision(c) = "HUMAN_REVIEW"
<1> DEFINE InTime == c.says.shipDate # << >> /\ WithinPolicy(c.says.shipDate[1])
           Slip == \E d \in Slips :
                     c.says.shipDate = <<d>> /\ 24 * d <= DelayThresholdHours
           Sure == ConfidencePermits(c) /\ Identified(c.says)
<1>1. ~PersonWanted(c.says) /\ c.says.escalation # "asked_not_to_be_called"
  BY DEF AsksForAPerson, PersonWanted
<1>2. InTime <=> Slip
  BY Gates
<1>3. Trusted(c) <=> c.says.received = "yes" /\ Sure
  BY <1>1, Gates DEF Trusted, Identified
<1>4. /\ c.says.status \in {"on_time", "delayed", "blocked", "unknown"}
      /\ c.says.received \in {"yes", "no", "unknown"}
  BY CaseFields DEF Evidence, PoStatus, Received
<1>5. NeverArrived(c.says) <=>
        c.says.received = "no" /\ c.says.status \notin {"delayed", "blocked"}
  BY <1>1 DEF NeverArrived
<1>6. c.reached
  BY DEF Heard
<1>7. CouldClose(c.says) <=>
        c.says.received = "yes" /\ c.says.status \in {"on_time", "delayed"}
  BY DEF CouldClose
<1>8. EvidenceDecision(c) = IF CouldClose(c.says) /\ ~Sure THEN "HUMAN_REVIEW"
                            ELSE AnswerDecision(c)
  BY DEF EvidenceDecision, Withheld
<1>9. DelayDecision(c.says) = IF InTime /\ c.says.received = "yes"
                              THEN "RESOLVE_DELAYED" ELSE "HUMAN_REVIEW"
  BY DEF DelayDecision
<1> HIDE DEF Sure, InTime, Slip
<1>10. CASE NeverArrived(c.says)
  <2>1. OutcomeOf(c) = "unusable"
    BY <1>1, <1>3, <1>5, <1>6, <1>10 DEF OutcomeOf
  <2>2. EvidenceDecision(c) = RetryOrEscalate(c)
    BY <1>4, <1>5, <1>7, <1>8, <1>10 DEF AnswerDecision
  <2> QED BY <2>1, <2>2
<1>11. CASE Trusted(c) /\ c.says.status = "on_time"
  <2>1. OutcomeOf(c) = "ontime"
    BY <1>1, <1>3, <1>5, <1>6, <1>11 DEF OutcomeOf
  <2>2. EvidenceDecision(c) = "RESOLVE_ON_TIME"
    BY <1>3, <1>7, <1>8, <1>11 DEF AnswerDecision
  <2> QED BY <2>1, <2>2
<1>12. CASE Trusted(c) /\ c.says.status = "delayed" /\ Slip
  <2>1. OutcomeOf(c) = "delayed"
    BY <1>1, <1>3, <1>5, <1>6, <1>12 DEF OutcomeOf, Slip
  <2>2. EvidenceDecision(c) = "RESOLVE_DELAYED"
    BY <1>2, <1>3, <1>7, <1>8, <1>9, <1>12 DEF AnswerDecision
  <2> QED BY <2>1, <2>2
<1>13. CASE /\ ~NeverArrived(c.says) /\ ~(Trusted(c) /\ c.says.status = "on_time")
            /\ ~(Trusted(c) /\ c.says.status = "delayed" /\ Slip)
  <2>1. OutcomeOf(c) = "human"
    BY <1>1, <1>6, <1>13 DEF OutcomeOf, Slip
  <2>2. EvidenceDecision(c) = "HUMAN_REVIEW"
    <3>1. CASE CouldClose(c.says) /\ ~Sure
      BY <3>1, <1>8
    <3>2. CASE ~(CouldClose(c.says) /\ ~Sure)
      BY <3>2, <1>2, <1>3, <1>4, <1>5, <1>7, <1>8, <1>9, <1>13 DEF AnswerDecision
    <3> QED BY <3>1, <3>2
  <2> QED BY <2>1, <2>2
<1> QED
  BY <1>10, <1>11, <1>12, <1>13

\* An opt-out is its own class, and any other wish for a person is "human".
LEMMA ClassOfAWish ==
  ASSUME NEW c \in Cases, Heard(c), AsksForAPerson(c.says)
  PROVE  /\ OutcomeOf(c) \in {"optout", "human"}
         /\ OutcomeOf(c) = "optout" <=>
              c.says.escalation = "asked_not_to_be_called"
<1>1. c.reached
  BY DEF Heard
<1>2. CASE c.says.escalation = "asked_not_to_be_called"
  BY <1>1, <1>2 DEF OutcomeOf
<1>3. CASE c.says.escalation # "asked_not_to_be_called"
  <2>1. PersonWanted(c.says)
    BY <1>3, CaseFields DEF AsksForAPerson, PersonWanted, Evidence,
                            EscalationReasons
  <2>2. ~NeverArrived(c.says) /\ ~Trusted(c)
    BY <2>1 DEF NeverArrived, Trusted
  <2>3. OutcomeOf(c) = "human"
    BY <1>1, <1>3, <2>2 DEF OutcomeOf
  <2> QED BY <1>3, <2>3
<1> QED BY <1>2, <1>3

\* For every budget and threshold, the seven outcome classes that CallWorkflow
\* explores lead where the engine leads (DECISION_TO_STATE over decide).
THEOREM ClassesAreFaithful == Spec => []OutcomesAreFaithful
<1>1. ASSUME NEW c \in Cases, ~IsTerminal(c.state), ~c.reconcilable
      PROVE  /\ DecidedState(Decide(c), c.state)
                  = DecisionState(OutcomeOf(c), Exhausted(c))
             /\ SuppressesCalls(c) <=> OutcomeOf(c) = "optout"
  <2>1. DecidedState(RetryOrEscalate(c), c.state)
          = IF Exhausted(c) THEN "HUMAN_REVIEW" ELSE "RETRY_PENDING"
    BY DEF DecidedState, RetryOrEscalate
  <2>2. SuppressesCalls(c) <=>
          Heard(c) /\ c.says.escalation = "asked_not_to_be_called"
    BY <1>1 DEF SuppressesCalls, Usable, OptsOutOfCalls, Heard
  <2>3. CASE ~Heard(c)
    BY <1>1, <2>1, <2>2, <2>3, UnheardIsRetried DEF DecisionState, Retryable
  <2>4. CASE Heard(c) /\ AsksForAPerson(c.says)
    <3>1. Decide(c) = "HUMAN_REVIEW"
      BY <1>1, <2>4, AskingGetsAPerson DEF Heard, Usable
    <3> QED
      BY <2>2, <2>4, <3>1, ClassOfAWish DEF DecidedState, DecisionState, Retryable
  <2>5. CASE Heard(c) /\ ~AsksForAPerson(c.says)
    <3>1. Decide(c) = EvidenceDecision(c)
      BY <1>1, <2>5, HeardIsJudged
    <3>2. c.says.escalation # "asked_not_to_be_called"
      BY <2>5 DEF AsksForAPerson
    <3> QED
      BY <2>1, <2>2, <2>5, <3>1, <3>2, ClassOfAnAnswer
         DEF DecidedState, DecisionState, Retryable
  <2> QED
    BY <2>3, <2>4, <2>5
<1>2. Judged => OutcomesAreFaithful
  <2> SUFFICES ASSUME Judged, decision # "PENDING" PROVE OutcomesAreFaithful
    BY DEF OutcomesAreFaithful
  <2>1. case \in Cases /\ decision = Decide(case)
    BY DEF Judged
  <2> QED
    BY <1>1, <2>1 DEF OutcomesAreFaithful
<1> QED
  BY <1>2, JudgedHolds, PTL
=============================================================================
