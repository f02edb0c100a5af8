------------------------------ MODULE Verdicts ------------------------------
(***************************************************************************)
(* What a finished call may have said of one recipient, as far as the      *)
(* workflow can tell the answers apart, and the state each leads to.       *)
(* DecisionEngine shows that this is what the decision engine does.        *)
(***************************************************************************)
EXTENDS StateMachine

AllOutcomes ==
  { "missing",     \* the terminal call has no slice for the recipient
    "unreached",   \* no conversation took place
    "unusable",    \* a conversation without a usable result, or "not received"
    "ontime", "delayed", "human", "optout" }

\* Outcomes after which another attempt may be made.
Retryable == {"unreached", "unusable"}

\* Plausible slip: no usable result is read as a confirmation.
DecisionStateOptimistic(says, spent) ==
  CASE says \in Retryable \cup {"ontime"} -> "RESOLVED_ON_TIME"
    [] says = "delayed" -> "RESOLVED_DELAYED"
    [] OTHER -> "HUMAN_REVIEW"

\* Plausible slip: no usable result keeps waiting for a reconciliation.
DecisionStateWaiting(says, spent) ==
  CASE says \in Retryable -> "RECONCILING"
    [] says = "ontime" -> "RESOLVED_ON_TIME"
    [] says = "delayed" -> "RESOLVED_DELAYED"
    [] OTHER -> "HUMAN_REVIEW"

\* decide() and DECISION_TO_STATE over the outcome classes.
DecisionState(says, spent) ==
  CASE says \in Retryable -> IF spent THEN "HUMAN_REVIEW" ELSE "RETRY_PENDING"
    [] says = "ontime" -> "RESOLVED_ON_TIME"
    [] says = "delayed" -> "RESOLVED_DELAYED"
    [] OTHER -> "HUMAN_REVIEW"
=============================================================================
