---------------------------- MODULE StateMachine ----------------------------
(***************************************************************************)
(* The exception lifecycle table of domain/state_machine.py and the two    *)
(* questions the code asks of it: is a state terminal, and may one state   *)
(* follow another.                                                         *)
(***************************************************************************)

ExceptionStates ==
  { "OPEN", "ELIGIBLE", "CALL_PLANNED", "CALLING", "RECONCILING",
    "RESULT_RECEIVED", "EVIDENCE_VALIDATED", "RETRY_PENDING",
    "RESOLVED_ON_TIME", "RESOLVED_DELAYED", "HUMAN_REVIEW",
    "CLOSED_UNRESOLVED" }

TerminalStates ==
  { "RESOLVED_ON_TIME", "RESOLVED_DELAYED", "HUMAN_REVIEW",
    "CLOSED_UNRESOLVED" }

IsTerminal(s) == s \in TerminalStates

\* _EXCEPTION_EDGES: a terminal state has no entry, so no successor.
NextStates(s) ==
  CASE s = "OPEN" -> {"ELIGIBLE", "HUMAN_REVIEW", "CLOSED_UNRESOLVED"}
    [] s = "ELIGIBLE" -> {"CALL_PLANNED", "HUMAN_REVIEW", "CLOSED_UNRESOLVED"}
    [] s = "CALL_PLANNED" -> {"CALLING", "HUMAN_REVIEW", "CLOSED_UNRESOLVED"}
    [] s = "CALLING" ->
         {"RESULT_RECEIVED", "RECONCILING", "RETRY_PENDING", "HUMAN_REVIEW"}
    [] s = "RECONCILING" ->
         {"RESULT_RECEIVED", "CALLING", "RETRY_PENDING", "HUMAN_REVIEW"}
    [] s = "RESULT_RECEIVED" ->
         {"EVIDENCE_VALIDATED", "RETRY_PENDING", "HUMAN_REVIEW"}
    [] s = "EVIDENCE_VALIDATED" -> TerminalStates \cup {"RETRY_PENDING"}
    [] s = "RETRY_PENDING" ->
         {"CALL_PLANNED", "HUMAN_REVIEW", "CLOSED_UNRESOLVED"}
    [] OTHER -> {}

CanTransition(s, t) == t \in NextStates(s)
=============================================================================
