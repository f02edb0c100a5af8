------------------------------ MODULE Lifecycle ------------------------------
(***************************************************************************)
(* What the call workflow promises for one purchase-order exception,       *)
(* whatever processes, messages and crashes carry it out: which committed  *)
(* states may follow which, how many times the supplier may be dialled,    *)
(* and that a resolution is something the supplier said.                   *)
(*                                                                         *)
(* One database transaction may move several exceptions, so a step moves   *)
(* each of them or leaves it alone.                                        *)
(***************************************************************************)
EXTENDS Naturals, FiniteSets, StateMachine

CONSTANTS
  Exceptions,
  MaxAttempts,  \* how often a supplier may be dialled
  Outcomes      \* what a call may report

VARIABLES
  state,   \* the committed state of each exception
  calls,   \* the calls that were placed to its supplier
  heard    \* what they reported of it

vars == << state, calls, heard >>

Init ==
  /\ state = [e \in Exceptions |-> "OPEN"]
  /\ calls = [e \in Exceptions |-> {}]
  /\ heard = [e \in Exceptions |-> {}]

Stays(e) == UNCHANGED << state[e], calls[e], heard[e] >>

MoveTo(e, s) == state'[e] = s /\ UNCHANGED << calls[e], heard[e] >>

Plan(e) == state[e] \in {"OPEN", "RETRY_PENDING"} /\ MoveTo(e, "CALL_PLANNED")

Dial(e) ==
  /\ Cardinality(calls[e]) < MaxAttempts
  /\ calls[e] \subseteq calls'[e]
  /\ Cardinality(calls'[e]) = Cardinality(calls[e]) + 1
  /\ UNCHANGED << state[e], heard[e] >>

\* CALLING claims that a call was placed.
Start(e) ==
  state[e] = "CALL_PLANNED" /\ calls[e] # {} /\ MoveTo(e, "CALLING")

Hear(e) ==
  /\ calls[e] # {}
  /\ \E o \in Outcomes : heard'[e] = heard[e] \cup {o}
  /\ UNCHANGED << state[e], calls[e] >>

Reconcile(e) == state[e] = "CALLING" /\ MoveTo(e, "RECONCILING")
StillCalling(e) == state[e] = "RECONCILING" /\ MoveTo(e, "CALLING")

InCall(e) == state[e] \in {"CALLING", "RECONCILING"}

Resolve(e) ==
  /\ InCall(e)
  /\ \/ "ontime" \in heard[e] /\ MoveTo(e, "RESOLVED_ON_TIME")
     \/ "delayed" \in heard[e] /\ MoveTo(e, "RESOLVED_DELAYED")

Release(e) == InCall(e) /\ MoveTo(e, "RETRY_PENDING")
Escalate(e) == ~IsTerminal(state[e]) /\ MoveTo(e, "HUMAN_REVIEW")

Close(e) ==
  /\ state[e] \in {"OPEN", "CALL_PLANNED", "RETRY_PENDING"}
  /\ MoveTo(e, "CLOSED_UNRESOLVED")

Moves(e) ==
  \/ Plan(e) \/ Dial(e) \/ Start(e) \/ Hear(e) \/ Reconcile(e)
  \/ StillCalling(e) \/ Resolve(e) \/ Release(e) \/ Escalate(e) \/ Close(e)

Next == \A e \in Exceptions : Moves(e) \/ Stays(e)

Spec == Init /\ [][Next]_vars
=============================================================================
