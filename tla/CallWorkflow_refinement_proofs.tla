------------------- MODULE CallWorkflow_refinement_proofs -------------------
(***************************************************************************)
(* CallWorkflow implements Lifecycle, for any constants: its rows move     *)
(* along the contract's edges, each call that starts is one dial within    *)
(* the budget, and each call that ends is heard once by each supplier's    *)
(* exception it was about.                                                 *)
(***************************************************************************)
EXTENDS CallWorkflow_safety_proofs

\* What the calls to the supplier of e have reported of it.
HeardOf(e) == {slice[e][n] : n \in Slots} \ {"none", "missing"}

LEMMA SameCardinality == \A S : Contract!Cardinality(S) = Cardinality(S)
BY Zenon DEF Contract!Cardinality, Cardinality

\* The contract's variables for one exception.
LEMMA Mapping ==
  ASSUME NEW e \in Exceptions
  PROVE  /\ Contract!Stays(e) <=>
              /\ exc'[e].state = exc[e].state
              /\ CallsTo(e)' = CallsTo(e) /\ HeardOf(e)' = HeardOf(e)
         /\ \A s : Contract!MoveTo(e, s) <=>
              /\ exc'[e].state = s
              /\ CallsTo(e)' = CallsTo(e) /\ HeardOf(e)' = HeardOf(e)
         /\ Contract!Dial(e) <=>
              /\ Cardinality(CallsTo(e)) < MaxAttempts
              /\ CallsTo(e) \subseteq CallsTo(e)'
              /\ Cardinality(CallsTo(e)') = Cardinality(CallsTo(e)) + 1
              /\ exc'[e].state = exc[e].state /\ HeardOf(e)' = HeardOf(e)
         /\ Contract!Hear(e) <=>
              /\ CallsTo(e) # {}
              /\ \E o \in Outcomes : HeardOf(e)' = HeardOf(e) \cup {o}
              /\ exc'[e].state = exc[e].state /\ CallsTo(e)' = CallsTo(e)
<1>1. /\ [x \in Exceptions |-> exc[x].state][e] = exc[e].state
      /\ [x \in Exceptions |-> exc'[x].state][e] = exc'[e].state
      /\ [x \in Exceptions |-> CallsTo(x)][e] = CallsTo(e)
      /\ [x \in Exceptions |-> CallsTo(x)'][e] = CallsTo(e)'
      /\ [x \in Exceptions |-> HeardOf(x)][e] = HeardOf(e)
      /\ [x \in Exceptions |-> HeardOf(x)'][e] = HeardOf(e)'
  OBVIOUS
<1>2. Contract!Stays(e) <=>
              /\ exc'[e].state = exc[e].state
              /\ CallsTo(e)' = CallsTo(e) /\ HeardOf(e)' = HeardOf(e)
  BY <1>1 DEF Contract!Stays, HeardOf
<1>3. \A s : Contract!MoveTo(e, s) <=>
              /\ exc'[e].state = s
              /\ CallsTo(e)' = CallsTo(e) /\ HeardOf(e)' = HeardOf(e)
  BY <1>1 DEF Contract!MoveTo, HeardOf
<1>4. Contract!Dial(e) <=>
              /\ Cardinality(CallsTo(e)) < MaxAttempts
              /\ CallsTo(e) \subseteq CallsTo(e)'
              /\ Cardinality(CallsTo(e)') = Cardinality(CallsTo(e)) + 1
              /\ exc'[e].state = exc[e].state /\ HeardOf(e)' = HeardOf(e)
  BY <1>1, SameCardinality DEF Contract!Dial, HeardOf
<1>5. Contract!Hear(e) <=>
              /\ CallsTo(e) # {}
              /\ \E o \in Outcomes : HeardOf(e)' = HeardOf(e) \cup {o}
              /\ exc'[e].state = exc[e].state /\ CallsTo(e)' = CallsTo(e)
  BY <1>1 DEF Contract!Hear, HeardOf
<1> QED
  BY <1>2, <1>3, <1>4, <1>5

\* A step that starts and ends no call moves rows as the contract does.
LEMMA RowsRefine ==
  ASSUME Inv, [Next]_vars, NEW e \in Exceptions,
         CallsTo(e)' = CallsTo(e), HeardOf(e)' = HeardOf(e)
  PROVE  Contract!Moves(e) \/ Contract!Stays(e)
<1> DEFINE s == exc[e].state
           t == exc'[e].state
           Calls == CallsTo(e)
           Heard == HeardOf(e)
<1>1. RowStep(e)
  BY Rows
<1>2. CASE t = s
  BY <1>2, Mapping
<1>3. CASE RowMove(e, s, t)
  <2>1. \A u : Contract!MoveTo(e, u) <=> t = u
    BY Mapping
  <2>2. ASSUME Awaiting(s), t \in {"RESOLVED_ON_TIME", "RESOLVED_DELAYED"},
               \E k \in CallsTo(e) : Supports(k, e, t)
        PROVE  Contract!Resolve(e)
    <3>1. PICK k \in CallsTo(e) : Supports(k, e, t)
      BY <2>2
    <3>2. k[e] \in Slots
      BY KeyFacts DEF CallsTo
    <3>3. IF t = "RESOLVED_ON_TIME" THEN "ontime" \in HeardOf(e) ELSE "delayed" \in HeardOf(e)
      BY <3>1, <3>2 DEF Supports, HeardOf
    <3> QED
      BY <2>1, <2>2, <3>3
      DEF Contract!Resolve, Contract!InCall, Awaiting, HeardOf
  <2>3. CASE s \in {"OPEN", "RETRY_PENDING"} /\ t = "CALL_PLANNED"
    BY <2>1, <2>3 DEF Contract!Moves, Contract!Plan
  <2>4. CASE ~IsTerminal(s) /\ t = "HUMAN_REVIEW"
    BY <2>1, <2>4
    DEF Contract!Moves, Contract!Escalate, Contract!IsTerminal, Contract!TerminalStates,
        IsTerminal, TerminalStates
  <2>5. CASE s \in {"OPEN", "CALL_PLANNED", "RETRY_PENDING"} /\ t = "CLOSED_UNRESOLVED"
    BY <2>1, <2>5 DEF Contract!Moves, Contract!Close
  <2>6. CASE s = "CALL_PLANNED" /\ t = "CALLING" /\ CallsTo(e) \cap linked' # {}
    BY <2>1, <2>6 DEF Contract!Moves, Contract!Start
  <2>7. CASE s = "CALLING" /\ t = "RECONCILING"
    BY <2>1, <2>7 DEF Contract!Moves, Contract!Reconcile
  <2>8. CASE s = "RECONCILING" /\ t = "CALLING"
    BY <2>1, <2>8 DEF Contract!Moves, Contract!StillCalling
  <2>9. CASE Awaiting(s) /\ t = "RETRY_PENDING"
    BY <2>1, <2>9 DEF Contract!Moves, Contract!Release, Contract!InCall, Awaiting
  <2> QED
    BY <1>3, <2>2, <2>3, <2>4, <2>5, <2>6, <2>7, <2>8, <2>9 DEF RowMove, Contract!Moves
<1> QED
  BY <1>1, <1>2, <1>3 DEF RowStep

\* A create that arrives, in time or late, dials the suppliers of its key once;
\* one that does not dials nobody.
LEMMA CreateRefines ==
  ASSUME Inv, DialsWithinBudget', [Next]_vars,
         NEW k \in Keys, UNCHANGED << exc, slice >>,
         \A j \in Keys : call'[j] = call[j]
           \/ (j = k /\ call[k] = "none" /\ call'[k] = "running"),
         NEW e \in Exceptions
  PROVE  Contract!Moves(e) \/ Contract!Stays(e)
<1>1. HeardOf(e)' = HeardOf(e)
  BY DEF HeardOf
<1>2. CASE CallsTo(e)' = CallsTo(e)
  BY <1>1, <1>2, RowsRefine
<1>3. CASE CallsTo(e)' # CallsTo(e)
  <2>1. CallsTo(e)' = CallsTo(e) \cup {k} /\ k \notin CallsTo(e)
    BY <1>3 DEF CallsTo
  <2>2. IsFiniteSet(CallsTo(e))
    BY CallsCounted DEF Inv
  <2>3. Cardinality(CallsTo(e)') <= MaxAttempts
    BY DEF DialsWithinBudget
  <2>4. Cardinality(CallsTo(e)') = Cardinality(CallsTo(e)) + 1
    BY <2>1, <2>2, FS_AddElement
  <2>5. Cardinality(CallsTo(e)) \in Nat
    BY <2>2, FS_CardinalityType
  <2>6. Cardinality(CallsTo(e)) < MaxAttempts
    BY <2>3, <2>4, <2>5, AttemptsAssumption
  <2>7. Contract!Dial(e)
    BY <1>1, <2>1, <2>4, <2>6, Mapping
  <2> QED
    BY <2>7 DEF Contract!Moves
<1> QED
  BY <1>2, <1>3

\* A call that ends is heard by the exceptions it was about, unless it says
\* nothing of them.
LEMMA FinishRefines ==
  ASSUME Inv, [Next]_vars, NEW k \in Keys, FinishCall(k), NEW e \in Exceptions
  PROVE  Contract!Moves(e) \/ Contract!Stays(e)
<1>1. /\ call[k] = "running" /\ exc'[e].state = exc[e].state
      /\ \A j \in Keys : call'[j] # "none" <=> call[j] # "none"
  BY FinishFacts DEF Inv
<1>2. CallsTo(e)' = CallsTo(e)
  BY <1>1 DEF CallsTo
<1>3. CASE e \notin DOMAIN k
  <2>1. \A n \in Slots : slice'[e][n] = slice[e][n]
    BY <1>3, FinishFacts DEF Inv
  <2>2. HeardOf(e)' = HeardOf(e)
    BY <2>1 DEF HeardOf
  <2> QED
    BY <1>1, <1>2, <2>2, Mapping
<1>4. CASE e \in DOMAIN k
  <2> DEFINE o == slice'[e][k[e]]
  <2>1. k[e] \in Slots /\ o \in Outcomes
    BY <1>4, KeyFacts, FinishFacts DEF Inv
  <2>2. slice[e][k[e]] = "none"
    BY <1>1, <1>4 DEF Inv, AttemptsClaimedOnce, Slices, CallEnded
  <2>3. \A n \in Slots \ {k[e]} : slice'[e][n] = slice[e][n]
    BY <1>4, FinishFacts DEF Inv
  <2>4. o # "none"
    BY <2>1, OutcomesAssumption DEF AllOutcomes
  <2>5. k \in CallsTo(e)
    BY <1>1, <1>4 DEF CallsTo
  <2>6. CASE o = "missing"
    <3>1. HeardOf(e)' = HeardOf(e)
      BY <2>1, <2>2, <2>3, <2>6 DEF HeardOf
    <3> QED
      BY <1>1, <1>2, <3>1, Mapping
  <2>7. CASE o # "missing"
    <3>1. HeardOf(e)' = HeardOf(e) \cup {o}
      BY <2>1, <2>2, <2>3, <2>4, <2>7 DEF HeardOf
    <3>2. Contract!Hear(e)
      BY <1>1, <1>2, <2>1, <2>5, <3>1, Mapping
    <3> QED
      BY <3>2 DEF Contract!Moves
  <2> QED
    BY <2>6, <2>7
<1> QED
  BY <1>3, <1>4

\* The initial states are the contract's.
LEMMA InitRefines == Init => Contract!Init
<1> SUFFICES ASSUME Init PROVE Contract!Init
  OBVIOUS
<1>1. \A e \in Exceptions : exc[e].state = "OPEN" /\ CallsTo(e) = {} /\ HeardOf(e) = {}
  BY DEF Init, CallsTo, HeardOf
<1> QED
  BY <1>1 DEF Contract!Init, HeardOf

\* Every step is a step of the contract.
LEMMA StepRefines ==
  ASSUME Inv, DialsWithinBudget', [Next]_vars
  PROVE  Contract!Next
<1> SUFFICES ASSUME NEW e \in Exceptions PROVE Contract!Moves(e) \/ Contract!Stays(e)
  BY DEF Contract!Next
<1>1. CASE UNCHANGED << call, slice >>
  <2>1. CallsTo(e)' = CallsTo(e) /\ HeardOf(e)' = HeardOf(e)
    BY <1>1 DEF CallsTo, HeardOf
  <2> QED
    BY <2>1, RowsRefine
<1>2. ASSUME \/ \E d \in Dispatchers : CreateStep(d)
             \/ \E k \in Keys : CreateLands(k)
      PROVE  Contract!Moves(e) \/ Contract!Stays(e)
  <2>1. PICK k \in Keys :
          /\ UNCHANGED << exc, slice >>
          /\ \A j \in Keys : call'[j] = call[j]
               \/ (j = k /\ call[k] = "none" /\ call'[k] = "running")
    BY <1>2, CreateFacts, LandFacts
  <2> QED
    BY <2>1, CreateRefines
<1>3. ASSUME NEW k \in Keys, FinishCall(k)
      PROVE  Contract!Moves(e) \/ Contract!Stays(e)
  BY <1>3, FinishRefines
<1>4. \/ UNCHANGED << call, slice >>
      \/ \E d \in Dispatchers : CreateStep(d)
      \/ \E k \in Keys : CreateLands(k) \/ FinishCall(k)
  BY StepKinds, PlannedKey, RecordFactsOfCall, ApplyFacts
  DEF QuietStep, Webhook, OutboxUnknownCall, provider, Inv
<1> QED
  BY <1>1, <1>2, <1>3, <1>4

\* The workflow implements the contract of the lifecycle: whatever its
\* processes, messages, crashes and operators do, an exception's committed
\* states, the calls to its supplier and what they reported evolve as Lifecycle
\* allows.
THEOREM WorkflowImplementsLifecycle == Spec => ImplementsLifecycle
<1>1. Inv /\ DialsWithinBudget' /\ [Next]_vars => [Contract!Next]_(Contract!vars)
  BY StepRefines
<1> QED
  BY <1>1, InitRefines, InvariantHolds, DialBudget, PTL
  DEF Spec, ImplementsLifecycle, Contract!Spec
=============================================================================
