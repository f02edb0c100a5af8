--------------------- MODULE CallWorkflow_claims_proofs ---------------------
(***************************************************************************)
(* What holds of CallWorkflow where dispatches do not overlap, or where    *)
(* nobody triggers calls by hand: claims are disjoint, an opt-out is       *)
(* respected, a supplier is on one call, and an answer is not written      *)
(* without its exception.  Without such a condition each of these fails.   *)
(***************************************************************************)
EXTENDS CallWorkflow_safety_proofs

-----------------------------------------------------------------------------
(***************************************************************************)
(* The conditions and the invariants.                                      *)
(***************************************************************************)

\* A request that resolves exceptions is not handled beside any other dispatch;
\* any number of scanners may run where there are none.
OneAtATime == \A c, d \in Dispatchers : c \in Apis => c = d

\* At most one process applies results.
OneWorker == \A w, x \in Workers : w = x

\* A planned exception is not planned again by a scanner.
Waits(e) == exc[e].state = "CALL_PLANNED" \/ IsTerminal(exc[e].state)

\* A dispatcher has the latest attempts in hand.
Current ==
  \A d \in Dispatchers : disp[d].pc # "idle" =>
    \A e \in DOMAIN disp[d].key :
      disp[d].key[e] = count[e] /\ (Apis = {} => Waits(e))

\* A call that runs, or may still start late, is of the latest attempt of each
\* member, who waits for its id to be stored, or whose attempt is then DISPATCHED.
Live(k) == call[k] = "running" \/ k \in flying

LiveCalls ==
  \A k \in Keys : Live(k) => \A e \in DOMAIN k :
    /\ k[e] = count[e]
    /\ k \notin linked => Waits(e)
    /\ k \in linked => att[e][k[e]] = "DISPATCHED"

\* A recipient id is known through the call that is linked.
Correlated ==
  \A e \in Exceptions, n \in Slots : <<e, n>> \in rid =>
    \E j \in linked : e \in DOMAIN j /\ j[e] = n

\* Where an attempt's result is written, or a later attempt was made, the call
\* is over; if it brought an opt-out, that is recorded, or its exception settled,
\* and no later attempt was made.
Heard ==
  \A j \in linked : \A e \in DOMAIN j : <<e, j[e]>> \in rid =>
    /\ att[e][j[e]] # "DISPATCHED" =>
         /\ CallEnded(j)
         /\ slice[e][j[e]] = "optout" => exc[e].blocked \/ IsTerminal(exc[e].state)
    /\ j[e] < count[e] =>
         att[e][j[e]] # "DISPATCHED" /\ slice[e][j[e]] # "optout"

\* No dispatcher has somebody in hand who opted out.
Willing ==
  \A d \in Dispatchers : disp[d].pc # "idle" =>
    \A e \in DOMAIN disp[d].key : ~exc[e].blocked

\* Nothing is written of an attempt before its call is recorded.
Pending ==
  \A d \in Dispatchers : disp[d].pc # "idle" =>
    \A e \in DOMAIN disp[d].key : att[e][disp[d].key[e]] = "PENDING"

\* What a worker has read of an exception that awaits the answer it brings is
\* the row itself.
UpToDate ==
  \A w \in Workers : wk[w].pc = "apply" => \A e \in DOMAIN wk[w].key :
    wk[w].key[e] = count[e] /\ Awaiting(OwnRecord(w, e).state)
      => wk[w].seen[e].version = OwnRecord(w, e).version

\* AwaitingIsUnanswered, and where recipient ids are never missing the attempt of
\* one who awaits an answer is DISPATCHED, which holds back the next.
Unanswered ==
  \A e \in Exceptions : Awaiting(exc[e].state) =>
    \E k \in CallsTo(e) \cap linked :
      /\ k[e] = count[e] /\ att[e][k[e]] \in {"PENDING", "DISPATCHED"}
      /\ ShortReplies \/ att[e][k[e]] = "DISPATCHED"

-----------------------------------------------------------------------------
(***************************************************************************)
(* Who counts attempts, and who writes their results.                      *)
(***************************************************************************)

\* Staging counts the attempts of those that are ready, and touches nobody else.
LEMMA StagedFacts ==
  ASSUME TypeOK, NEW S \in SUBSET Exceptions, StageAttempts(S)
  PROVE  /\ ReadyIn(S) \subseteq S
         /\ \A e \in ReadyIn(S) : count'[e] = count[e] + 1
         /\ \A e \in ReadyIn(S) : count'[e] \in Slots
         /\ \A e \in Exceptions \ ReadyIn(S) : count'[e] = count[e] /\ att'[e] = att[e]
         /\ \A e \in ReadyIn(S) : att'[e][count'[e]] = "PENDING"
         /\ \A e \in Exceptions, n \in Slots : n <= count[e] => att'[e][n] = att[e][n]
<1>1. ReadyIn(S) \subseteq S
  BY DEF ReadyIn
<1>2. \A e \in ReadyIn(S) :
        /\ count'[e] = count[e] + 1
        /\ att'[e] = [att[e] EXCEPT ![count[e] + 1] = "PENDING"]
  BY <1>1 DEF StageAttempts, NextAttemptNo
<1>3. \A e \in Exceptions \ ReadyIn(S) : count'[e] = count[e] /\ att'[e] = att[e]
  BY DEF StageAttempts
<1>4. \A e \in Exceptions : count[e] \in 0 .. MaxAttempts /\ att[e] \in [Slots -> AttemptStatus]
  BY DEF TypeOK
<1>5. \A e \in Exceptions : count[e] + 1 \in Slots
  BY <1>4, AttemptsAssumption DEF Slots
<1>6. ASSUME NEW e \in ReadyIn(S) PROVE att'[e][count'[e]] = "PENDING"
  <2>1. e \in Exceptions
    BY <1>1
  <2>2. /\ count'[e] = count[e] + 1 /\ count[e] + 1 \in Slots
        /\ att'[e] = [att[e] EXCEPT ![count[e] + 1] = "PENDING"]
        /\ att[e] \in [Slots -> AttemptStatus]
    BY <1>2, <1>4, <1>5, <2>1
  <2> QED
    BY <2>2
<1>7. \A e \in Exceptions, n \in Slots : n <= count[e] => att'[e][n] = att[e][n]
  <2> SUFFICES ASSUME NEW e \in Exceptions, NEW n \in Slots, n <= count[e]
               PROVE  att'[e][n] = att[e][n]
    OBVIOUS
  <2>1. n # count[e] + 1
    BY <1>4, AttemptsAssumption DEF Slots
  <2> QED
    BY <1>2, <1>3, <1>4, <2>1
<1> QED
  BY <1>1, <1>2, <1>3, <1>5, <1>6, <1>7

\* Attempts are counted by an idle dispatcher that plans, and by nobody else.
LEMMA CountSteps ==
  ASSUME Inv, [Next]_vars
  PROVE  \/ UNCHANGED count
         \/ \E d \in Dispatchers, S \in SUBSET Exceptions :
              MayPlan(d, S) /\ StageAttempts(S)
BY StepKinds, CreateFacts, LandFacts, RecordFactsOfCall, FinishFacts, ApplyFacts
DEF Inv, QuietStep, PlanBatch, Webhook, OutboxUnknownCall

\* An earlier attempt's row is written by the dispatcher that has the attempt in
\* hand, or by a worker that applies its result.
LEMMA AttemptSteps ==
  ASSUME Inv, [Next]_vars, NEW e \in Exceptions, NEW n \in Slots,
         n <= count[e], att'[e][n] # att[e][n]
  PROVE  \/ \E d \in Dispatchers :
              /\ disp[d].pc # "idle" /\ disp'[d].pc = "idle"
              /\ CreateFailed(d) \/ RecordStep(d)
              /\ e \in DOMAIN disp[d].key /\ disp[d].key[e] = n
         \/ \E w \in Workers :
              ApplyStep(w) /\ e \in DOMAIN wk[w].key /\ wk[w].key[e] = n
<1> TypeOK
  BY DEF Inv
<1>1. \A d \in Dispatchers, S \in SUBSET Exceptions : ~(MayPlan(d, S) /\ StageAttempts(S))
  BY StagedFacts
<1>2. ASSUME NEW d \in Dispatchers, CreateFailed(d)
      PROVE  /\ disp[d].pc # "idle" /\ disp'[d].pc = "idle"
             /\ e \in DOMAIN disp[d].key /\ disp[d].key[e] = n
  <2>1. \A m \in Slots : ~(e \in DOMAIN disp[d].key /\ disp[d].key[e] = m)
                           => att'[e][m] = att[e][m]
    BY <1>2 DEF CreateFailed, TypeOK
  <2> QED
    BY <1>2, <2>1 DEF CreateFailed, TypeOK, IdleDispatcher
<1>3. ASSUME NEW d \in Dispatchers, RecordStep(d)
      PROVE  /\ disp[d].pc # "idle" /\ disp'[d].pc = "idle"
             /\ e \in DOMAIN disp[d].key /\ disp[d].key[e] = n
  <2>1. PICK got, moved \in SUBSET DOMAIN disp[d].key : RecordCall(d, got, moved)
    BY <1>3 DEF RecordStep
  <2>2. e \in DOMAIN disp[d].key /\ disp[d].key[e] = n
    BY <2>1 DEF RecordCall, TypeOK
  <2> QED
    BY <1>3, <2>2, RecordFactsOfCall
<1>4. ASSUME NEW w \in Workers, ApplyStep(w)
      PROVE  e \in DOMAIN wk[w].key /\ wk[w].key[e] = n
  <2>1. PICK applied, raised \in SUBSET DOMAIN wk[w].key : ApplyTo(w, applied, raised)
    BY <1>4 DEF ApplyStep, RaisingMembers
  <2> QED
    BY <2>1 DEF ApplyTo, TypeOK
<1>5. ASSUME UNCHANGED att PROVE FALSE
  BY <1>5
<1> QED
  BY <1>1, <1>2, <1>3, <1>4, <1>5, StepKinds
  DEF QuietStep, PlanBatch, CreateStep, CreateAccepted, DispatcherCrash, db,
      CreateLands, FinishCall, Webhook, OutboxUnknownCall

-----------------------------------------------------------------------------
(***************************************************************************)
(* Claims.                                                                 *)
(***************************************************************************)

\* Two keys in use that agree on an attempt are one.
LEMMA SameKey ==
  ASSUME Inv, NEW j \in Keys, NEW k \in Keys, batch[j] # "NONE", batch[k] # "NONE",
         NEW e \in DOMAIN j, e \in DOMAIN k, j[e] = k[e]
  PROVE  j = k
BY DEF Inv, AttemptsClaimedOnce

\* What two dispatchers have in hand is disjoint.
LEMMA CurrentIsDisjoint ==
  ASSUME Inv, Current,
         NEW c \in Dispatchers, NEW d \in Dispatchers,
         disp[c].pc # "idle", disp[d].pc # "idle",
         NEW e \in DOMAIN disp[c].key, e \in DOMAIN disp[d].key
  PROVE  c = d
<1>1. disp[c].key[e] = disp[d].key[e]
  BY DEF Current
<1>2. disp[c].key = disp[d].key
  BY <1>1, InHand, SameKey
<1> QED
  BY <1>2 DEF Inv, Hands

\* A linked key, and so one that a worker has, shares no attempt with a key in hand.
LEMMA LinkedIsElsewhere ==
  ASSUME Inv, NEW d \in Dispatchers, disp[d].pc # "idle",
         NEW j \in linked, NEW e \in DOMAIN j, e \in DOMAIN disp[d].key
  PROVE  j[e] # disp[d].key[e]
<1>1. j \in Keys /\ batch[j] # "NONE"
  BY DEF Inv, TypeOK, AttemptsClaimedOnce
<1> QED
  BY <1>1, InHand, SameKey

\* What an idle dispatcher plans, no other has in hand.
LEMMA PlannedIsFree ==
  ASSUME Inv, OneAtATime, Current,
         NEW c \in Dispatchers, NEW S \in SUBSET Exceptions, MayPlan(c, S),
         NEW d \in Dispatchers, disp[d].pc # "idle", NEW e \in DOMAIN disp[d].key
  PROVE  e \notin S
<1>1. disp[c].pc = "idle" /\ c # d
  BY DEF MayPlan
<1>2. c \in Scanners /\ Apis = {}
  BY <1>1 DEF OneAtATime, Dispatchers
<1>3. exc[e].state = "CALL_PLANNED" \/ IsTerminal(exc[e].state)
  BY <1>2 DEF Current, Waits
<1> QED
  BY <1>2, <1>3 DEF MayPlan, ScannerPicks, IsTerminal, TerminalStates

\* One who waits goes on waiting, unless the dispatcher that has it in hand stores
\* its call.
LEMMA WaitsOn ==
  ASSUME Inv, [Next]_vars, NEW e \in Exceptions, Waits(e)
  PROVE  Waits(e)' \/ \E d \in Dispatchers : RecordStep(d) /\ e \in DOMAIN disp[d].key
<1>1. RowStep(e)
  BY Rows
<1> QED
  BY <1>1 DEF RowStep, RowMove, Waits, Awaiting, IsTerminal, TerminalStates

LEMMA CurrentKept ==
  ASSUME Inv, OneAtATime, Current, [Next]_vars
  PROVE  Current'
<1> SUFFICES ASSUME NEW d \in Dispatchers, disp'[d].pc # "idle",
                    NEW e \in DOMAIN disp'[d].key
             PROVE  disp'[d].key[e] = count'[e] /\ (Apis = {} => Waits(e)')
  BY DEF Current
<1>1. CASE disp[d].pc # "idle" /\ disp'[d].key = disp[d].key
  <2>1. e \in Exceptions /\ disp[d].key[e] = count[e] /\ (Apis = {} => Waits(e))
    BY <1>1, InHand DEF Current
  <2>2. count'[e] = count[e]
    <3>1. ASSUME NEW c \in Dispatchers, NEW S \in SUBSET Exceptions,
                 MayPlan(c, S), StageAttempts(S)
          PROVE  count'[e] = count[e]
      BY <1>1, <2>1, <3>1, PlannedIsFree, StagedFacts DEF Inv
    <3> QED
      BY <3>1, CountSteps
  <2>3. ASSUME NEW c \in Dispatchers, RecordStep(c) PROVE e \notin DOMAIN disp[c].key
    <3>1. disp[c].pc # "idle" /\ disp'[c].pc = "idle"
      BY <2>3, RecordFactsOfCall
    <3> QED
      BY <1>1, <3>1, CurrentIsDisjoint
  <2> QED
    BY <1>1, <2>1, <2>2, <2>3, WaitsOn
<1>2. ASSUME NEW S \in SUBSET Exceptions, PlanBatch(d, S)
      PROVE  disp'[d].key[e] = count'[e] /\ (Apis = {} => Waits(e)')
  <2>1. e \in ReadyIn(S) /\ disp'[d].key[e] = count'[e]
    BY <1>2, PlannedKey
  <2>2. e \in Exceptions /\ e \in S
    BY <2>1 DEF ReadyIn
  <2>3. ASSUME Apis = {} PROVE Waits(e)'
    <3>1. exc[e].state \in {"OPEN", "RETRY_PENDING"}
      BY <1>2, <2>2, <2>3 DEF PlanBatch, MayPlan, ScannerPicks, Dispatchers
    <3>2. exc'[e] = PlannedRecord(exc[e])
      BY <1>2, <2>1, <2>2 DEF PlanBatch
    <3>3. exc'[e].state = "CALL_PLANNED"
      <4>1. exc[e] \in Record /\ Transitioned(exc[e], "ELIGIBLE") \in Record
        BY <2>2, RowTypes, TransitionedType DEF Inv, ExceptionStates
      <4> QED
        BY <3>1, <3>2, <4>1, TransitionedFields DEF PlannedRecord
    <3> QED
      BY <3>3 DEF Waits
  <2> QED
    BY <2>1, <2>3
<1> QED
  BY <1>1, <1>2, HandSteps DEF HandStep, Inv

\* Where dispatches do not overlap, nobody is in two hands: any number of
\* scanners, or one request at a time (README 221: "two batches can never claim
\* one supplier").
THEOREM ClaimsAreDisjoint == OneAtATime => (Spec => []DisjointClaims)
<1> SUFFICES ASSUME OneAtATime PROVE Spec => []DisjointClaims
  OBVIOUS
<1>1. Init => Current
  BY DEF Init, Current, IdleDispatcher
<1>2. Inv /\ Current /\ [Next]_vars => Current'
  BY CurrentKept
<1>3. Inv /\ Current => DisjointClaims
  BY CurrentIsDisjoint DEF DisjointClaims
<1> QED
  BY <1>1, <1>2, <1>3, InvariantHolds, PTL DEF Spec

-----------------------------------------------------------------------------
(***************************************************************************)
(* One live call.                                                          *)
(***************************************************************************)

\* Who is planned is on no running call, nor on one that may still start.
LEMMA PlannedIsNotLive ==
  ASSUME Inv, LiveCalls, Apis = {},
         NEW c \in Dispatchers, NEW S \in SUBSET Exceptions, MayPlan(c, S),
         NEW k \in Keys, Live(k), NEW e \in DOMAIN k
  PROVE  e \notin ReadyIn(S)
<1>1. k[e] = count[e] /\ k[e] \in Slots /\ count[e] # 0
  BY KeyFacts DEF LiveCalls, Slots
<1>2. CASE k \notin linked
  <2>1. c \in Scanners
    BY DEF Dispatchers
  <2>2. Waits(e)
    BY <1>2 DEF LiveCalls
  <2> QED
    BY <2>1, <2>2
    DEF MayPlan, ScannerPicks, ReadyIn, Waits, IsTerminal, TerminalStates
<1>3. CASE k \in linked
  <2>1. LastStatus(e) = "DISPATCHED"
    BY <1>1, <1>3 DEF LiveCalls, LastStatus
  <2> QED
    BY <2>1 DEF ReadyIn, Ready, BudgetVerdict
<1> QED
  BY <1>2, <1>3

LEMMA LiveCallsKept ==
  ASSUME Inv, Apis = {}, ~ShortReplies, Current, LiveCalls, [Next]_vars
  PROVE  LiveCalls'
<1> OneAtATime
  BY DEF OneAtATime
<1> SUFFICES ASSUME NEW k \in Keys, Live(k)', NEW e \in DOMAIN k
             PROVE  /\ k[e] = count'[e]
                    /\ k \notin linked' => Waits(e)'
                    /\ k \in linked' => att'[e][k[e]] = "DISPATCHED"
  BY DEF LiveCalls
<1>1. e \in Exceptions /\ k[e] \in Slots
  BY KeyFacts
\* Live before, or in the hand of the dispatcher that places the call, or gives it
\* up, now.
<1>2. \/ Live(k)
      \/ /\ UNCHANGED << exc, count, linked >>
         /\ k \notin linked /\ k[e] = count[e] /\ Waits(e)
  <2>1. ASSUME NEW d \in Dispatchers, CreateStep(d), ~Live(k)
        PROVE  /\ UNCHANGED << exc, count, linked >>
               /\ k \notin linked /\ k[e] = count[e] /\ Waits(e)
    <3>1. /\ disp[d].pc # "idle" /\ k = disp[d].key /\ k \notin linked
          /\ UNCHANGED << exc, count, linked >>
      BY <2>1, CreateFacts DEF Live
    <3> QED
      BY <3>1 DEF Current
  <2>2. ASSUME NEW j \in Keys, CreateLands(j) \/ FinishCall(j) PROVE Live(k)
    BY <2>2, LandFacts, FinishFacts DEF Inv, Live
  <2> QED
    BY <2>1, <2>2, StepKinds, PlannedKey, RecordFactsOfCall, ApplyFacts
    DEF Inv, QuietStep, Webhook, OutboxUnknownCall, provider, Live
<1>3. CASE ~Live(k)
  BY <1>2, <1>3 DEF Waits
<1>4. CASE Live(k)
  <2>1. /\ k[e] = count[e] /\ batch[k] # "NONE"
        /\ k \notin linked => Waits(e)
        /\ k \in linked => att[e][k[e]] = "DISPATCHED"
    BY <1>4 DEF LiveCalls, Live, Inv, AttemptsClaimedOnce
  <2>2. count'[e] = count[e]
    <3>1. ASSUME NEW c \in Dispatchers, NEW S \in SUBSET Exceptions,
                 MayPlan(c, S), StageAttempts(S)
          PROVE  count'[e] = count[e]
      BY <1>1, <1>4, <3>1, PlannedIsNotLive, StagedFacts DEF Inv
    <3> QED
      BY <3>1, CountSteps
  \* A dispatcher that has the supplier in hand has this very call.
  <2>3. ASSUME NEW d \in Dispatchers, disp[d].pc # "idle", e \in DOMAIN disp[d].key
        PROVE  disp[d].key = k
    BY <2>1, <2>3, InHand, SameKey DEF Current
  <2>4. k \notin linked' => Waits(e)'
    <3>1. ASSUME NEW d \in Dispatchers, RecordStep(d), e \in DOMAIN disp[d].key
          PROVE  k \in linked'
      BY <2>3, <3>1, RecordFactsOfCall
    <3>2. linked \subseteq linked'
      BY Growth DEF Grows
    <3> QED
      BY <1>1, <2>1, <3>1, <3>2, WaitsOn
  <2>5. ASSUME k \in linked PROVE att'[e][k[e]] = "DISPATCHED"
    <3>1. ASSUME NEW d \in Dispatchers, disp[d].pc # "idle", e \in DOMAIN disp[d].key
          PROVE  FALSE
      BY <2>3, <2>5, <3>1, InHand
    <3>2. ASSUME NEW w \in Workers, ApplyStep(w),
                 e \in DOMAIN wk[w].key, wk[w].key[e] = k[e]
          PROVE  FALSE
      BY <1>4, <2>1, <2>5, <3>2, ApplyFacts, SameKey DEF CallEnded, Live, Inv, Hands
    <3>3. k[e] <= count[e]
      BY <2>1 DEF Inv, AttemptsClaimedOnce
    <3>4. att'[e][k[e]] = att[e][k[e]]
      BY <1>1, <3>1, <3>2, <3>3, AttemptSteps
    <3> QED
      BY <2>1, <2>5, <3>4
  <2>6. ASSUME k \notin linked, k \in linked' PROVE att'[e][k[e]] = "DISPATCHED"
    <3>1. PICK d \in Dispatchers : RecordStep(d) /\ disp[d].key = k
      BY <2>6, StepKinds, PlannedKey, CreateFacts, LandFacts, RecordFactsOfCall,
         ApplyFacts, FinishFacts
      DEF Inv, QuietStep, Webhook, OutboxUnknownCall
    <3>2. PICK got, moved \in SUBSET DOMAIN k : RecordCall(d, got, moved)
      BY <3>1 DEF RecordStep
    <3>3. got = DOMAIN k
      BY <3>1, <3>2 DEF RecordCall
    <3> QED
      BY <1>1, <3>1, <3>2, <3>3 DEF RecordCall, Inv, TypeOK
  <2> QED
    BY <2>1, <2>2, <2>4, <2>5, <2>6
<1> QED
  BY <1>3, <1>4

\* No supplier is on two calls at once where nobody triggers calls by hand and
\* the provider returns every recipient id: the next attempt is planned only when
\* the last is answered, and its call is over by then.
THEOREM OneCallAtATime ==
  Apis = {} /\ ~ShortReplies => (Spec => []OneLiveCall)
<1> SUFFICES ASSUME Apis = {}, ~ShortReplies PROVE Spec => []OneLiveCall
  OBVIOUS
<1>1. Init => Current /\ LiveCalls
  BY DEF Init, Current, LiveCalls, Live, IdleDispatcher
<1>2. Inv /\ Current /\ LiveCalls /\ [Next]_vars => Current' /\ LiveCalls'
  BY CurrentKept, LiveCallsKept DEF OneAtATime
<1>3. Inv /\ LiveCalls => OneLiveCall
  <2> SUFFICES ASSUME Inv, LiveCalls, NEW e \in Exceptions,
                      NEW j \in CallsTo(e), NEW k \in CallsTo(e),
                      call[j] = "running", call[k] = "running"
               PROVE  j = k
    BY DEF OneLiveCall
  <2>1. j \in Keys /\ k \in Keys /\ e \in DOMAIN j /\ e \in DOMAIN k
    BY DEF CallsTo
  <2>2. j[e] = k[e] /\ batch[j] # "NONE" /\ batch[k] # "NONE"
    BY <2>1 DEF LiveCalls, Live, Inv, AttemptsClaimedOnce
  <2> QED
    BY <2>1, <2>2, SameKey
<1> QED
  BY <1>1, <1>2, <1>3, InvariantHolds, PTL DEF Spec

-----------------------------------------------------------------------------
(***************************************************************************)
(* Who writes a row, and who sets the flag of an opt-out.                  *)
(***************************************************************************)

\* What a pass that plans e makes of its row.
PlanOf(e) ==
  {PlannedRecord(exc[e]), EscalatedRecord(exc[e]), EscalatedRecord(PlannedRecord(exc[e]))}

\* A worker ends its transaction, in which it may have written the row of e.
WorkerWrites(w, e) ==
  /\ wk[w].pc # "idle" /\ wk'[w].pc = "idle"
  /\ \/ exc'[e] \in {OwnRecord(w, e), Transitioned(OwnRecord(w, e), "CALLING")}
     \/ ApplyStep(w) /\ e \in DOMAIN wk[w].key /\ exc'[e] = AppliedRecord(w, e)

LEMMA RowWriters ==
  ASSUME Inv, [Next]_vars, NEW e \in Exceptions
  PROVE  \/ exc'[e] = exc[e]
         \/ UNCHANGED wk /\ exc'[e] \in PlanOf(e)
         \/ UNCHANGED wk /\ \E s \in TerminalStates : exc'[e] = Transitioned(exc[e], s)
         \/ /\ UNCHANGED wk /\ exc'[e] = Transitioned(exc[e], "CALLING")
            /\ \E d \in Dispatchers : RecordStep(d) /\ e \in DOMAIN disp[d].key
         \/ \E w \in Workers : WorkerWrites(w, e)
<1> DEFINE Goal ==
         \/ exc'[e] = exc[e]
         \/ UNCHANGED wk /\ exc'[e] \in PlanOf(e)
         \/ UNCHANGED wk /\ \E s \in TerminalStates : exc'[e] = Transitioned(exc[e], s)
         \/ /\ UNCHANGED wk /\ exc'[e] = Transitioned(exc[e], "CALLING")
            /\ \E d \in Dispatchers : RecordStep(d) /\ e \in DOMAIN disp[d].key
         \/ \E w \in Workers : WorkerWrites(w, e)
<1>1. UNCHANGED exc => Goal
  OBVIOUS
<1>2. ASSUME NEW d \in Dispatchers, DispatcherStep(d) PROVE Goal
  <2>1. ASSUME NEW S \in SUBSET Exceptions,
               \/ PlanRefused(d, S) \/ PlanUnconfigured(d, S)
               \/ PlanBlocked(d, S) \/ PlanBatch(d, S)
        PROVE  Goal
    BY <2>1, PlanRows DEF Inv, PlanOf
  <2>2. ASSUME RecordDispatched(d) \/ RecordCutShort(d) PROVE Goal
    <3>1. PICK got, moved \in SUBSET DOMAIN disp[d].key : RecordCall(d, got, moved)
      BY <2>2 DEF RecordDispatched, RecordCutShort
    <3>2. disp[d].pc = "record"
      BY <2>2 DEF RecordDispatched, RecordCutShort, MayRecord
    <3>3. RecordStep(d)
      BY <3>1, <3>2 DEF RecordStep
    <3>4. UNCHANGED wk /\ (exc'[e] # exc[e] => e \in moved)
      BY <3>1 DEF RecordCall
    <3>5. exc'[e] # exc[e] => exc'[e] = Transitioned(exc[e], "CALLING")
      BY <3>1 DEF RecordCall
    <3> QED
      BY <3>3, <3>4, <3>5
  <2> QED
    BY <1>1, <1>2, <2>1, <2>2
    DEF DispatcherStep, CreateAccepted, CreateFailed, RecordRolledBack, DispatcherCrash, db
<1>3. ASSUME NEW w \in Workers,
             SweepReturns(w) \/ SweepFetchFailed(w) \/ ApplyResults(w) \/ ApplyCutShort(w)
      PROVE  WorkerWrites(w, e)
  <2>1. wk[w].pc # "idle"
    BY <1>3 DEF SweepReturns, SweepFetchFailed, ApplyResults, ApplyCutShort, MayApply
  <2>2. wk' = [wk EXCEPT ![w] = IdleWorker]
    BY <1>3 DEF SweepReturns, SweepFetchFailed, ApplyResults, ApplyCutShort, ApplyTo
  <2>3. wk'[w].pc = "idle"
    BY <2>2 DEF Inv, TypeOK, IdleWorker
  <2>4. CASE SweepReturns(w) \/ SweepFetchFailed(w)
    BY <2>1, <2>3, <2>4 DEF SweepReturns, SweepFetchFailed, WorkerWrites
  <2>5. CASE ApplyResults(w) \/ ApplyCutShort(w)
    <3>1. ApplyStep(w)
      BY <2>5 DEF ApplyResults, ApplyCutShort, ApplyStep, RaisingMembers
    <3>2. PICK applied, raised \in SUBSET DOMAIN wk[w].key : ApplyTo(w, applied, raised)
      BY <3>1 DEF ApplyStep, RaisingMembers
    <3> QED
      BY <2>1, <2>3, <3>1, <3>2 DEF ApplyTo, WorkerWrites
  <2> QED
    BY <1>3, <2>4, <2>5
<1>4. ASSUME NEW x \in Exceptions, NEW s \in TerminalStates, OperatorSettles(x, s)
      PROVE  Goal
  BY <1>4 DEF OperatorSettles, Inv, TypeOK
<1> QED
  BY <1>1, <1>2, <1>3, <1>4
  DEF Next, vars, db, ProviderStep, CreateLands, FinishCall, Webhook, OutboxStep, OutboxUnknownCall,
      OutboxClaim, SweepStep, SweepMark, SweepFetched, SweepStillRunning, WorkerCrash,
      ReadLater, Workers

\* The flag is set by the application of an opt-out, never otherwise, and stays.
LEMMA FlagSteps ==
  ASSUME Inv, [Next]_vars, NEW e \in Exceptions
  PROVE  /\ exc[e].blocked => exc'[e].blocked
         /\ exc'[e].blocked => exc[e].blocked \/ \E w \in Workers :
              ApplyStep(w) /\ e \in DOMAIN wk[w].key /\ OptsOut(w, e)
<1>1. exc[e] \in Record
  BY RowTypes DEF Inv
<1>2. ASSUME exc'[e] \in PlanOf(e) PROVE exc'[e].blocked = exc[e].blocked
  <2>1. PlannedRecord(exc[e]) \in Record /\ PlannedRecord(exc[e]).blocked = exc[e].blocked
    BY <1>1, PlannedFields
  <2>2. /\ EscalatedRecord(exc[e]).blocked = exc[e].blocked
        /\ EscalatedRecord(PlannedRecord(exc[e])).blocked = exc[e].blocked
    BY <1>1, <2>1, PlannedFields
  <2> QED
    BY <1>2, <2>1, <2>2 DEF PlanOf
<1>3. ASSUME NEW s, exc'[e] = Transitioned(exc[e], s)
      PROVE  exc'[e].blocked = exc[e].blocked
  BY <1>1, <1>3, TransitionedFields
<1>4. ASSUME NEW w \in Workers, WorkerWrites(w, e)
      PROVE  \/ exc'[e].blocked = exc[e].blocked
             \/ /\ ApplyStep(w) /\ e \in DOMAIN wk[w].key
                /\ exc'[e].blocked <=> exc[e].blocked \/ OptsOut(w, e)
  <2>1. OwnRecord(w, e) \in Record /\ OwnRecord(w, e).blocked = exc[e].blocked
    BY <1>1, OwnRow, TransitionedFields DEF OwnRecord
  <2>2. CASE exc'[e] \in {OwnRecord(w, e), Transitioned(OwnRecord(w, e), "CALLING")}
    BY <2>1, <2>2, TransitionedFields
  <2>3. CASE ApplyStep(w) /\ e \in DOMAIN wk[w].key /\ exc'[e] = AppliedRecord(w, e)
    <3>1. AppliedRecord(w, e).blocked <=> OwnRecord(w, e).blocked \/ OptsOut(w, e)
      BY DEF AppliedRecord
    <3> QED
      BY <2>1, <2>3, <3>1
  <2> QED
    BY <1>4, <2>2, <2>3 DEF WorkerWrites
<1> QED
  BY <1>2, <1>3, <1>4, RowWriters

-----------------------------------------------------------------------------
(***************************************************************************)
(* Opt-outs.                                                               *)
(***************************************************************************)

\* A new link is made by the dispatcher that has the key in hand, and with it the
\* recipient ids of that key become known, no others.
LEMMA LinkSteps ==
  ASSUME Inv, [Next]_vars
  PROVE  \/ UNCHANGED << linked, rid >>
         \/ \E d \in Dispatchers :
              /\ RecordStep(d) /\ linked' = linked \cup {disp[d].key}
              /\ \E got \in SUBSET DOMAIN disp[d].key :
                   /\ rid' = rid \cup {<<e, disp[d].key[e]>> : e \in got}
                   /\ \A e \in got : att'[e][disp[d].key[e]] = "DISPATCHED"
<1>1. ASSUME NEW d \in Dispatchers, RecordStep(d)
      PROVE  /\ linked' = linked \cup {disp[d].key}
             /\ \E got \in SUBSET DOMAIN disp[d].key :
                  /\ rid' = rid \cup {<<e, disp[d].key[e]>> : e \in got}
                  /\ \A e \in got : att'[e][disp[d].key[e]] = "DISPATCHED"
  <2>1. PICK got, moved \in SUBSET DOMAIN disp[d].key : RecordCall(d, got, moved)
    BY <1>1 DEF RecordStep
  <2>2. disp[d].key \in Keys /\ DOMAIN disp[d].key \subseteq Exceptions
    BY <1>1, RecordFactsOfCall
  <2>3. \A e \in got : att'[e][disp[d].key[e]] = "DISPATCHED"
    BY <2>1, <2>2, KeyFacts DEF RecordCall, Inv, TypeOK
  <2> QED
    BY <2>1, <2>3 DEF RecordCall
<1> QED
  BY <1>1, StepKinds, PlannedKey, CreateFacts, LandFacts, ApplyFacts, FinishFacts
  DEF Inv, QuietStep, Webhook, OutboxUnknownCall

LEMMA CorrelatedKept ==
  ASSUME Inv, Correlated, [Next]_vars
  PROVE  Correlated'
<1> SUFFICES ASSUME NEW e \in Exceptions, NEW n \in Slots, <<e, n>> \in rid'
             PROVE  \E j \in linked' : e \in DOMAIN j /\ j[e] = n
  BY DEF Correlated
<1>1. CASE <<e, n>> \in rid
  BY <1>1, Growth DEF Correlated, Grows
<1>2. CASE <<e, n>> \notin rid
  <2>1. PICK d \in Dispatchers :
          /\ linked' = linked \cup {disp[d].key}
          /\ \E got \in SUBSET DOMAIN disp[d].key :
               rid' = rid \cup {<<x, disp[d].key[x]>> : x \in got}
    BY <1>2, LinkSteps
  <2> QED
    BY <1>2, <2>1
<1> QED
  BY <1>1, <1>2

\* A result that is written says so, and with it an opt-out is recorded, unless
\* the exception is settled.
LEMMA WrittenResult ==
  ASSUME Inv, NEW w \in Workers, ApplyStep(w), NEW e \in DOMAIN wk[w].key,
         att'[e][wk[w].key[e]] # att[e][wk[w].key[e]]
  PROVE  /\ att'[e][wk[w].key[e]] \in {"FAILED", "COMPLETED"}
         /\ <<e, wk[w].key[e]>> \in rid /\ slice[e][wk[w].key[e]] = "optout" =>
              exc'[e].blocked \/ IsTerminal(exc'[e].state)
<1> DEFINE k == wk[w].key
           view == wk[w].seen[e]
           own == OwnRecord(w, e)
<1>1. PICK applied \in SUBSET (DOMAIN k \ RaisingMembers(w)),
           raised \in SUBSET RaisingMembers(w) : ApplyTo(w, applied, raised)
  BY DEF ApplyStep
<1>2. wk[w].pc = "apply" /\ k \in Keys /\ e \in Exceptions /\ k[e] \in Slots
  BY ApplyFacts, KeyFacts
<1>3. Fits(view, own)
  BY <1>2 DEF Inv, Views
<1>4. /\ e \in applied \cup raised
      /\ att'[e] = [att[e] EXCEPT ![k[e]] = AttemptResult(k, e)]
  BY <1>1, <1>2 DEF ApplyTo
<1>5. att'[e][k[e]] \in {"FAILED", "COMPLETED"}
  BY <1>2, <1>4 DEF AttemptResult, Inv, TypeOK
<1>6. ASSUME <<e, k[e]>> \in rid, slice[e][k[e]] = "optout"
      PROVE  exc'[e].blocked \/ IsTerminal(exc'[e].state)
  <2>1. ~Unattributed(k, e) /\ SliceOf(k, e) = "optout"
    BY <1>6 DEF Unattributed, SliceOf
  <2>2. Target(k, e, view) = "HUMAN_REVIEW"
    BY <2>1 DEF Target, DecisionState, Retryable
  <2>3. ~Illegal(k, e, view)
    BY <1>3, <2>2, StateFacts DEF Illegal, Fits, Awaiting, CanTransition, NextStates
  <2>4. e \in applied /\ exc'[e] = AppliedRecord(w, e)
    BY <1>1, <1>2, <1>4, <2>3 DEF RaisingMembers, ApplyTo
  <2>5. CASE IsTerminal(view.state)
    <3>1. ~Moves(w, e) /\ IsTerminal(own.state)
      BY <1>3, <2>5 DEF Moves, Fits
    <3>2. AppliedRecord(w, e).state = own.state
      BY <3>1 DEF AppliedRecord
    <3> QED
      BY <2>4, <3>1, <3>2
  <2>6. CASE ~IsTerminal(view.state)
    <3>1. OptsOut(w, e)
      BY <2>1, <2>6 DEF OptsOut
    <3>2. AppliedRecord(w, e).blocked <=> own.blocked \/ OptsOut(w, e)
      BY DEF AppliedRecord
    <3> QED
      BY <2>4, <3>1, <3>2
  <2> QED
    BY <2>5, <2>6
<1> QED
  BY <1>5, <1>6

\* A linked attempt's row is written only as its result is.
LEMMA LinkedAttempt ==
  ASSUME Inv, [Next]_vars, NEW j \in linked, NEW e \in DOMAIN j,
         att'[e][j[e]] # att[e][j[e]]
  PROVE  \E w \in Workers : ApplyStep(w) /\ wk[w].key = j
<1>1. j \in Keys /\ batch[j] # "NONE" /\ j[e] <= count[e]
  BY DEF Inv, TypeOK, AttemptsClaimedOnce
<1>2. e \in Exceptions /\ j[e] \in Slots
  BY <1>1, KeyFacts
<1>3. PICK w \in Workers : ApplyStep(w) /\ e \in DOMAIN wk[w].key /\ wk[w].key[e] = j[e]
  BY <1>1, <1>2, AttemptSteps, LinkedIsElsewhere
<1>4. wk[w].key = j
  BY <1>1, <1>3, ApplyFacts, SameKey
<1> QED
  BY <1>3, <1>4

\* A recorded opt-out, and a settled exception, remain so.
LEMMA ClosedToCalls ==
  ASSUME Inv, [Next]_vars, NEW e \in Exceptions,
         exc[e].blocked \/ IsTerminal(exc[e].state)
  PROVE  exc'[e].blocked \/ IsTerminal(exc'[e].state)
<1>1. RowStep(e)
  BY Rows
<1>2. IsTerminal(exc[e].state) => exc'[e].state = exc[e].state
  BY <1>1 DEF RowStep, RowMove, Awaiting, IsTerminal, TerminalStates
<1> QED
  BY <1>2, FlagSteps

LEMMA HeardKept ==
  ASSUME Inv, OneAtATime, Current, Correlated, Heard, [Next]_vars
  PROVE  Heard'
<1> SUFFICES ASSUME NEW j \in linked', NEW e \in DOMAIN j, <<e, j[e]>> \in rid'
             PROVE  /\ att'[e][j[e]] # "DISPATCHED" =>
                         /\ CallEnded(j)'
                         /\ slice'[e][j[e]] = "optout" =>
                              exc'[e].blocked \/ IsTerminal(exc'[e].state)
                    /\ j[e] < count'[e] =>
                         att'[e][j[e]] # "DISPATCHED" /\ slice'[e][j[e]] # "optout"
  BY DEF Heard
<1> TypeOK /\ TypeOK'
  BY TypeStep DEF Inv
<1>1. /\ j \in Keys /\ e \in Exceptions /\ j[e] \in Slots
      /\ count[e] \in Nat /\ count'[e] \in Nat /\ j[e] \in Nat
  BY KeyFacts, AttemptsAssumption DEF TypeOK, Slots
<1>2. CASE j \in linked /\ <<e, j[e]>> \in rid
  <2>1. /\ att[e][j[e]] # "DISPATCHED" =>
             /\ CallEnded(j)
             /\ slice[e][j[e]] = "optout" => exc[e].blocked \/ IsTerminal(exc[e].state)
        /\ j[e] < count[e] => att[e][j[e]] # "DISPATCHED" /\ slice[e][j[e]] # "optout"
        /\ j[e] <= count[e]
    BY <1>1, <1>2 DEF Heard, Inv, AttemptsClaimedOnce
  <2>2. CallEnded(j) => CallEnded(j)' /\ slice'[e][j[e]] = slice[e][j[e]]
    BY <1>1, Growth, EvidenceKept DEF Grows, CallEnded
  <2>3. CASE att'[e][j[e]] = att[e][j[e]]
    <3>1. ASSUME att'[e][j[e]] # "DISPATCHED"
          PROVE  /\ CallEnded(j)'
                 /\ slice'[e][j[e]] = "optout" =>
                      exc'[e].blocked \/ IsTerminal(exc'[e].state)
      BY <1>1, <2>1, <2>2, <2>3, <3>1, ClosedToCalls
    <3>2. CASE j[e] < count[e]
      BY <2>1, <2>2, <2>3, <3>1, <3>2
    <3>3. ASSUME ~(j[e] < count[e]), j[e] < count'[e]
          PROVE  att'[e][j[e]] # "DISPATCHED" /\ slice'[e][j[e]] # "optout"
      <4>1. PICK c \in Dispatchers, S \in SUBSET Exceptions :
              MayPlan(c, S) /\ StageAttempts(S)
        BY <2>1, <3>3, CountSteps
      <4>2. e \in ReadyIn(S) /\ j[e] = count[e] /\ count[e] # 0
        BY <1>1, <2>1, <3>3, <4>1, StagedFacts DEF Slots
      <4>3. /\ att[e][j[e]] # "DISPATCHED"
            /\ ~exc[e].blocked /\ ~IsTerminal(exc[e].state)
        BY <4>2 DEF ReadyIn, Ready, Callable, BudgetVerdict, LastStatus
      <4> QED
        BY <2>1, <2>2, <2>3, <4>3
    <3> QED
      BY <3>1, <3>2, <3>3
  <2>4. CASE att'[e][j[e]] # att[e][j[e]]
    <3>1. PICK w \in Workers : ApplyStep(w) /\ wk[w].key = j
      BY <1>2, <2>4, LinkedAttempt
    <3>2. CallEnded(j) /\ UNCHANGED count
      BY <3>1, ApplyFacts
    <3>3. /\ att'[e][j[e]] \in {"FAILED", "COMPLETED"}
          /\ slice[e][j[e]] = "optout" => exc'[e].blocked \/ IsTerminal(exc'[e].state)
      BY <1>2, <2>4, <3>1, WrittenResult
    <3> QED
      BY <2>1, <2>2, <3>2, <3>3
  <2> QED
    BY <2>3, <2>4
<1>3. CASE ~(j \in linked /\ <<e, j[e]>> \in rid)
  <2>1. PICK d \in Dispatchers :
          /\ RecordStep(d) /\ linked' = linked \cup {disp[d].key}
          /\ \E got \in SUBSET DOMAIN disp[d].key :
               /\ rid' = rid \cup {<<x, disp[d].key[x]>> : x \in got}
               /\ \A x \in got : att'[x][disp[d].key[x]] = "DISPATCHED"
    BY <1>3, LinkSteps
  <2>2. disp[d].pc # "idle" /\ UNCHANGED count
    BY <2>1, RecordFactsOfCall
  <2>3. ASSUME NEW i \in linked, e \in DOMAIN i, e \in DOMAIN disp[d].key
        PROVE  i[e] # disp[d].key[e]
    BY <2>2, <2>3, LinkedIsElsewhere
  <2>4. <<e, j[e]>> \notin rid
    <3>1. CASE j \in linked
      BY <1>3, <3>1
    <3>2. CASE j \notin linked
      BY <1>1, <2>1, <2>3, <3>2 DEF Correlated
    <3> QED
      BY <3>1, <3>2
  <2>5. e \in DOMAIN disp[d].key /\ j[e] = disp[d].key[e] /\ att'[e][j[e]] = "DISPATCHED"
    BY <2>1, <2>4
  <2>6. j[e] = count[e]
    BY <2>2, <2>5 DEF Current
  <2> QED
    BY <1>1, <2>2, <2>5, <2>6
<1> QED
  BY <1>2, <1>3

LEMMA WillingKept ==
  ASSUME Inv, OneAtATime, Current, Heard, Willing, [Next]_vars
  PROVE  Willing'
<1> SUFFICES ASSUME NEW d \in Dispatchers, disp'[d].pc # "idle",
                    NEW e \in DOMAIN disp'[d].key
             PROVE  ~exc'[e].blocked
  BY DEF Willing
<1>1. CASE disp[d].pc # "idle" /\ disp'[d].key = disp[d].key
  <2>1. /\ e \in Exceptions /\ disp[d].key[e] = count[e] /\ ~exc[e].blocked
        /\ count[e] \in Nat
    BY <1>1, InHand DEF Current, Willing, Inv, TypeOK
  <2>2. ASSUME NEW w \in Workers, ApplyStep(w), e \in DOMAIN wk[w].key, OptsOut(w, e)
        PROVE  FALSE
    <3> DEFINE k == wk[w].key
    <3>1. k \in linked /\ <<e, k[e]>> \in rid /\ slice[e][k[e]] = "optout"
      BY <2>2, ApplyFacts DEF OptsOut, Unattributed, SliceOf
    <3>2. ~(k[e] < count[e])
      BY <2>2, <3>1 DEF Heard
    <3>3. k[e] <= count[e] /\ k[e] \in Nat
      BY <2>2, ApplyFacts, KeyFacts DEF Inv, AttemptsClaimedOnce, Slots
    <3>4. k[e] = count[e]
      BY <2>1, <3>2, <3>3
    <3> QED
      BY <1>1, <2>1, <2>2, <3>1, <3>4, LinkedIsElsewhere
  <2> QED
    BY <2>1, <2>2, FlagSteps
<1>2. ASSUME NEW S \in SUBSET Exceptions, PlanBatch(d, S)
      PROVE  ~exc'[e].blocked
  <2>1. e \in ReadyIn(S)
    BY <1>2, PlannedKey
  <2>2. e \in Exceptions /\ ~exc[e].blocked
    BY <2>1 DEF ReadyIn, Ready, Callable
  <2>3. exc'[e] = PlannedRecord(exc[e])
    BY <1>2, <2>1, <2>2 DEF PlanBatch
  <2> QED
    BY <2>2, <2>3, RowTypes, PlannedFields DEF Inv
<1> QED
  BY <1>1, <1>2, HandSteps DEF HandStep, Inv

\* Where dispatches do not overlap, nobody is asked, once an opt-out is recorded, to
\* call its recipient again: a create that calls it all the same was sent and given
\* up before.  Whoever answered an attempt is planned again only when the answer was
\* applied, so an opt-out is known before anybody has the next attempt in hand.
THEOREM OptOutsAreRespected == OneAtATime => (Spec => NoDialAfterOptOut)
<1> SUFFICES ASSUME OneAtATime PROVE Spec => NoDialAfterOptOut
  OBVIOUS
<1> DEFINE J == Current /\ Correlated /\ Heard /\ Willing
           Spared(k) == /\ k \in flying' => k \in flying
                        /\ call[k] = "none" /\ call'[k] # "none" => k \in flying
           Respected == \A e \in Exceptions : exc[e].blocked =>
                          \A k \in Keys : e \in DOMAIN k => Spared(k)
<1>1. Init => J
  BY DEF Init, Current, Correlated, Heard, Willing, IdleDispatcher
<1>2. Inv /\ J /\ [Next]_vars => J'
  BY CurrentKept, CorrelatedKept, HeardKept, WillingKept
<1>3. Inv /\ J /\ [Next]_vars => Respected
  <2> SUFFICES ASSUME Inv, J, [Next]_vars, NEW e \in Exceptions, exc[e].blocked,
                      NEW k \in Keys, e \in DOMAIN k
               PROVE  Spared(k)
    OBVIOUS
  <2>1. ASSUME NEW d \in Dispatchers, CreateStep(d)
        PROVE  Spared(k)
    <3>1. disp[d].key # k
      BY <2>1, CreateFacts DEF Willing
    <3> QED
      BY <2>1, <3>1, CreateFacts
  <2>2. ASSUME NEW j \in Keys, CreateLands(j) \/ FinishCall(j) PROVE Spared(k)
    BY <2>2, LandFacts, FinishFacts DEF Inv
  <2> QED
    BY <2>1, <2>2, StepKinds, PlannedKey, RecordFactsOfCall, ApplyFacts
    DEF Inv, QuietStep, Webhook, OutboxUnknownCall, provider
<1>4. Inv /\ J /\ [Next]_vars => [Respected]_vars
  BY <1>3
<1> QED
  BY <1>1, <1>2, <1>4, InvariantHolds, PTL DEF Spec, NoDialAfterOptOut

-----------------------------------------------------------------------------
(***************************************************************************)
(* Answers.                                                                *)
(***************************************************************************)

LEMMA PendingKept ==
  ASSUME Inv, OneAtATime, Current, Pending, [Next]_vars
  PROVE  Pending'
<1> SUFFICES ASSUME NEW d \in Dispatchers, disp'[d].pc # "idle",
                    NEW e \in DOMAIN disp'[d].key
             PROVE  att'[e][disp'[d].key[e]] = "PENDING"
  BY DEF Pending
<1>1. CASE disp[d].pc # "idle" /\ disp'[d].key = disp[d].key
  <2> DEFINE n == disp[d].key[e]
  <2>1. /\ e \in Exceptions /\ n \in Slots /\ n = count[e] /\ att[e][n] = "PENDING"
        /\ n <= count[e]
    BY <1>1, InHand, KeyFacts DEF Current, Pending, Inv, AttemptsClaimedOnce
  <2>2. ASSUME NEW c \in Dispatchers, disp[c].pc # "idle", disp'[c].pc = "idle",
               e \in DOMAIN disp[c].key
        PROVE  FALSE
    BY <1>1, <2>2, CurrentIsDisjoint
  <2>3. ASSUME NEW w \in Workers, ApplyStep(w), e \in DOMAIN wk[w].key, wk[w].key[e] = n
        PROVE  FALSE
    BY <1>1, <2>3, ApplyFacts, LinkedIsElsewhere
  <2> HIDE DEF n
  <2>4. att'[e][n] = att[e][n]
    BY <2>1, <2>2, <2>3, AttemptSteps
  <2> QED
    BY <1>1, <2>1, <2>4 DEF n
<1>2. ASSUME NEW S \in SUBSET Exceptions, PlanBatch(d, S)
      PROVE  att'[e][disp'[d].key[e]] = "PENDING"
  <2>1. e \in ReadyIn(S) /\ disp'[d].key[e] = count'[e]
    BY <1>2, PlannedKey
  <2> QED
    BY <1>2, <2>1, StagedFacts DEF PlanBatch, Inv
<1> QED
  BY <1>1, <1>2, HandSteps DEF HandStep, Inv

\* Nobody but a worker makes an exception await an answer it did not await, or
\* rewrites the row of one that awaits it, save who stores the id of its call.
LEMMA OthersRows ==
  ASSUME Inv, [Next]_vars, UNCHANGED wk, NEW e \in Exceptions,
         Awaiting(exc'[e].state)
  PROVE  \/ exc'[e] = exc[e]
         \/ \E d \in Dispatchers : RecordStep(d) /\ e \in DOMAIN disp[d].key
<1>1. exc[e] \in Record
  BY RowTypes DEF Inv
<1>2. ASSUME exc'[e] \in PlanOf(e) PROVE exc'[e] = exc[e]
  <2>1. PlannedRecord(exc[e]) \in Record
    BY <1>1, PlannedFields
  <2>2. /\ EscalatedRecord(exc[e]).state = "HUMAN_REVIEW"
        /\ EscalatedRecord(PlannedRecord(exc[e])).state = "HUMAN_REVIEW"
        /\ PlannedRecord(exc[e]) = exc[e] \/ PlannedRecord(exc[e]).state = "CALL_PLANNED"
    BY <1>1, <2>1, PlannedFields
  <2> QED
    BY <1>2, <2>2 DEF PlanOf, Awaiting
<1>3. ASSUME NEW s \in TerminalStates, exc'[e] = Transitioned(exc[e], s) PROVE FALSE
  BY <1>1, <1>3, TransitionedFields DEF Awaiting, TerminalStates
<1>4. ASSUME NEW w \in Workers, WorkerWrites(w, e) PROVE FALSE
  BY <1>4 DEF WorkerWrites
<1> QED
  BY <1>2, <1>3, <1>4, RowWriters

LEMMA UpToDateKept ==
  ASSUME Inv, OneWorker, OneAtATime, Current, UpToDate, [Next]_vars
  PROVE  UpToDate'
<1> SUFFICES ASSUME NEW w \in Workers, wk'[w].pc = "apply", NEW e \in DOMAIN wk'[w].key,
                    wk'[w].key[e] = count'[e], Awaiting(OwnRecord(w, e)'.state)
             PROVE  wk'[w].seen[e].version = OwnRecord(w, e)'.version
  BY DEF UpToDate, Awaiting
<1> TypeOK'
  BY TypeStep DEF Inv
<1>1. CASE UNCHANGED << exc, count, linked, call >> /\ ReadStep(w, e)
  BY <1>1 DEF ReadStep, UpToDate
<1>2. CASE wk'[w] = wk[w]
  <2>1. /\ wk[w].key \in linked /\ wk[w].key \in Keys /\ e \in Exceptions
        /\ wk[w].key[e] <= count[e]
    BY <1>2, WorkerFacts DEF Inv, Hands, AttemptsClaimedOnce
  <2>2. wk[w].key[e] = count[e]
    <3>1. count[e] <= count'[e] /\ count[e] \in Nat /\ count'[e] \in Nat
      BY <2>1, Growth DEF Grows, TypeOK, Inv
    <3> QED
      BY <1>2, <2>1, <3>1
  <2>3. UNCHANGED wk
    BY <1>2 DEF OneWorker, TypeOK, Inv
  <2>4. CASE exc'[e] = exc[e]
    <3>1. OwnRecord(w, e)' = OwnRecord(w, e)
      BY <1>2, <2>4 DEF OwnRecord, Transitioned
    <3> QED
      BY <1>2, <2>2, <3>1 DEF UpToDate
  <2>5. CASE exc'[e] # exc[e]
    <3>1. e \notin wk[w].marked
      BY <1>2, <2>5, Rows, SweepMarkFacts DEF LockStep, Inv
    <3>2. Awaiting(exc'[e].state)
      BY <1>2, <3>1 DEF OwnRecord
    <3>3. PICK d \in Dispatchers : RecordStep(d) /\ e \in DOMAIN disp[d].key
      BY <2>1, <2>3, <2>5, <3>2, OthersRows
    <3>4. disp[d].pc # "idle"
      BY <3>3, RecordFactsOfCall
    <3>5. disp[d].key[e] = wk[w].key[e]
      BY <2>2, <3>3, <3>4 DEF Current
    <3> QED
      BY <1>2, <2>1, <3>3, <3>4, <3>5, LinkedIsElsewhere
  <2> QED
    BY <2>4, <2>5
<1> QED
  BY <1>1, <1>2, WorkSteps DEF WorkStep

\* Writing the result of the attempt an exception awaits takes it off the call.
LEMMA AnswerTakesOff ==
  ASSUME Inv, UpToDate, NEW w \in Workers, ApplyStep(w),
         NEW e \in DOMAIN wk[w].key, wk[w].key[e] = count[e],
         att'[e][wk[w].key[e]] # att[e][wk[w].key[e]]
  PROVE  ~Awaiting(exc'[e].state)
<1> DEFINE k == wk[w].key
           view == wk[w].seen[e]
           own == OwnRecord(w, e)
<1>1. PICK applied \in SUBSET (DOMAIN k \ RaisingMembers(w)),
           raised \in SUBSET RaisingMembers(w) : ApplyTo(w, applied, raised)
  BY DEF ApplyStep
<1>2. wk[w].pc = "apply" /\ k \in Keys /\ e \in Exceptions
  BY ApplyFacts, KeyFacts
<1>3. e \in applied \cup raised
  BY <1>1, <1>2 DEF ApplyTo
<1>4. exc'[e] = IF e \in applied THEN AppliedRecord(w, e) ELSE own
  BY <1>1, <1>2 DEF ApplyTo
<1>5. ~Awaiting(Target(k, e, view))
  BY DEF Target, DecisionState, Awaiting
<1>6. CASE Awaiting(own.state)
  <2>1. view.version = own.version /\ view.state = own.state
    BY <1>2, <1>6 DEF UpToDate, Inv, Views, Fits
  <2>2. ~Illegal(k, e, view) /\ ~IsTerminal(view.state)
    BY <1>6, <2>1 DEF Illegal, Awaiting, IsTerminal, TerminalStates
  <2>3. e \in applied /\ Moves(w, e)
    BY <1>1, <1>3, <2>1, <2>2 DEF RaisingMembers, Moves, SameVersion
  <2>4. AppliedRecord(w, e).state = Target(k, e, view)
    BY <2>3 DEF AppliedRecord
  <2> QED
    BY <1>4, <1>5, <2>3, <2>4
<1>7. CASE ~Awaiting(own.state)
  <2>1. AppliedRecord(w, e).state \in {Target(k, e, view), own.state}
    BY DEF AppliedRecord
  <2> QED
    BY <1>4, <1>5, <1>7, <2>1
<1> QED
  BY <1>6, <1>7

\* The condition under which answers and exceptions stay together: one process
\* applies results, dispatches do not overlap, and nobody can plan again an
\* exception whose recipient id was missing from the reply.
Orderly == OneWorker /\ OneAtATime /\ (Apis = {} \/ ~ShortReplies)

LEMMA UnansweredKept ==
  ASSUME Inv, Orderly, Current, Pending, UpToDate, Unanswered, [Next]_vars
  PROVE  Unanswered'
<1> SUFFICES ASSUME NEW e \in Exceptions, Awaiting(exc'[e].state)
             PROVE  \E k \in CallsTo(e)' \cap linked' :
                      /\ k[e] = count'[e] /\ att'[e][k[e]] \in {"PENDING", "DISPATCHED"}
                      /\ ShortReplies \/ att'[e][k[e]] = "DISPATCHED"
  BY DEF Unanswered, Awaiting
<1> TypeOK
  BY DEF Inv
<1>1. CASE Awaiting(exc[e].state)
  <2>1. PICK k \in CallsTo(e) \cap linked :
          /\ k[e] = count[e] /\ att[e][k[e]] \in {"PENDING", "DISPATCHED"}
          /\ ShortReplies \/ att[e][k[e]] = "DISPATCHED"
    BY <1>1 DEF Unanswered
  <2>2. k \in CallsTo(e)' \cap linked'
    BY Growth DEF Grows, CallsTo
  <2>3. count'[e] = count[e]
    <3>1. ASSUME NEW c \in Dispatchers, NEW S \in SUBSET Exceptions,
                 MayPlan(c, S), e \in ReadyIn(S)
          PROVE  FALSE
      <4>1. CASE Apis = {}
        BY <1>1, <3>1, <4>1
        DEF MayPlan, ScannerPicks, ReadyIn, Dispatchers, Awaiting
      <4>2. CASE ~ShortReplies
        <5>1. LastStatus(e) = "DISPATCHED"
          BY <2>1, <4>2, KeyFacts DEF LastStatus, CallsTo, Slots
        <5> QED
          BY <3>1, <5>1 DEF ReadyIn, Ready, BudgetVerdict
      <4> QED
        BY <4>1, <4>2 DEF Orderly
    <3> QED
      BY <3>1, CountSteps, StagedFacts
  <2>4. att'[e][k[e]] = att[e][k[e]]
    <3>1. e \in DOMAIN k /\ k \in linked
      BY DEF CallsTo
    <3> QED
      BY <2>1, <3>1, LinkedAttempt, AnswerTakesOff
  <2> QED
    BY <2>1, <2>2, <2>3, <2>4
<1>2. CASE ~Awaiting(exc[e].state)
  <2>1. PICK d \in Dispatchers : RecordStep(d) /\ e \in DOMAIN disp[d].key
    <3>1. RowStep(e)
      BY Rows
    <3> QED
      BY <1>2, <3>1 DEF RowStep, RowMove, Awaiting
  <2> DEFINE k == disp[d].key
  <2>2. /\ disp[d].pc # "idle" /\ k \in Keys /\ k[e] \in Slots
        /\ linked' = linked \cup {k} /\ call'[k] # "none" /\ count'[e] = count[e]
    BY <2>1, RecordFactsOfCall, KeyFacts
  <2>3. k[e] = count[e] /\ att[e][k[e]] = "PENDING"
    BY <2>1, <2>2 DEF Current, Pending
  <2>4. PICK got, moved \in SUBSET DOMAIN k : RecordCall(d, got, moved)
    BY <2>1 DEF RecordStep
  <2>5. att'[e][k[e]] = IF e \in got THEN "DISPATCHED" ELSE "PENDING"
    BY <2>2, <2>3, <2>4 DEF RecordCall, TypeOK
  <2>6. ShortReplies \/ e \in got
    BY <2>1, <2>4 DEF RecordCall
  <2>7. k \in CallsTo(e)'
    BY <2>1, <2>2 DEF CallsTo
  <2> QED
    BY <2>2, <2>3, <2>5, <2>6, <2>7
<1> QED
  BY <1>1, <1>2

\* An exception shown as on a call is on the stored call of its latest attempt,
\* whose answer is not yet written: results and exceptions are written together,
\* as long as nobody writes the row between a worker's read and its write.
THEOREM AwaitingIsOnItsCall == Orderly => (Spec => []AwaitingIsUnanswered)
<1> SUFFICES ASSUME Orderly PROVE Spec => []AwaitingIsUnanswered
  OBVIOUS
<1> DEFINE J == Current /\ Pending /\ UpToDate /\ Unanswered
<1>1. Init => J
  BY DEF Init, Current, Pending, UpToDate, Unanswered, Awaiting,
         IdleDispatcher, IdleWorker
<1>2. Inv /\ J /\ [Next]_vars => J'
  BY CurrentKept, PendingKept, UpToDateKept, UnansweredKept DEF Orderly
<1>3. J => AwaitingIsUnanswered
  BY DEF Unanswered, AwaitingIsUnanswered
<1> QED
  BY <1>1, <1>2, <1>3, InvariantHolds, PTL DEF Spec
=============================================================================
