------------------------ MODULE CallWorkflow_proofs ------------------------
(***************************************************************************)
(* Theorems about CallWorkflow, for any sets of exceptions, dispatchers,   *)
(* workers and events and any attempt budget.                              *)
(***************************************************************************)
EXTENDS CallWorkflow, FiniteSetTheorems, TLAPS

-----------------------------------------------------------------------------
(***************************************************************************)
(* Facts about the records and keys the actions are built from.            *)
(***************************************************************************)

\* A key is a non-empty partial function from exceptions to attempt numbers.
LEMMA KeyFacts ==
  ASSUME NEW k \in Keys
  PROVE  /\ DOMAIN k \subseteq Exceptions
         /\ \A e \in DOMAIN k : k[e] \in Slots
BY DEF Keys

\* The empty key, which stands for no call in hand, mentions nobody.
LEMMA NoKeyFacts == DOMAIN NoKey = {}
BY DEF NoKey

\* Its fields have their types.
LEMMA RecordFields ==
  ASSUME NEW r \in Record
  PROVE  /\ r.state \in ExceptionStates
         /\ r.version \in Nat
         /\ r.blocked \in BOOLEAN
BY Zenon DEF Record

\* A transitioned record is a record.
LEMMA TransitionedType ==
  ASSUME NEW r \in Record, NEW s \in ExceptionStates
  PROVE  Transitioned(r, s) \in Record
<1>1. r.version + 1 \in Nat
  BY RecordFields
<1> QED
  BY <1>1, Zenon DEF Record, Transitioned

\* Planning and escalating a record gives a record.
LEMMA RecordFacts ==
  ASSUME NEW r \in Record
  PROVE  /\ PlannedRecord(r) \in Record
         /\ EscalatedRecord(r) \in Record
<1>1. {"ELIGIBLE", "CALL_PLANNED", "HUMAN_REVIEW"} \subseteq ExceptionStates
  BY DEF ExceptionStates
<1>2. Transitioned(Transitioned(r, "ELIGIBLE"), "CALL_PLANNED") \in Record
  BY <1>1, TransitionedType
<1>3. Transitioned(r, "CALL_PLANNED") \in Record
  BY <1>1, TransitionedType
<1> QED
  BY <1>1, <1>2, <1>3, TransitionedType DEF PlannedRecord, EscalatedRecord

\* What a process keeps of a record is a view.
LEMMA SeenType ==
  ASSUME TypeOK, NEW e \in Exceptions, NEW r \in Record
  PROVE  Seen(e, r) \in View
BY AttemptsAssumption DEF TypeOK, Seen, View, Record

\* A process that has read nothing holds no view of any row.
LEMMA NoViewsType == NoViews \in [Exceptions -> View]
BY DEF NoViews, NoView, View

\* The idle records are records of their kind.
LEMMA IdleTypes ==
  /\ IdleDispatcher \in DispatcherRecord
  /\ IdleWorker \in WorkerRecord
BY NoViewsType DEF IdleDispatcher, IdleWorker, DispatcherRecord, WorkerRecord

\* The key of a new batch is a key, its attempts are the next ones, and the
\* budget has room for them.
LEMMA NewKeyFacts ==
  ASSUME TypeOK, NEW S \in SUBSET Exceptions, ReadyIn(S) # {}
  PROVE  /\ NewKey(S) \in Keys
         /\ DOMAIN NewKey(S) = ReadyIn(S)
         /\ \A e \in ReadyIn(S) : NewKey(S)[e] = count[e] + 1
<1>1. \A e \in ReadyIn(S) : count[e] + 1 \in 1 .. MaxAttempts
  BY AttemptsAssumption DEF TypeOK, ReadyIn, Ready, BudgetVerdict
<1>2. ReadyIn(S) \in (SUBSET Exceptions) \ {{}}
  BY DEF ReadyIn
<1>3. NewKey(S) \in [ReadyIn(S) -> Slots]
  BY <1>1, AttemptsAssumption DEF NewKey, NextAttemptNo, Slots
<1> QED
  BY <1>1, <1>2, <1>3 DEF Keys, NewKey, NextAttemptNo

\* A worker's own view of a row is a record.
LEMMA OwnRecordType ==
  ASSUME TypeOK, NEW w, NEW e \in Exceptions
  PROVE  OwnRecord(w, e) \in Record
<1>1. exc[e] \in Record
  BY DEF TypeOK
<1>2. "RECONCILING" \in ExceptionStates
  BY DEF ExceptionStates
<1> QED
  BY <1>1, <1>2, TransitionedType DEF OwnRecord
\* So is the row with a result applied to it.
LEMMA AppliedRecordType ==
  ASSUME TypeOK, NEW w \in Workers, NEW e \in Exceptions
  PROVE  AppliedRecord(w, e) \in Record
<1> DEFINE view == wk[w].seen[e]
           own == OwnRecord(w, e)
<1>1. own \in Record
  BY OwnRecordType
<1>2. own.state \in ExceptionStates /\ own.version \in Nat /\ own.blocked \in BOOLEAN
  BY <1>1, RecordFields
<1>3. Target(wk[w].key, e, view) \in ExceptionStates
  BY DEF Target, DecisionState, ExceptionStates
<1>4. own.version + 1 \in Nat /\ own.version + 3 \in Nat
  BY <1>2
<1>5. (own.blocked \/ OptsOut(w, e)) \in BOOLEAN
  OBVIOUS
<1> HIDE DEF own, view
<1>6. \A s \in ExceptionStates, v \in Nat, b \in BOOLEAN :
        [state |-> s, version |-> v, blocked |-> b] \in Record
  BY Zenon DEF Record
<1>7. (IF Moves(w, e) THEN Target(wk[w].key, e, view) ELSE own.state) \in ExceptionStates
  BY <1>2, <1>3
<1>8. (IF ~Moves(w, e) THEN own.version
       ELSE IF Awaiting(view.state) THEN own.version + 3
       ELSE own.version + 1) \in Nat
  BY <1>2, <1>4
<1> QED
  BY <1>5, <1>6, <1>7, <1>8, Zenon DEF AppliedRecord, own, view

\* The rows a worker reads are views.
LEMMA ReadRowsType ==
  ASSUME TypeOK, NEW w, NEW k
  PROVE  ReadRows(w, k) \in [Exceptions -> View]
<1>1. \A e \in Exceptions : Seen(e, OwnRecord(w, e)) \in View
  BY OwnRecordType, SeenType
<1>2. NoView \in View
  BY DEF NoView, View
<1> QED
  BY <1>1, <1>2 DEF ReadRows

-----------------------------------------------------------------------------
(***************************************************************************)
(* Type correctness.                                                       *)
(***************************************************************************)

\* A plan keeps the tables' types; its counts stay within the budget.
LEMMA PlanType ==
  ASSUME TypeOK, NEW S \in SUBSET Exceptions
  PROVE  /\ StageAttempts(S) =>
              /\ run' \in [Exceptions -> {"NONE", "PLANNED", "COMPLETED"}]
              /\ count' \in [Exceptions -> 0 .. MaxAttempts]
              /\ att' \in [Exceptions -> [Slots -> AttemptStatus]]
         /\ [e \in Exceptions |->
               IF e \in ReadyIn(S) THEN PlannedRecord(exc[e])
               ELSE IF e \in S THEN EscalatedRecord(exc[e])
               ELSE exc[e]] \in [Exceptions -> Record]
         /\ [e \in Exceptions |->
               IF e \in ReadyIn(S) THEN EscalatedRecord(PlannedRecord(exc[e]))
               ELSE IF e \in S THEN EscalatedRecord(exc[e])
               ELSE exc[e]] \in [Exceptions -> Record]
         /\ [e \in Exceptions |->
               IF e \in S THEN EscalatedRecord(exc[e]) ELSE exc[e]]
              \in [Exceptions -> Record]
<1>1. \A e \in Exceptions : exc[e] \in Record
  BY DEF TypeOK
<1>2. \A e \in Exceptions :
        /\ PlannedRecord(exc[e]) \in Record
        /\ EscalatedRecord(exc[e]) \in Record
        /\ EscalatedRecord(PlannedRecord(exc[e])) \in Record
  BY <1>1, RecordFacts
<1>3. \A e \in ReadyIn(S) : NextAttemptNo(e) \in 1 .. MaxAttempts
  BY AttemptsAssumption DEF TypeOK, ReadyIn, Ready, BudgetVerdict, NextAttemptNo
<1>4. ASSUME StageAttempts(S)
      PROVE  /\ run' \in [Exceptions -> {"NONE", "PLANNED", "COMPLETED"}]
             /\ count' \in [Exceptions -> 0 .. MaxAttempts]
             /\ att' \in [Exceptions -> [Slots -> AttemptStatus]]
  <2>1. \A e \in ReadyIn(S) : NextAttemptNo(e) \in Slots
    BY <1>3, AttemptsAssumption DEF Slots
  <2>2. run' \in [Exceptions -> {"NONE", "PLANNED", "COMPLETED"}]
    BY <1>4 DEF TypeOK, StageAttempts
  <2>3. count' \in [Exceptions -> 0 .. MaxAttempts]
    BY <1>3, <1>4, AttemptsAssumption DEF TypeOK, StageAttempts
  <2>4. att' \in [Exceptions -> [Slots -> AttemptStatus]]
    BY <1>4, <2>1 DEF TypeOK, StageAttempts, AttemptStatus
  <2> QED
    BY <2>2, <2>3, <2>4
<1> QED
  BY <1>1, <1>2, <1>4

\* The empty database and the idle processes have their types.
LEMMA TypeInit == Init => TypeOK
<1> SUFFICES ASSUME Init PROVE TypeOK
  OBVIOUS
<1>1. exc \in [Exceptions -> Record]
  <2>1. [state |-> "OPEN", version |-> 0, blocked |-> FALSE] \in Record
    BY DEF Record, ExceptionStates
  <2> QED
    BY <2>1 DEF Init
<1>2. /\ disp \in [Dispatchers -> DispatcherRecord]
      /\ wk \in [Workers -> WorkerRecord]
  BY IdleTypes DEF Init
<1> QED
  BY <1>1, <1>2, AttemptsAssumption, PollsAssumption
  DEF Init, TypeOK, AttemptStatus, BatchStatus, CallStatus, OutboxStatus

\* Every step of a dispatcher.
LEMMA TypeDispatcher ==
  ASSUME TypeOK, NEW d \in Dispatchers, DispatcherStep(d)
  PROVE  TypeOK'
<1> USE DEF TypeOK
<1>1. ASSUME NEW S \in SUBSET Exceptions, PlanRefused(d, S) PROVE TypeOK'
  BY <1>1, PlanType DEF PlanRefused, provider
<1>2. ASSUME NEW S \in SUBSET Exceptions, PlanUnconfigured(d, S) PROVE TypeOK'
  BY <1>2, PlanType DEF PlanUnconfigured, provider
<1>3. ASSUME NEW S \in SUBSET Exceptions, PlanBlocked(d, S) PROVE TypeOK'
  BY <1>3, PlanType DEF PlanBlocked, provider
<1>4. ASSUME NEW S \in SUBSET Exceptions, PlanBatch(d, S) PROVE TypeOK'
  <2>1. NewKey(S) \in Keys
    BY <1>4, NewKeyFacts DEF PlanBatch
  <2>2. [e \in Exceptions |->
          IF e \in ReadyIn(S) THEN Seen(e, PlannedRecord(exc[e])) ELSE NoView]
        \in [Exceptions -> View]
    <3>1. \A e \in Exceptions : Seen(e, PlannedRecord(exc[e])) \in View
      BY SeenType, RecordFacts
    <3> QED
      BY <3>1 DEF NoView, View
  <2>3. disp' \in [Dispatchers -> DispatcherRecord]
    BY <1>4, <2>1, <2>2 DEF PlanBatch, DispatcherRecord
  <2>4. batch' \in [Keys -> BatchStatus]
    BY <1>4, <2>1 DEF PlanBatch, BatchStatus
  <2> QED
    BY <1>4, <2>3, <2>4, PlanType DEF PlanBatch, provider
<1>5. CASE CreateAccepted(d)
  <2>1. disp[d].key \in Keys \cup {NoKey}
    BY DEF DispatcherRecord
  <2>2. call' \in [Keys -> CallStatus]
    BY <1>5 DEF CreateAccepted, StartCall, CallStatus
  <2>3. disp' \in [Dispatchers -> DispatcherRecord]
    BY <1>5 DEF CreateAccepted, DispatcherRecord
  <2> QED
    BY <1>5, <2>2, <2>3 DEF CreateAccepted, db
<1>6. CASE CreateFailed(d)
  <2> DEFINE k == disp[d].key
  <2>1. k \in Keys \cup {NoKey}
    BY DEF DispatcherRecord
  <2>2. batch' \in [Keys -> BatchStatus]
    BY <1>6 DEF CreateFailed, BatchStatus
  <2>5. flying' \subseteq Keys
    BY <1>6 DEF CreateFailed, GiveUp, DispatcherRecord
  <2>3. att' \in [Exceptions -> [Slots -> AttemptStatus]]
    BY <1>6, <2>1 DEF CreateFailed, AttemptStatus
  <2>4. disp' \in [Dispatchers -> DispatcherRecord]
    BY <1>6, IdleTypes DEF CreateFailed
  <2> QED
    BY <1>6, <2>2, <2>3, <2>4, <2>5 DEF CreateFailed
<1>7. ASSUME NEW got \in SUBSET DOMAIN disp[d].key,
             NEW moved \in SUBSET DOMAIN disp[d].key,
             disp[d].pc = "record", RecordCall(d, got, moved)
      PROVE  TypeOK'
  <2> DEFINE k == disp[d].key
  <2>1. k \in Keys
    BY <1>7 DEF DispatcherRecord
  <2>2. DOMAIN k \subseteq Exceptions /\ \A e \in DOMAIN k : k[e] \in Slots
    BY <2>1, KeyFacts
  <2>3. exc' \in [Exceptions -> Record]
    <3>1. \A e \in Exceptions :
            /\ exc[e] \in Record
            /\ Transitioned(exc[e], "CALLING") \in Record
      BY TransitionedType DEF ExceptionStates
    <3> QED
      BY <1>7, <3>1 DEF RecordCall
  <2>4. batch' \in [Keys -> BatchStatus] /\ linked' \subseteq Keys
    BY <1>7, <2>1 DEF RecordCall, BatchStatus
  <2>5. rid' \subseteq Exceptions \X Slots
    <3>1. \A e \in got : <<e, k[e]>> \in Exceptions \X Slots
      BY <2>2
    <3>2. rid' = rid \cup {<<e, k[e]>> : e \in got}
      BY <1>7 DEF RecordCall
    <3> QED
      BY <3>1, <3>2
  <2>6. att' \in [Exceptions -> [Slots -> AttemptStatus]]
    BY <1>7, <2>2 DEF RecordCall, AttemptStatus
  <2>7. disp' \in [Dispatchers -> DispatcherRecord]
    BY <1>7, IdleTypes DEF RecordCall
  <2> QED
    BY <1>7, <2>3, <2>4, <2>5, <2>6, <2>7 DEF RecordCall, provider
<1>8. CASE DispatcherCrash(d)
  <2>1. flying' \subseteq Keys
    BY <1>8 DEF DispatcherCrash, GiveUp, DispatcherRecord
  <2> QED
    BY <1>8, <2>1, IdleTypes DEF DispatcherCrash, db
<1>9. CASE RecordRolledBack(d)
  BY <1>9, IdleTypes DEF RecordRolledBack, db, provider
<1> QED
  BY <1>1, <1>2, <1>3, <1>4, <1>5, <1>6, <1>7, <1>8, <1>9
  DEF DispatcherStep, RecordDispatched, RecordCutShort, MayRecord

\* The provider and the person.
LEMMA TypeProvider == TypeOK /\ ProviderStep => TypeOK'
<1> SUFFICES ASSUME TypeOK, NEW k \in Keys,
                    CreateLands(k) \/ FinishCall(k) \/ \E v \in Events : Webhook(k, v)
             PROVE  TypeOK'
  BY DEF ProviderStep
<1> USE DEF TypeOK
<1>1. CASE FinishCall(k)
  <2>1. DOMAIN k \subseteq Exceptions /\ \A e \in DOMAIN k : k[e] \in Slots
    BY KeyFacts
  <2>2. PICK status \in {"completed", "failed"}, says \in [DOMAIN k -> Outcomes] :
          /\ call' = [call EXCEPT ![k] = status]
          /\ slice' = [e \in Exceptions |->
                         IF e \in DOMAIN k THEN [slice[e] EXCEPT ![k[e]] = says[e]]
                         ELSE slice[e]]
    BY <1>1 DEF FinishCall
  <2>3. call' \in [Keys -> CallStatus]
    BY <2>2 DEF CallStatus
  <2>4. slice' \in [Exceptions -> [Slots -> Outcomes \cup {"none"}]]
    BY <2>1, <2>2
  <2> QED
    BY <1>1, <2>3, <2>4 DEF FinishCall, db
<1>2. ASSUME NEW v \in Events, Webhook(k, v) PROVE TypeOK'
  BY <1>2 DEF Webhook, provider, OutboxStatus
<1>3. CASE CreateLands(k)
  BY <1>3 DEF CreateLands, StartCall, CallStatus, db
<1> QED
  BY <1>1, <1>2, <1>3

\* A person's settlement writes a state of the machine under the next version.
LEMMA TypeOperator ==
  ASSUME TypeOK, NEW e \in Exceptions, NEW s \in TerminalStates, OperatorSettles(e, s)
  PROVE  TypeOK'
<1> USE DEF TypeOK
<1>2. s \in ExceptionStates
  BY DEF TerminalStates, ExceptionStates
<1>3. exc' \in [Exceptions -> Record]
  BY <1>2, TransitionedType DEF OperatorSettles
<1> QED
  BY <1>3 DEF OperatorSettles, provider

\* A worker with a call in hand: reading rows again keeps its type.
LEMMA WorkerFacts ==
  ASSUME TypeOK, NEW w \in Workers, wk[w].pc # "idle"
  PROVE  /\ wk[w].key \in Keys
         /\ DOMAIN wk[w].key \subseteq Exceptions
         /\ \A e \in DOMAIN wk[w].key : wk[w].key[e] \in Slots
         /\ wk[w].marked \subseteq Exceptions /\ wk[w].events \subseteq Events
         /\ wk[w].seen \in [Exceptions -> View]
<1>1. wk[w] \in WorkerRecord
  BY DEF TypeOK
<1>2. /\ wk[w].key \in Keys
      /\ wk[w].marked \subseteq Exceptions /\ wk[w].events \subseteq Events
      /\ wk[w].seen \in [Exceptions -> View]
  BY <1>1 DEF WorkerRecord
<1> QED
  BY <1>2, KeyFacts

\* Moving a worker on, or giving it new views, keeps its record of its kind.
LEMMA WorkerUpdate ==
  ASSUME NEW r \in WorkerRecord, r.pc # "idle",
         NEW p \in {"fetch", "return", "apply"}, NEW f \in [Exceptions -> View]
  PROVE  /\ [r EXCEPT !.pc = p] \in WorkerRecord
         /\ [r EXCEPT !.seen = f] \in WorkerRecord
         /\ [r EXCEPT !.pc = p, !.seen = f] \in WorkerRecord
<1>1. r \in [pc : {"fetch", "return", "apply"}, key : Keys, events : SUBSET Events,
            marked : SUBSET Exceptions, seen : [Exceptions -> View]]
  BY DEF WorkerRecord
<1> QED
  BY <1>1, Zenon DEF WorkerRecord

\* Such an update keeps the batch in hand and the rows that are locked.
LEMMA WorkerUpdateFields ==
  ASSUME NEW r \in WorkerRecord, r.pc # "idle",
         NEW p \in {"fetch", "return", "apply"}, NEW f \in [Exceptions -> View]
  PROVE  /\ LET q == [r EXCEPT !.pc = p, !.seen = f] IN
            q.pc = p /\ q.seen = f /\ q.key = r.key /\ q.marked = r.marked
         /\ LET q == [r EXCEPT !.seen = f] IN
            q.pc = r.pc /\ q.seen = f /\ q.key = r.key /\ q.marked = r.marked
<1>1. r \in [pc : {"fetch", "return", "apply"}, key : Keys, events : SUBSET Events,
            marked : SUBSET Exceptions, seen : [Exceptions -> View]]
  BY DEF WorkerRecord
<1> QED
  BY <1>1, Zenon

\* Reading rows leaves a worker with the same batch and locks.
LEMMA FetchedFacts ==
  ASSUME TypeOK, NEW w \in Workers, SweepFetched(w)
  PROVE  /\ \A x \in Workers \ {w} : wk'[x] = wk[x]
         /\ wk'[w].pc = "apply" /\ wk'[w].seen = ReadRows(w, wk[w].key)
         /\ wk'[w].key = wk[w].key /\ wk'[w].marked = wk[w].marked
<1> DEFINE f == ReadRows(w, wk[w].key)
<1>1. wk[w] \in WorkerRecord /\ wk[w].pc # "idle"
  BY DEF TypeOK, SweepFetched
<1>2. f \in [Exceptions -> View]
  BY ReadRowsType
<1>3. wk' = [wk EXCEPT ![w] = [wk[w] EXCEPT !.pc = "apply", !.seen = f]]
  BY DEF SweepFetched
<1> DEFINE q == [wk[w] EXCEPT !.pc = "apply", !.seen = f]
<1>4. q.pc = "apply" /\ q.seen = f /\ q.key = wk[w].key /\ q.marked = wk[w].marked
  BY <1>1, <1>2, WorkerUpdateFields
<1> HIDE DEF q
<1>5. wk'[w] = q /\ \A x \in Workers \ {w} : wk'[x] = wk[x]
  BY <1>3 DEF TypeOK, q
<1> QED
  BY <1>4, <1>5

\* A later read changes one worker's views and nothing else that it holds.
LEMMA ReadLaterFacts ==
  ASSUME TypeOK, NEW w \in Workers, NEW late, ReadLater(w, late)
  PROVE  /\ \A x \in Workers \ {w} : wk'[x] = wk[x]
         /\ wk'[w].pc = "apply" /\ wk'[w].key = wk[w].key
         /\ wk'[w].marked = wk[w].marked
         /\ wk'[w].seen = [e \in Exceptions |->
                             IF e \in late THEN Seen(e, OwnRecord(w, e))
                             ELSE wk[w].seen[e]]
<1> DEFINE f == [e \in Exceptions |->
                  IF e \in late THEN Seen(e, OwnRecord(w, e)) ELSE wk[w].seen[e]]
<1>1. wk[w] \in WorkerRecord /\ wk[w].pc = "apply"
  BY DEF TypeOK, ReadLater
<1>2. f \in [Exceptions -> View]
  BY <1>1, WorkerFacts, OwnRecordType, SeenType
<1>3. wk' = [wk EXCEPT ![w] = [wk[w] EXCEPT !.seen = f]]
  BY DEF ReadLater
<1> DEFINE q == [wk[w] EXCEPT !.seen = f]
<1>4. q.pc = "apply" /\ q.seen = f /\ q.key = wk[w].key /\ q.marked = wk[w].marked
  BY <1>1, <1>2, WorkerUpdateFields
<1> HIDE DEF q
<1>5. wk'[w] = q /\ \A x \in Workers \ {w} : wk'[x] = wk[x]
  BY <1>3 DEF TypeOK, q
<1> QED
  BY <1>4, <1>5

\* Applying a result, whole or cut short, writes states, statuses and versions
\* that their columns can hold.
LEMMA TypeApply ==
  ASSUME TypeOK, NEW w \in Workers, wk[w].pc = "apply",
         NEW applied \in SUBSET DOMAIN wk[w].key,
         NEW raised \in SUBSET DOMAIN wk[w].key,
         NEW delivered \in BOOLEAN,
         ApplyTo(w, applied, raised), SettleMessages(w, delivered)
  PROVE  TypeOK'
<1> DEFINE k == wk[w].key
<1> USE DEF TypeOK
<1>1. /\ k \in Keys /\ DOMAIN k \subseteq Exceptions
      /\ \A e \in DOMAIN k : k[e] \in Slots
  BY WorkerFacts
<1>2. exc' \in [Exceptions -> Record]
  BY OwnRecordType, AppliedRecordType DEF ApplyTo
<1>3. batch' \in [Keys -> BatchStatus]
  BY <1>1 DEF ApplyTo, BatchStatus
<1>4. att' \in [Exceptions -> [Slots -> AttemptStatus]]
  BY <1>1 DEF ApplyTo, AttemptStatus, AttemptResult
<1>5. run' \in [Exceptions -> {"NONE", "PLANNED", "COMPLETED"}]
  BY DEF ApplyTo
<1>6. wk' \in [Workers -> WorkerRecord]
  BY IdleTypes DEF ApplyTo
<1>7. outbox' \in [Keys -> [Events -> OutboxStatus]]
  BY <1>1 DEF SettleMessages, SettledStatus, OutboxStatus
<1> QED
  BY <1>2, <1>3, <1>4, <1>5, <1>6, <1>7 DEF ApplyTo, provider

\* The steps every worker takes.
LEMMA TypeWorker ==
  ASSUME TypeOK, NEW w \in Workers,
         \/ ApplyResults(w) \/ ApplyCutShort(w) \/ WorkerCrash(w)
         \/ \E late \in SUBSET Exceptions : ReadLater(w, late)
  PROVE  TypeOK'
<1>1. CASE ApplyResults(w)
  BY <1>1, TypeApply DEF ApplyResults, MayApply
<1>2. CASE ApplyCutShort(w)
  <2>1. PICK bad \in RaisingMembers(w) :
          \E applied \in SUBSET (DOMAIN wk[w].key \ RaisingMembers(w)) :
            /\ MayApply(w)
            /\ ApplyTo(w, applied, {bad})
            /\ SettleMessages(w, FALSE)
    BY <1>2 DEF ApplyCutShort
  <2>2. {bad} \in SUBSET DOMAIN wk[w].key
    BY DEF RaisingMembers
  <2> QED
    BY <2>1, <2>2, TypeApply DEF MayApply
<1>3. CASE WorkerCrash(w)
  BY <1>3, IdleTypes DEF WorkerCrash, TypeOK, db, provider
<1>4. ASSUME NEW late \in SUBSET Exceptions, ReadLater(w, late) PROVE TypeOK'
  <2> DEFINE f == [e \in Exceptions |->
                    IF e \in late THEN Seen(e, OwnRecord(w, e)) ELSE wk[w].seen[e]]
  <2>1. wk[w] \in WorkerRecord /\ wk[w].pc # "idle"
    BY <1>4 DEF TypeOK, ReadLater
  <2>2. f \in [Exceptions -> View]
    BY <2>1, WorkerFacts, OwnRecordType, SeenType
  <2>3. wk' = [wk EXCEPT ![w] = [wk[w] EXCEPT !.seen = f]]
    BY <1>4 DEF ReadLater
  <2> HIDE DEF f
  <2>4. wk' \in [Workers -> WorkerRecord]
    BY <2>1, <2>2, <2>3, WorkerUpdate DEF TypeOK
  <2> QED
    BY <1>4, <2>4 DEF ReadLater, TypeOK, db, provider
<1> QED
  BY <1>1, <1>2, <1>3, <1>4

\* Claiming a message, or delivering one for an unknown call, keeps every type.
LEMMA TypeOutbox ==
  ASSUME TypeOK, NEW w \in OutboxWorkers, OutboxStep(w)
  PROVE  TypeOK'
<1> w \in Workers
  BY DEF Workers
<1> PICK k \in Keys, v \in Events : OutboxUnknownCall(w, k, v) \/ OutboxClaim(w, k, v)
  BY DEF OutboxStep
<1>1. CASE OutboxUnknownCall(w, k, v)
  BY <1>1 DEF OutboxUnknownCall, TypeOK, OutboxStatus, provider
<1>2. CASE OutboxClaim(w, k, v)
  <2>1. ReadRows(w, k) \in [Exceptions -> View]
    BY ReadRowsType
  <2>2. wk' \in [Workers -> WorkerRecord]
    BY <1>2, <2>1 DEF OutboxClaim, TypeOK, WorkerRecord
  <2> QED
    BY <1>2, <2>2 DEF OutboxClaim, TypeOK, db, provider
<1> QED
  BY <1>1, <1>2

\* So does each step of the sweep.
LEMMA TypeSweep ==
  ASSUME TypeOK, NEW w \in Sweepers, SweepStep(w)
  PROVE  TypeOK'
<1> w \in Workers
  BY DEF Workers
<1>1. ASSUME NEW k \in Keys, SweepMark(w, k) PROVE TypeOK'
  <2>1. {e \in DOMAIN k : exc[e].state = "CALLING"} \subseteq Exceptions
    BY KeyFacts
  <2>2. wk' \in [Workers -> WorkerRecord]
    BY <1>1, <2>1, NoViewsType DEF SweepMark, TypeOK, WorkerRecord
  <2> QED
    BY <1>1, <2>2 DEF SweepMark, TypeOK, db, provider
<1>2. CASE SweepFetched(w)
  <2> DEFINE f == ReadRows(w, wk[w].key)
  <2>1. wk[w] \in WorkerRecord /\ wk[w].pc # "idle"
    BY <1>2 DEF TypeOK, SweepFetched
  <2>2. f \in [Exceptions -> View]
    BY ReadRowsType
  <2>3. wk' = [wk EXCEPT ![w] = [wk[w] EXCEPT !.pc = "apply", !.seen = f]]
    BY <1>2 DEF SweepFetched
  <2> HIDE DEF f
  <2>4. wk' \in [Workers -> WorkerRecord]
    BY <2>1, <2>2, <2>3, WorkerUpdate DEF TypeOK
  <2> QED
    BY <1>2, <2>4 DEF SweepFetched, TypeOK, db, provider
<1>3. CASE SweepStillRunning(w)
  <2>1. wk[w] \in WorkerRecord /\ wk[w].pc # "idle"
    BY <1>3 DEF TypeOK, SweepStillRunning
  <2>2. [wk[w] EXCEPT !.pc = "return"] \in WorkerRecord
    BY <2>1, NoViewsType, WorkerUpdate
  <2>3. wk' \in [Workers -> WorkerRecord] /\ polls' \in 0 .. MaxPolls
    BY <1>3, <2>2, PollsAssumption DEF SweepStillRunning, TypeOK
  <2> QED
    BY <1>3, <2>3 DEF SweepStillRunning, TypeOK, db, provider
<1>4. CASE SweepReturns(w)
  <2>1. \A e \in Exceptions : OwnRecord(w, e) \in Record
    BY OwnRecordType
  <2>2. \A e \in Exceptions : Transitioned(OwnRecord(w, e), "CALLING") \in Record
    BY <2>1, TransitionedType DEF ExceptionStates
  <2>4. exc' \in [Exceptions -> Record]
    BY <1>4, <2>1, <2>2 DEF SweepReturns
  <2> QED
    BY <1>4, <2>4, IdleTypes DEF SweepReturns, TypeOK, provider
<1>5. CASE SweepFetchFailed(w)
  BY <1>5, OwnRecordType, IdleTypes, PollsAssumption
  DEF SweepFetchFailed, TypeOK, provider
<1> QED
  BY <1>1, <1>2, <1>3, <1>4, <1>5 DEF SweepStep

\* Every step keeps the types.
LEMMA TypeStep == TypeOK /\ [Next]_vars => TypeOK'
<1> SUFFICES ASSUME TypeOK, [Next]_vars PROVE TypeOK'
  OBVIOUS
<1>1. CASE UNCHANGED vars
  BY <1>1 DEF vars, db, provider, TypeOK
<1>2. CASE Next
  BY <1>2, TypeDispatcher, TypeProvider, TypeOutbox, TypeSweep, TypeWorker,
     TypeOperator
  DEF Next
<1> QED
  BY <1>1, <1>2

\* TypeOK holds throughout: every table row and every process state is one the
\* schema and the code allow, no exception ever has more than max_attempts
\* attempts, and no outbox message is committed in flight.
THEOREM TypeCorrect == Spec => []TypeOK
<1> QED
  BY TypeInit, TypeStep, PTL DEF Spec

-----------------------------------------------------------------------------
(***************************************************************************)
(* The dial budget.  AttemptsClaimedOnce is inductive once the types are   *)
(* known: the count and the batch rows change together in PlanBatch only,  *)
(* and everything else keeps the batches there are.                        *)
(***************************************************************************)

\* No batch, no call and no key in hand: nothing is claimed yet.
LEMMA ClaimInit == Init => AttemptsClaimedOnce
BY DEF Init, AttemptsClaimedOnce, IdleDispatcher, IdleWorker

\* What AttemptsClaimedOnce asks of a step that plans no batch: rows stay, and
\* calls, links and processes turn to keys that have a row.
LEMMA ClaimKept ==
  ASSUME AttemptsClaimedOnce,
         \A k \in Keys : batch[k] = "NONE" <=> batch'[k] = "NONE",
         \A k \in Keys :
           call'[k] # "none" \/ k \in flying' \/ k \in linked' => batch[k] # "NONE",
         \A d \in Dispatchers :
           disp'[d].pc # "idle" => disp'[d].key \in Keys /\ batch[disp'[d].key] # "NONE",
         \A w \in Workers :
           wk'[w].pc # "idle" => wk'[w].key \in Keys /\ batch[wk'[w].key] # "NONE",
         \A e \in Exceptions : count[e] \in Nat /\ count'[e] \in Nat /\ count[e] <= count'[e]
  PROVE  AttemptsClaimedOnce'
<1>1. \A k \in Keys : batch'[k] # "NONE" => \A e \in DOMAIN k : k[e] <= count'[e]
  <2> SUFFICES ASSUME NEW k \in Keys, batch'[k] # "NONE", NEW e \in DOMAIN k
               PROVE  k[e] <= count'[e]
    OBVIOUS
  <2>1. e \in Exceptions /\ k[e] \in Nat
    BY KeyFacts, AttemptsAssumption DEF Slots
  <2>2. k[e] <= count[e]
    BY DEF AttemptsClaimedOnce
  <2> QED
    BY <2>1, <2>2
<1> QED
  BY <1>1 DEF AttemptsClaimedOnce

\* Planning a batch: its key is new, because its attempts are.
LEMMA ClaimPlan ==
  ASSUME TypeOK, AttemptsClaimedOnce,
         NEW d \in Dispatchers, NEW S \in SUBSET Exceptions, PlanBatch(d, S)
  PROVE  AttemptsClaimedOnce'
<1> DEFINE n == NewKey(S)
<1>1. /\ n \in Keys /\ DOMAIN n = ReadyIn(S)
      /\ \A e \in ReadyIn(S) : n[e] = count[e] + 1
  BY NewKeyFacts DEF PlanBatch
<1>2. ReadyIn(S) # {} /\ ReadyIn(S) \subseteq Exceptions
  BY DEF PlanBatch, ReadyIn
<1>3. \A e \in Exceptions :
        /\ count[e] \in Nat
        /\ count'[e] = IF e \in ReadyIn(S) THEN count[e] + 1 ELSE count[e]
  BY DEF PlanBatch, StageAttempts, NextAttemptNo, TypeOK
<1>4. batch' = [batch EXCEPT ![n] = "PENDING"]
  BY DEF PlanBatch
<1> HIDE DEF n
<1>5. \A k \in Keys : batch'[k] # "NONE" <=> batch[k] # "NONE" \/ k = n
  BY <1>1, <1>4 DEF TypeOK
<1>6. \A k \in Keys : \A e \in DOMAIN k :
        e \in Exceptions /\ k[e] \in Nat /\ (batch[k] # "NONE" => k[e] <= count[e])
  BY KeyFacts, AttemptsAssumption DEF AttemptsClaimedOnce, Slots
<1>7. \A k \in Keys : batch[k] # "NONE" =>
        \A e \in DOMAIN k \cap DOMAIN n : k[e] # n[e]
  BY <1>1, <1>3, <1>6
<1>8. \A k \in Keys :
        call'[k] # "none" \/ k \in flying' \/ k \in linked' => batch'[k] # "NONE"
  BY <1>5 DEF AttemptsClaimedOnce, PlanBatch, provider
<1>9. \A c \in Dispatchers : disp'[c].pc # "idle" => batch'[disp'[c].key] # "NONE"
  <2> SUFFICES ASSUME NEW c \in Dispatchers, disp'[c].pc # "idle"
               PROVE  batch'[disp'[c].key] # "NONE"
    OBVIOUS
  <2>1. CASE c = d
    BY <1>1, <1>5, <2>1 DEF PlanBatch, TypeOK, n
  <2>2. CASE c # d
    <3>1. disp'[c] = disp[c]
      BY <2>2 DEF PlanBatch, TypeOK
    <3>2. disp[c].key \in Keys
      BY <3>1 DEF TypeOK, DispatcherRecord
    <3> QED
      BY <1>5, <3>1, <3>2 DEF AttemptsClaimedOnce
  <2> QED
    BY <2>1, <2>2
<1>10. \A w \in Workers : wk'[w].pc # "idle" => batch'[wk'[w].key] # "NONE"
  BY <1>5, WorkerFacts DEF AttemptsClaimedOnce, PlanBatch
<1>11. \A k \in Keys : batch'[k] # "NONE" => \A e \in DOMAIN k : k[e] <= count'[e]
  BY <1>1, <1>3, <1>5, <1>6
<1>12. \A j, k \in Keys : batch'[j] # "NONE" /\ batch'[k] # "NONE" =>
         \A e \in DOMAIN j \cap DOMAIN k : j[e] = k[e] => j = k
  BY <1>5, <1>7 DEF AttemptsClaimedOnce
<1> QED
  BY <1>8, <1>9, <1>10, <1>11, <1>12 DEF AttemptsClaimedOnce

\* The other steps of a dispatcher.
LEMMA ClaimDispatcher ==
  ASSUME TypeOK, AttemptsClaimedOnce, NEW d \in Dispatchers, DispatcherStep(d)
  PROVE  AttemptsClaimedOnce'
<1> DEFINE k == disp[d].key
<1>1. \A e \in Exceptions : count[e] \in Nat
  BY DEF TypeOK
<1>2. \A c \in Dispatchers :
        disp[c].pc # "idle" => disp[c].key \in Keys /\ batch[disp[c].key] # "NONE"
  BY DEF TypeOK, DispatcherRecord, AttemptsClaimedOnce
<1>3. \A w \in Workers :
        wk[w].pc # "idle" => wk[w].key \in Keys /\ batch[wk[w].key] # "NONE"
  BY WorkerFacts DEF AttemptsClaimedOnce
<1>4. \A j \in Keys :
        call[j] # "none" \/ j \in flying \/ j \in linked => batch[j] # "NONE"
  BY DEF AttemptsClaimedOnce
<1>5. ASSUME NEW S \in SUBSET Exceptions,
             StageAttempts(S) \/ UNCHANGED count,
             UNCHANGED << batch, linked, call, flying, disp, wk >>
      PROVE  AttemptsClaimedOnce'
  <2>1. \A e \in Exceptions : count'[e] \in Nat /\ count[e] <= count'[e]
    <3>1. CASE StageAttempts(S)
      BY <1>1, <3>1 DEF StageAttempts, NextAttemptNo
    <3>2. CASE UNCHANGED count
      BY <1>1, <3>2
    <3> QED
      BY <1>5, <3>1, <3>2
  <2> QED
    BY <1>1, <1>2, <1>3, <1>4, <1>5, <2>1, ClaimKept
<1>6. ASSUME NEW S \in SUBSET Exceptions,
             PlanRefused(d, S) \/ PlanUnconfigured(d, S) \/ PlanBlocked(d, S)
      PROVE  AttemptsClaimedOnce'
  BY <1>5, <1>6 DEF PlanRefused, PlanUnconfigured, PlanBlocked, provider
<1>7. ASSUME NEW S \in SUBSET Exceptions, PlanBatch(d, S) PROVE AttemptsClaimedOnce'
  BY <1>7, ClaimPlan
<1>8. CASE CreateAccepted(d)
  <2>1. k \in Keys /\ batch[k] # "NONE"
    BY <1>2, <1>8 DEF CreateAccepted
  <2>2. \A j \in Keys : call'[j] # "none" => call[j] # "none" \/ j = k
    BY <1>8 DEF CreateAccepted, StartCall, TypeOK
  <2>3. \A c \in Dispatchers :
          disp'[c].key = disp[c].key /\ (disp[c].pc = "idle" => disp'[c].pc = "idle")
    BY <1>8 DEF CreateAccepted, TypeOK
  <2> QED
    BY <1>1, <1>2, <1>3, <1>4, <1>8, <2>1, <2>2, <2>3, ClaimKept
    DEF CreateAccepted, db
<1>9. CASE CreateFailed(d)
  <2>1. k \in Keys /\ batch[k] # "NONE"
    BY <1>2, <1>9 DEF CreateFailed
  <2>2. UNCHANGED call /\ flying' \subseteq flying \cup {k}
    BY <1>9 DEF CreateFailed, GiveUp
  <2>3. \A j \in Keys : batch[j] = "NONE" <=> batch'[j] = "NONE"
    BY <1>9, <2>1 DEF CreateFailed, TypeOK
  <2>4. \A c \in Dispatchers : disp'[c] = disp[c] \/ disp'[c].pc = "idle"
    BY <1>9 DEF CreateFailed, TypeOK, IdleDispatcher
  <2> QED
    BY <1>1, <1>2, <1>3, <1>4, <1>9, <2>1, <2>2, <2>3, <2>4, ClaimKept DEF CreateFailed
<1>10. ASSUME NEW got, NEW moved, disp[d].pc = "record", RecordCall(d, got, moved)
       PROVE  AttemptsClaimedOnce'
  <2>1. k \in Keys /\ batch[k] # "NONE"
    BY <1>2, <1>10
  <2>2. \A j \in Keys : j \in linked' => j \in linked \/ j = k
    BY <1>10 DEF RecordCall
  <2>3. \A j \in Keys : batch[j] = "NONE" <=> batch'[j] = "NONE"
    BY <1>10, <2>1 DEF RecordCall, TypeOK
  <2>4. \A c \in Dispatchers : disp'[c] = disp[c] \/ disp'[c].pc = "idle"
    BY <1>10 DEF RecordCall, TypeOK, IdleDispatcher
  <2> QED
    BY <1>1, <1>2, <1>3, <1>4, <1>10, <2>1, <2>2, <2>3, <2>4, ClaimKept
    DEF RecordCall, provider
<1>11. CASE DispatcherCrash(d) \/ RecordRolledBack(d)
  <2>1. \A c \in Dispatchers : disp'[c] = disp[c] \/ disp'[c].pc = "idle"
    BY <1>11 DEF DispatcherCrash, RecordRolledBack, TypeOK, IdleDispatcher
  <2>2. \/ flying' \subseteq flying
        \/ disp[d].pc # "idle" /\ flying' \subseteq flying \cup {k}
    BY <1>11 DEF DispatcherCrash, RecordRolledBack, GiveUp, provider
  <2>3. UNCHANGED << batch, linked, call, count, wk >>
    BY <1>11 DEF DispatcherCrash, RecordRolledBack, db, provider
  <2> QED
    BY <1>1, <1>2, <1>3, <1>4, <2>1, <2>2, <2>3, ClaimKept
<1> QED
  BY <1>6, <1>7, <1>8, <1>9, <1>10, <1>11
  DEF DispatcherStep, RecordDispatched, RecordCutShort, MayRecord

\* Workers, the provider and the person plan nothing.
LEMMA ClaimOthers ==
  ASSUME TypeOK, AttemptsClaimedOnce,
         \/ ProviderStep
         \/ \E w \in OutboxWorkers : OutboxStep(w)
         \/ \E w \in Sweepers : SweepStep(w)
         \/ \E w \in Workers :
              \/ ApplyResults(w) \/ ApplyCutShort(w) \/ WorkerCrash(w)
              \/ \E late \in SUBSET Exceptions : ReadLater(w, late)
         \/ \E e \in Exceptions, s \in TerminalStates : OperatorSettles(e, s)
  PROVE  AttemptsClaimedOnce'
<1>1. \A e \in Exceptions : count[e] \in Nat
  BY DEF TypeOK
<1>2. \A c \in Dispatchers :
        disp[c].pc # "idle" => disp[c].key \in Keys /\ batch[disp[c].key] # "NONE"
  BY DEF TypeOK, DispatcherRecord, AttemptsClaimedOnce
<1>3. \A x \in Workers :
        wk[x].pc # "idle" => wk[x].key \in Keys /\ batch[wk[x].key] # "NONE"
  BY WorkerFacts DEF AttemptsClaimedOnce
<1>4. \A j \in Keys :
        call[j] # "none" \/ j \in flying \/ j \in linked => batch[j] # "NONE"
  BY DEF AttemptsClaimedOnce
<1>5. ASSUME UNCHANGED << count, linked, disp >>,
             \A j \in Keys : batch[j] = "NONE" <=> batch'[j] = "NONE",
             \A j \in Keys :
               call'[j] # "none" \/ j \in flying' => call[j] # "none" \/ j \in flying,
             \A x \in Workers : wk'[x].pc # "idle" =>
               \/ wk[x].pc # "idle" /\ wk'[x].key = wk[x].key
               \/ wk'[x].key \in Keys /\ batch[wk'[x].key] # "NONE"
      PROVE  AttemptsClaimedOnce'
  BY <1>1, <1>2, <1>3, <1>4, <1>5, ClaimKept
<1>6. CASE ProviderStep
  <2> PICK k \in Keys :
        CreateLands(k) \/ FinishCall(k) \/ \E v \in Events : Webhook(k, v)
    BY <1>6 DEF ProviderStep
  <2>1. \A j \in Keys :
          call'[j] # "none" \/ j \in flying' => call[j] # "none" \/ j \in flying
    BY DEF CreateLands, StartCall, FinishCall, Webhook, provider, TypeOK
  <2> QED
    BY <1>5, <2>1 DEF CreateLands, FinishCall, Webhook, provider, db
<1>7. ASSUME NEW w \in OutboxWorkers, OutboxStep(w) PROVE AttemptsClaimedOnce'
  <2> PICK k \in Keys, v \in Events : OutboxUnknownCall(w, k, v) \/ OutboxClaim(w, k, v)
    BY <1>7 DEF OutboxStep
  <2>1. CASE OutboxUnknownCall(w, k, v)
    BY <1>5, <2>1 DEF OutboxUnknownCall, provider
  <2>2. CASE OutboxClaim(w, k, v)
    <3>1. batch[k] # "NONE"
      BY <1>4, <2>2 DEF OutboxClaim
    <3>2. \A x \in Workers : wk'[x] = wk[x] \/ wk'[x].key = k
      BY <2>2 DEF OutboxClaim, TypeOK
    <3> QED
      BY <1>5, <2>2, <3>1, <3>2 DEF OutboxClaim, db, provider
  <2> QED
    BY <2>1, <2>2
<1>8. ASSUME NEW w \in Sweepers, SweepStep(w) PROVE AttemptsClaimedOnce'
  <2>1. ASSUME NEW k \in Keys, SweepMark(w, k) PROVE AttemptsClaimedOnce'
    <3>1. batch[k] # "NONE"
      BY <2>1 DEF SweepMark, Stale
    <3>2. \A x \in Workers : wk'[x] = wk[x] \/ wk'[x].key = k
      BY <2>1 DEF SweepMark, TypeOK
    <3> QED
      BY <1>5, <2>1, <3>1, <3>2 DEF SweepMark, db, provider
  <2>2. CASE SweepFetched(w) \/ SweepStillRunning(w)
    <3> w \in Workers
      BY DEF Workers
    <3>1. wk[w].pc # "idle"
      BY <2>2 DEF SweepFetched, SweepStillRunning
    <3>2. \A x \in Workers : wk'[x] = wk[x] \/ (x = w /\ wk'[x].key = wk[x].key)
      <4>1. CASE SweepFetched(w)
        BY <4>1, FetchedFacts
      <4>2. CASE SweepStillRunning(w)
        BY <4>2 DEF SweepStillRunning, TypeOK
      <4> QED
        BY <2>2, <4>1, <4>2
    <3> QED
      BY <1>5, <2>2, <3>1, <3>2 DEF SweepFetched, SweepStillRunning, db, provider
  <2>3. CASE SweepReturns(w) \/ SweepFetchFailed(w)
    <3>1. \A x \in Workers : wk'[x] = wk[x] \/ wk'[x].pc = "idle"
      BY <2>3 DEF SweepReturns, SweepFetchFailed, TypeOK, IdleWorker
    <3> QED
      BY <1>5, <2>3, <3>1 DEF SweepReturns, SweepFetchFailed, provider
  <2> QED
    BY <1>8, <2>1, <2>2, <2>3 DEF SweepStep
<1>9. ASSUME NEW w \in Workers, NEW applied, NEW raised,
             wk[w].pc = "apply", ApplyTo(w, applied, raised)
      PROVE  AttemptsClaimedOnce'
  <2>1. wk[w].key \in Keys /\ batch[wk[w].key] # "NONE"
    BY <1>3, <1>9
  <2>2. \A j \in Keys : batch[j] = "NONE" <=> batch'[j] = "NONE"
    BY <1>9, <2>1 DEF ApplyTo, TypeOK
  <2>3. \A x \in Workers : wk'[x] = wk[x] \/ wk'[x].pc = "idle"
    BY <1>9 DEF ApplyTo, TypeOK, IdleWorker
  <2> QED
    BY <1>5, <1>9, <2>2, <2>3 DEF ApplyTo, provider
<1>10. ASSUME NEW w \in Workers, NEW late, WorkerCrash(w) \/ ReadLater(w, late)
       PROVE  AttemptsClaimedOnce'
  <2>1. \A x \in Workers :
          wk'[x].pc = "idle" \/ (wk[x].pc = wk'[x].pc /\ wk'[x].key = wk[x].key)
    <3>1. CASE WorkerCrash(w)
      BY <3>1 DEF WorkerCrash, TypeOK, IdleWorker
    <3>2. CASE ReadLater(w, late)
      BY <3>2, ReadLaterFacts DEF ReadLater
    <3> QED
      BY <1>10, <3>1, <3>2
  <2> QED
    BY <1>5, <1>10, <2>1 DEF WorkerCrash, ReadLater, db, provider
<1>11. ASSUME NEW e \in Exceptions, NEW s \in TerminalStates, OperatorSettles(e, s)
       PROVE  AttemptsClaimedOnce'
  BY <1>5, <1>11 DEF OperatorSettles, provider
<1> QED
  BY <1>6, <1>7, <1>8, <1>9, <1>10, <1>11 DEF ApplyResults, ApplyCutShort, MayApply

\* Attempts are claimed once, in every reachable state.
THEOREM ClaimsHold == Spec => []AttemptsClaimedOnce
<1>1. TypeOK /\ AttemptsClaimedOnce /\ [Next]_vars => AttemptsClaimedOnce'
  <2> SUFFICES ASSUME TypeOK, AttemptsClaimedOnce, [Next]_vars
               PROVE  AttemptsClaimedOnce'
    OBVIOUS
  <2>1. CASE UNCHANGED vars
    BY <2>1 DEF vars, db, provider, AttemptsClaimedOnce
  <2>2. CASE Next
    BY <2>2, ClaimDispatcher, ClaimOthers DEF Next
  <2> QED
    BY <2>1, <2>2
<1> QED
  BY <1>1, ClaimInit, TypeCorrect, PTL DEF Spec

\* No attempt is ever carried by two calls.
THEOREM AttemptsAreCalledOnce == Spec => []OneCallPerAttempt
<1>1. AttemptsClaimedOnce => OneCallPerAttempt
  BY DEF AttemptsClaimedOnce, OneCallPerAttempt, CallsTo
<1> QED
  BY <1>1, ClaimsHold, PTL

\* The calls to one supplier take attempt numbers of their own within the budget.
LEMMA CallsCounted ==
  ASSUME TypeOK, AttemptsClaimedOnce, NEW e \in Exceptions
  PROVE  IsFiniteSet(CallsTo(e)) /\ Cardinality(CallsTo(e)) <= MaxAttempts
<1> DEFINE number == [k \in CallsTo(e) |-> k[e]]
<1>1. \A k \in CallsTo(e) : k[e] \in 1 .. MaxAttempts
  <2> SUFFICES ASSUME NEW k \in CallsTo(e) PROVE k[e] \in 1 .. MaxAttempts
    OBVIOUS
  <2>1. k \in Keys /\ e \in DOMAIN k /\ batch[k] # "NONE"
    BY DEF CallsTo, AttemptsClaimedOnce
  <2>2. k[e] \in Slots /\ k[e] <= count[e]
    BY <2>1, KeyFacts DEF AttemptsClaimedOnce
  <2>3. count[e] \in 0 .. MaxAttempts
    BY DEF TypeOK
  <2> QED
    BY <2>2, <2>3, AttemptsAssumption DEF Slots
<1>2. \A j, k \in CallsTo(e) : number[j] = number[k] => j = k
  BY DEF CallsTo, AttemptsClaimedOnce
<1>3. number \in Injection(CallsTo(e), 1 .. MaxAttempts)
  BY <1>1, <1>2 DEF Injection, IsInjective
<1>4. IsFiniteSet(1 .. MaxAttempts) /\ Cardinality(1 .. MaxAttempts) = MaxAttempts
  BY FS_Interval, AttemptsAssumption
<1> HIDE DEF number
<1> QED
  BY <1>3, <1>4, FS_Injection

\* No supplier is ever dialled more than max_attempts times, for any number of
\* dispatchers, crashes, lost responses and manual triggers: each call takes an
\* attempt number of its own, and the numbers stop at the budget.
THEOREM DialBudget == Spec => []DialsWithinBudget
<1>1. TypeOK /\ AttemptsClaimedOnce => DialsWithinBudget
  BY CallsCounted DEF DialsWithinBudget
<1> QED
  BY <1>1, TypeCorrect, ClaimsHold, PTL
=============================================================================
