--------------------- MODULE CallWorkflow_safety_proofs ---------------------
(***************************************************************************)
(* Safety of CallWorkflow for any constants: what processes know of the    *)
(* rows they have read (Views), whose row locks are whose (Marks), what is *)
(* known of the calls behind keys and messages (Hands, Answers, Slices),   *)
(* and how one row may change in one step (RowStep).                       *)
(***************************************************************************)
EXTENDS CallWorkflow_proofs

-----------------------------------------------------------------------------
(***************************************************************************)
(* The invariant.                                                          *)
(***************************************************************************)

\* Between transactions an exception is in none of the intermediate states.
CommittedStates ==
  ExceptionStates \ {"ELIGIBLE", "RESULT_RECEIVED", "EVIDENCE_VALIDATED"}

Committed == \A e \in Exceptions : exc[e].state \in CommittedStates

\* A sweep's locks are on rows of its own call, read in CALLING, and its alone.
Marks ==
  /\ \A w \in Workers : \A e \in wk[w].marked :
       e \in DOMAIN wk[w].key /\ exc[e].state = "CALLING"
  /\ \A w, x \in Workers : w # x => wk[w].marked \cap wk[x].marked = {}

\* What was read of a row is no newer than the row; of the same version, it is
\* the row; and a row that was settled when it was read is settled.
Fits(view, row) ==
  /\ view.state \in CommittedStates
  /\ view.version <= row.version
  /\ view.version = row.version => view.state = row.state
  /\ IsTerminal(view.state) => IsTerminal(row.state)

Views ==
  /\ \A d \in Dispatchers : disp[d].pc # "idle" =>
       \A e \in DOMAIN disp[d].key : Fits(disp[d].seen[e], exc[e])
  /\ \A w \in Workers : wk[w].pc = "apply" =>
       \A e \in DOMAIN wk[w].key : Fits(wk[w].seen[e], OwnRecord(w, e))

\* A key in a dispatcher's hand is in no other's, not given up and not yet linked,
\* and neither is one given up; no call exists before its create arrives.  Who
\* works on a result works on a linked key, whose call has ended.
Hands ==
  /\ \A d \in Dispatchers :
       /\ disp[d].pc # "idle" => disp[d].key \notin linked \cup flying
       /\ disp[d].pc # "idle" => (disp[d].pc = "create" <=> call[disp[d].key] = "none")
  /\ \A k \in flying : k \notin linked /\ call[k] = "none"
  /\ \A c, d \in Dispatchers :
       c # d /\ disp[c].pc # "idle" /\ disp[d].pc # "idle"
         => disp[c].key # disp[d].key
  /\ \A w \in Workers :
       /\ wk[w].pc # "idle" => wk[w].key \in linked
       /\ wk[w].pc = "apply" => CallEnded(wk[w].key)

\* A linked call was placed, a message announces an ended one, and a batch is
\* closed on an ended one.
Answers ==
  /\ \A k \in linked : call[k] # "none"
  /\ \A k \in Keys, v \in Events : outbox[k][v] # "NONE" => CallEnded(k)
  /\ ClosedOnlyWhenOver

\* A call says nothing before it ends, and a failed call nothing positive.
Slices ==
  /\ \A e \in Exceptions, n \in Slots : n > count[e] => slice[e][n] = "none"
  /\ \A k \in Keys : batch[k] # "NONE" => \A e \in DOMAIN k :
       /\ ~CallEnded(k) => slice[e][k[e]] = "none"
       /\ call[k] = "failed" =>
            slice[e][k[e]] \in {"unreached", "unusable", "missing"}

\* Nobody unfit is in a batch.
FitBatches ==
  \A k \in Keys :
    batch[k] # "NONE" => DOMAIN k \cap (BadContact \cup Sensitive) = {}

Inv ==
  /\ TypeOK /\ AttemptsClaimedOnce
  /\ Committed /\ Marks /\ Views /\ Hands /\ Answers /\ Slices /\ FitBatches

-----------------------------------------------------------------------------
(***************************************************************************)
(* How one row may change in one step.                                     *)
(***************************************************************************)

\* The supplier of e said so, in an attempt whose recipient id is known.
Supports(k, e, s) ==
  /\ call[k] = "completed" /\ <<e, k[e]>> \in rid
  /\ slice[e][k[e]] = IF s = "RESOLVED_ON_TIME" THEN "ontime" ELSE "delayed"

\* A dispatcher stores the id of the call it has placed.
RecordStep(d) ==
  /\ disp[d].pc = "record"
  /\ \E got, moved \in SUBSET DOMAIN disp[d].key : RecordCall(d, got, moved)

\* The moves of a row from state s to state t.
RowMove(e, s, t) ==
  \/ s \in {"OPEN", "RETRY_PENDING"} /\ t = "CALL_PLANNED"
  \/ ~IsTerminal(s) /\ t = "HUMAN_REVIEW"
  \/ s \in {"OPEN", "CALL_PLANNED", "RETRY_PENDING"} /\ t = "CLOSED_UNRESOLVED"
  \/ /\ s = "CALL_PLANNED" /\ t = "CALLING" /\ CallsTo(e) \cap linked' # {}
     /\ \E d \in Dispatchers : RecordStep(d) /\ e \in DOMAIN disp[d].key
  \/ s = "CALLING" /\ t = "RECONCILING"
  \/ s = "RECONCILING" /\ t = "CALLING"
  \/ Awaiting(s) /\ t = "RETRY_PENDING"
  \/ /\ Awaiting(s) /\ t \in {"RESOLVED_ON_TIME", "RESOLVED_DELAYED"}
     /\ \E k \in CallsTo(e) : Supports(k, e, t)

\* Versions never fall, and a state changes only under a new one.
RowStep(e) ==
  /\ exc[e].version <= exc'[e].version
  /\ \/ exc'[e].state = exc[e].state
     \/ /\ exc[e].version < exc'[e].version
        /\ RowMove(e, exc[e].state, exc'[e].state)

\* The fields of a transitioned record.
LEMMA TransitionedFields ==
  ASSUME NEW r \in Record, NEW s
  PROVE  /\ Transitioned(r, s).state = s
         /\ Transitioned(r, s).version = r.version + 1
         /\ Transitioned(r, s).blocked = r.blocked
BY Zenon DEF Record, Transitioned

\* The fields of a row as its reader, an applied row, and what is kept of it.
LEMMA RowTypes ==
  ASSUME TypeOK, NEW e \in Exceptions
  PROVE  /\ exc[e] \in Record
         /\ exc[e].state \in ExceptionStates /\ exc[e].version \in Nat
<1>1. exc[e] \in Record
  BY DEF TypeOK
<1> QED
  BY <1>1, RecordFields

\* A plan's and an escalation's new records.
LEMMA PlannedFields ==
  ASSUME NEW r \in Record
  PROVE  /\ PlannedRecord(r) \in Record /\ r.version <= PlannedRecord(r).version
         /\ \/ PlannedRecord(r) = r
            \/ /\ r.state \in {"OPEN", "RETRY_PENDING"}
               /\ PlannedRecord(r).state = "CALL_PLANNED"
               /\ r.version < PlannedRecord(r).version
         /\ PlannedRecord(r).blocked = r.blocked
         /\ EscalatedRecord(r).state = "HUMAN_REVIEW"
         /\ EscalatedRecord(r).version = r.version + 1
         /\ EscalatedRecord(r).blocked = r.blocked
<1>1. r.version \in Nat
  BY RecordFields
<1>2. Transitioned(r, "ELIGIBLE") \in Record
  BY TransitionedType DEF ExceptionStates
<1>3. PlannedRecord(r) \in Record
  BY RecordFacts
<1> QED
  BY <1>1, <1>2, <1>3, TransitionedFields DEF PlannedRecord, EscalatedRecord

\* A row that is not terminal may be escalated; one that is neither terminal
\* nor intermediate, nor on a call, is open, planned or waiting for a retry.
LEMMA StateFacts ==
  ASSUME NEW s \in CommittedStates
  PROVE  /\ ~IsTerminal(s) <=>
              s \in {"OPEN", "CALL_PLANNED", "RETRY_PENDING", "CALLING", "RECONCILING"}
         /\ CanTransition(s, "CALLING") <=> s \in {"CALL_PLANNED", "RECONCILING"}
BY DEF CommittedStates, ExceptionStates, IsTerminal, TerminalStates, CanTransition, NextStates

-----------------------------------------------------------------------------
\* Planning escalates some rows of S, plans others, and touches no other row.
LEMMA PlanRows ==
  ASSUME TypeOK, NEW d \in Dispatchers, NEW S \in SUBSET Exceptions,
         \/ PlanRefused(d, S) \/ PlanUnconfigured(d, S)
         \/ PlanBlocked(d, S) \/ PlanBatch(d, S)
  PROVE  /\ \A e \in Exceptions : RowStep(e)
         /\ \A e \in Exceptions \ S : exc'[e] = exc[e]
         /\ \A e \in S :
              exc'[e] \in {exc[e], PlannedRecord(exc[e]), EscalatedRecord(exc[e]),
                          EscalatedRecord(PlannedRecord(exc[e]))}
         /\ S \cap Locked = {} /\ UNCHANGED << wk, linked, slice, call, rid, outbox >>
<1>1. \A e \in Exceptions :
        /\ exc[e] \in Record /\ exc[e].version \in Nat
        /\ PlannedRecord(exc[e]).version \in Nat
  BY RowTypes, PlannedFields, RecordFields
<1>2. \A e \in S : ~IsTerminal(exc[e].state)
  BY DEF PlanRefused, PlanUnconfigured, PlanBlocked, PlanBatch, MayPlan, Ready, Refused
<1>3. ReadyIn(S) \subseteq S
  BY DEF ReadyIn
<1>4. \A e \in Exceptions :
        \/ exc'[e] = exc[e]
        \/ /\ e \in S
           /\ exc'[e] \in {PlannedRecord(exc[e]), EscalatedRecord(exc[e]),
                           EscalatedRecord(PlannedRecord(exc[e]))}
  BY <1>3 DEF PlanRefused, PlanUnconfigured, PlanBlocked, PlanBatch, MayPlan
<1>5. \A e \in Exceptions : RowStep(e)
  <2> SUFFICES ASSUME NEW e \in Exceptions PROVE RowStep(e)
    OBVIOUS
  <2>1. CASE exc'[e] = exc[e]
    BY <1>1, <2>1 DEF RowStep
  <2>2. CASE e \in S /\ exc'[e] = PlannedRecord(exc[e])
    BY <1>1, <2>2, PlannedFields DEF RowStep, RowMove
  <2>3. CASE e \in S /\ exc'[e] = EscalatedRecord(exc[e])
    BY <1>1, <1>2, <2>3, PlannedFields DEF RowStep, RowMove
  <2>4. CASE e \in S /\ exc'[e] = EscalatedRecord(PlannedRecord(exc[e]))
    <3> DEFINE p == PlannedRecord(exc[e])
    <3>1. p \in Record /\ exc[e].version <= p.version
      BY <1>1, PlannedFields
    <3> HIDE DEF p
    <3>2. exc'[e].state = "HUMAN_REVIEW" /\ exc'[e].version = p.version + 1
      BY <2>4, <3>1, PlannedFields DEF p
    <3> QED
      BY <1>1, <1>2, <2>4, <3>1, <3>2 DEF RowStep, RowMove, p
  <2> QED
    BY <1>4, <2>1, <2>2, <2>3, <2>4
<1> QED
  BY <1>4, <1>5
  DEF PlanRefused, PlanUnconfigured, PlanBlocked, PlanBatch, MayPlan, provider

\* Storing a call id moves rows to CALLING that still are as they were planned.
LEMMA RecordRows ==
  ASSUME Inv, NEW d \in Dispatchers, NEW fresh \in BOOLEAN,
         NEW got \in SUBSET DOMAIN disp[d].key,
         NEW moved \in SUBSET DOMAIN disp[d].key,
         MayRecord(d, fresh), RecordCall(d, got, moved),
         \A e \in moved : ~CannotCall(d, e, fresh)
  PROVE  /\ \A e \in Exceptions : RowStep(e)
         /\ \A e \in Exceptions \ moved : exc'[e] = exc[e]
         /\ moved \cap Locked = {}
<1> DEFINE k == disp[d].key
<1>1. disp[d].pc = "record" /\ k \in Keys /\ DOMAIN k \subseteq Exceptions
  <2>1. disp[d].pc = "record"
    BY DEF MayRecord
  <2>2. disp[d] \in DispatcherRecord
    BY DEF Inv, TypeOK
  <2>3. k \in Keys
    BY <2>1, <2>2 DEF DispatcherRecord
  <2> QED
    BY <2>1, <2>3, KeyFacts
<1>2. call[k] # "none" /\ k \in linked' /\ UNCHANGED call /\ RecordStep(d)
  <2>1. call[k] # "none"
    BY <1>1 DEF Inv, Hands
  <2>2. UNCHANGED call /\ k \in linked'
    BY DEF RecordCall, provider
  <2> QED
    BY <1>1, <2>1, <2>2 DEF RecordStep
<1>3. \A e \in Exceptions : e \notin moved => exc'[e] = exc[e]
  BY DEF RecordCall
<1>4. ASSUME NEW e \in Exceptions, e \in moved
      PROVE  RowStep(e)
  <2>1. exc'[e] = Transitioned(exc[e], "CALLING")
    BY <1>4 DEF RecordCall
  <2>2. exc[e] \in Record /\ exc[e].version \in Nat /\ exc[e].state \in CommittedStates
    BY RowTypes DEF Inv, Committed
  <2>3. exc'[e].state = "CALLING" /\ exc'[e].version = exc[e].version + 1
    BY <2>1, <2>2, TransitionedFields
  <2>4. CanTransition(exc[e].state, "CALLING")
    <3>1. CASE fresh
      BY <1>4, <3>1 DEF CannotCall, DispatchView, Seen
    <3>2. CASE ~fresh
      <4>1. Fits(disp[d].seen[e], exc[e])
        BY <1>1, <1>4 DEF Inv, Views
      <4> QED
        BY <1>4, <3>2, <4>1 DEF CannotCall, DispatchView, Fits
    <3> QED
      BY <3>1, <3>2
  <2>5. exc[e].state \in {"CALL_PLANNED", "RECONCILING"}
    BY <2>2, <2>4, StateFacts
  <2>6. k \in CallsTo(e) \cap linked'
    BY <1>1, <1>2, <1>4 DEF CallsTo
  <2> QED
    BY <1>2, <1>4, <2>2, <2>3, <2>5, <2>6 DEF RowStep, RowMove
<1>5. \A e \in Exceptions : exc'[e] = exc[e] => RowStep(e)
  BY RowTypes DEF RowStep, Inv
<1> QED
  BY <1>1, <1>3, <1>4, <1>5 DEF MayRecord

\* A row as its worker sees it: a marked row one version on, in RECONCILING.
LEMMA OwnRow ==
  ASSUME Inv, NEW w \in Workers, NEW e \in Exceptions
  PROVE  /\ exc[e].version \in Nat /\ OwnRecord(w, e).version \in Nat
         /\ exc[e].version <= OwnRecord(w, e).version
         /\ \/ e \notin wk[w].marked /\ OwnRecord(w, e) = exc[e]
            \/ /\ e \in wk[w].marked
               /\ exc[e].state = "CALLING" /\ OwnRecord(w, e).state = "RECONCILING"
               /\ exc[e].version < OwnRecord(w, e).version
         /\ OwnRecord(w, e).state \in CommittedStates
         /\ OwnRecord(w, e) \in Record
<1>1. exc[e] \in Record /\ exc[e].version \in Nat /\ exc[e].state \in CommittedStates
  BY RowTypes DEF Inv, Committed
<1>2. CASE e \in wk[w].marked
  <2>1. OwnRecord(w, e) = Transitioned(exc[e], "RECONCILING")
    BY <1>2 DEF OwnRecord
  <2>2. exc[e].state = "CALLING"
    BY <1>2 DEF Inv, Marks
  <2>3. "RECONCILING" \in CommittedStates /\ "RECONCILING" \in ExceptionStates
    BY DEF CommittedStates, ExceptionStates
  <2> QED
    BY <1>1, <1>2, <2>1, <2>2, <2>3, TransitionedFields, TransitionedType
<1>3. CASE e \notin wk[w].marked
  BY <1>1, <1>3 DEF OwnRecord
<1> QED
  BY <1>2, <1>3

\* Committing a worker's marks, and nothing else.
LEMMA OwnRowStep ==
  ASSUME Inv, NEW w \in Workers, NEW e \in Exceptions, exc'[e] = OwnRecord(w, e)
  PROVE  RowStep(e)
BY OwnRow DEF RowStep, RowMove

\* A result applied to a row moves it along an edge of the lifecycle, if at all,
\* and resolves it only on what the call said of its supplier.
LEMMA AppliedRowStep ==
  ASSUME Inv, NEW w \in Workers, wk[w].pc = "apply",
         NEW e \in DOMAIN wk[w].key, exc'[e] = AppliedRecord(w, e)
  PROVE  RowStep(e)
<1> DEFINE k == wk[w].key
           view == wk[w].seen[e]
           own == OwnRecord(w, e)
           t == Target(k, e, view)
<1>1. k \in Keys /\ e \in Exceptions /\ k[e] \in Slots
  BY WorkerFacts DEF Inv
<1>2. /\ exc[e].version \in Nat /\ own.version \in Nat
      /\ exc[e].version <= own.version
      /\ \/ own = exc[e]
         \/ /\ exc[e].state = "CALLING" /\ own.state = "RECONCILING"
            /\ exc[e].version < own.version
      /\ own.state \in CommittedStates
  BY <1>1, OwnRow
<1>3. CASE ~Moves(w, e)
  <2>1. exc'[e].state = own.state /\ exc'[e].version = own.version
    BY <1>3 DEF AppliedRecord
  <2> QED
    BY <1>2, <2>1 DEF RowStep, RowMove
<1>4. CASE Moves(w, e)
  <2>1. view.state = own.state /\ ~IsTerminal(own.state)
    <3>1. Fits(view, own)
      BY DEF Inv, Views
    <3> QED
      BY <1>4, <3>1 DEF Moves, SameVersion, Fits
  <2>2. exc'[e].state = t
    BY <1>4 DEF AppliedRecord
  <2>3. exc[e].version < exc'[e].version /\ exc[e].version <= exc'[e].version
    BY <1>2, <1>4 DEF AppliedRecord
  <2>4. Awaiting(own.state) \/ CanTransition(own.state, t)
    BY <1>4, <2>1 DEF Moves, Illegal
  <2>5. t \in {"RETRY_PENDING", "HUMAN_REVIEW", "RESOLVED_ON_TIME", "RESOLVED_DELAYED"}
    BY DEF Target, DecisionState
  <2>6. ASSUME t \in {"RESOLVED_ON_TIME", "RESOLVED_DELAYED"}
        PROVE  k \in CallsTo(e) /\ Supports(k, e, t)
    <3>1. /\ ~Unattributed(k, e)
          /\ slice[e][k[e]] = IF t = "RESOLVED_ON_TIME" THEN "ontime" ELSE "delayed"
      BY <2>6 DEF Target, DecisionState, SliceOf
    <3>2. CallEnded(k) /\ batch[k] # "NONE"
      BY DEF Inv, Hands, AttemptsClaimedOnce
    <3>3. call[k] # "failed"
      BY <1>1, <3>1, <3>2 DEF Inv, Slices
    <3> QED
      BY <1>1, <3>1, <3>2, <3>3 DEF CallEnded, Unattributed, Supports, CallsTo
  <2>7. CASE Awaiting(own.state)
    <3>1. Awaiting(exc[e].state) /\ ~IsTerminal(exc[e].state)
      BY <1>2, <2>7 DEF Awaiting, IsTerminal, TerminalStates
    <3> QED
      BY <2>2, <2>3, <2>5, <2>6, <3>1 DEF RowStep, RowMove
  <2>8. CASE ~Awaiting(own.state)
    <3>1. own = exc[e] /\ exc[e].state \in {"OPEN", "CALL_PLANNED", "RETRY_PENDING"}
      BY <1>2, <2>1, <2>8, StateFacts DEF Awaiting
    <3>2. t = "HUMAN_REVIEW"
      BY <2>4, <2>5, <2>8, <3>1 DEF CanTransition, NextStates
    <3> QED
      BY <2>1, <2>2, <2>3, <3>1, <3>2 DEF RowStep, RowMove
  <2> QED
    BY <2>7, <2>8
<1> QED
  BY <1>3, <1>4

\* A worker lets go of its locks, or keeps them and finds their rows untouched.
LockStep(w) ==
  \/ wk'[w].marked = {}
  \/ /\ wk'[w].key = wk[w].key /\ wk'[w].marked = wk[w].marked
     /\ \A e \in wk[w].marked : exc'[e] = exc[e]

RowsStep ==
  /\ \A e \in Exceptions : RowStep(e)
  /\ \A w \in Workers : LockStep(w)

\* A step that writes only rows nobody has locked, and no worker's record.
LEMMA UnlockedRows ==
  ASSUME Inv, NEW S \in SUBSET Exceptions, S \cap Locked = {}, UNCHANGED wk,
         \A e \in S : RowStep(e),
         \A e \in Exceptions \ S : exc'[e] = exc[e]
  PROVE  RowsStep
<1>1. \A e \in Exceptions : exc'[e] = exc[e] => RowStep(e)
  BY RowTypes DEF RowStep, Inv
<1>2. \A w \in Workers : \A e \in wk[w].marked : e \in Exceptions \ S
  <2> SUFFICES ASSUME NEW w \in Workers, NEW e \in wk[w].marked
               PROVE  e \in Exceptions \ S
    OBVIOUS
  <2>1. e \in Locked
    BY DEF Locked
  <2>2. wk[w].key \in Keys \cup {NoKey} /\ e \in DOMAIN wk[w].key
    BY DEF Inv, Marks, TypeOK, WorkerRecord
  <2>3. e \in Exceptions
    BY <2>2, KeyFacts, NoKeyFacts
  <2> QED
    BY <2>1, <2>3
<1> QED
  BY <1>1, <1>2 DEF RowsStep, LockStep

\* A step of worker w that writes rows of its own batch that nobody else has
\* locked, and afterwards has no locks.
LEMMA WorkerRows ==
  ASSUME Inv, NEW w \in Workers, NEW S \in SUBSET Exceptions,
         S \cap LockedByOther(w) = {},
         \A x \in Workers : x # w => wk'[x] = wk[x],
         wk'[w].marked = {},
         \A e \in S : RowStep(e),
         \A e \in Exceptions \ S : exc'[e] = OwnRecord(w, e)
  PROVE  RowsStep
<1>1. \A e \in Exceptions : RowStep(e)
  BY OwnRowStep
<1>2. ASSUME NEW x \in Workers, x # w, NEW e \in wk[x].marked
      PROVE  exc'[e] = exc[e]
  <2>1. e \in LockedByOther(w)
    BY <1>2 DEF LockedByOther
  <2>2. wk[x].key \in Keys \cup {NoKey} /\ e \in DOMAIN wk[x].key
    BY <1>2 DEF Inv, Marks, TypeOK, WorkerRecord
  <2>3. e \in Exceptions
    BY <2>2, KeyFacts, NoKeyFacts
  <2>4. e \notin wk[w].marked
    BY <1>2 DEF Inv, Marks
  <2> QED
    BY <2>1, <2>3, <2>4 DEF OwnRecord
<1>3. \A x \in Workers : LockStep(x)
  BY <1>2 DEF LockStep
<1> QED
  BY <1>1, <1>3 DEF RowsStep

\* Applying a call's results, whole or cut short.
LEMMA ApplyRows ==
  ASSUME Inv, NEW w \in Workers, MayApply(w),
         NEW applied \in SUBSET DOMAIN wk[w].key, NEW raised,
         ApplyTo(w, applied, raised)
  PROVE  RowsStep
<1>1. wk[w].pc = "apply" /\ DOMAIN wk[w].key \subseteq Exceptions
  BY WorkerFacts DEF MayApply, Inv
<1>2. \A e \in Exceptions :
        exc'[e] = IF e \in applied THEN AppliedRecord(w, e) ELSE OwnRecord(w, e)
  BY DEF ApplyTo
<1>3. \A e \in applied : RowStep(e)
  BY <1>1, <1>2, AppliedRowStep
<1>4. /\ \A x \in Workers : x # w => wk'[x] = wk[x]
      /\ wk'[w].marked = {}
  BY DEF ApplyTo, Inv, TypeOK, IdleWorker
<1>5. applied \in SUBSET Exceptions /\ applied \cap LockedByOther(w) = {}
  BY <1>1 DEF MayApply
<1> QED
  BY <1>2, <1>3, <1>4, <1>5, WorkerRows

\* Giving the rows of a running call back.
LEMMA ReturnRows ==
  ASSUME Inv, NEW w \in Workers, SweepReturns(w)
  PROVE  RowsStep
<1> DEFINE S == {e \in DOMAIN wk[w].key : OwnRecord(w, e).state = "RECONCILING"}
<1>1. DOMAIN wk[w].key \subseteq Exceptions
  BY WorkerFacts DEF SweepReturns, Inv
<1>2. S \in SUBSET Exceptions /\ S \cap LockedByOther(w) = {}
  BY <1>1 DEF SweepReturns
<1>3. /\ \A x \in Workers : x # w => wk'[x] = wk[x]
      /\ wk'[w].marked = {}
  BY DEF SweepReturns, Inv, TypeOK, IdleWorker
<1>4. \A e \in Exceptions \ S : exc'[e] = OwnRecord(w, e)
  BY DEF SweepReturns
<1>5. ASSUME NEW e \in S PROVE RowStep(e)
  <2>1. exc'[e] = Transitioned(OwnRecord(w, e), "CALLING") /\ e \in Exceptions
    BY <1>1 DEF SweepReturns
  <2>2. OwnRecord(w, e) \in Record /\ OwnRecord(w, e).state = "RECONCILING"
    BY <2>1, OwnRow
  <2>3. exc'[e].state = "CALLING" /\ exc'[e].version = OwnRecord(w, e).version + 1
    BY <2>1, <2>2, TransitionedFields
  <2> QED
    BY <2>1, <2>2, <2>3, OwnRow DEF RowStep, RowMove
<1> QED
  BY <1>2, <1>3, <1>4, <1>5, WorkerRows

\* Steps that write no row: whoever holds locks keeps them or lets go.
LEMMA QuietRows ==
  ASSUME Inv, UNCHANGED exc,
         \A x \in Workers :
           \/ wk'[x].marked = {}
           \/ wk'[x].key = wk[x].key /\ wk'[x].marked = wk[x].marked
  PROVE  RowsStep
BY RowTypes DEF RowsStep, RowStep, LockStep, Inv

\* A step of a dispatcher.
LEMMA DispatcherRows ==
  ASSUME Inv, NEW d \in Dispatchers, DispatcherStep(d)
  PROVE  RowsStep
<1>1. ASSUME NEW S \in SUBSET Exceptions,
             \/ PlanRefused(d, S) \/ PlanUnconfigured(d, S)
             \/ PlanBlocked(d, S) \/ PlanBatch(d, S)
      PROVE  RowsStep
  BY <1>1, PlanRows, UnlockedRows DEF Inv
<1>2. ASSUME NEW fresh \in BOOLEAN,
             NEW got \in SUBSET DOMAIN disp[d].key,
             NEW moved \in SUBSET DOMAIN disp[d].key,
             MayRecord(d, fresh), RecordCall(d, got, moved),
             \A e \in moved : ~CannotCall(d, e, fresh)
      PROVE  RowsStep
  <2>1. /\ \A e \in Exceptions : RowStep(e)
        /\ \A e \in Exceptions \ moved : exc'[e] = exc[e]
        /\ moved \cap Locked = {}
    BY <1>2, RecordRows
  <2>2. UNCHANGED wk
    BY <1>2 DEF RecordCall
  <2>3. moved \in SUBSET Exceptions
    <3>1. disp[d].key \in Keys \cup {NoKey}
      BY DEF Inv, TypeOK, DispatcherRecord
    <3> QED
      BY <3>1, KeyFacts, NoKeyFacts
  <2> QED
    BY <2>1, <2>2, <2>3, UnlockedRows
<1>3. CASE RecordDispatched(d)
  BY <1>2, <1>3 DEF RecordDispatched
<1>4. CASE RecordCutShort(d)
  BY <1>2, <1>4 DEF RecordCutShort
<1>5. CASE \/ CreateAccepted(d) \/ CreateFailed(d)
           \/ RecordRolledBack(d) \/ DispatcherCrash(d)
  BY <1>5, QuietRows
  DEF CreateAccepted, CreateFailed, RecordRolledBack, DispatcherCrash, db
<1> QED
  BY <1>1, <1>3, <1>4, <1>5 DEF DispatcherStep

\* A person's settlement.
LEMMA OperatorRows ==
  ASSUME Inv, NEW e \in Exceptions, NEW s \in TerminalStates, OperatorSettles(e, s)
  PROVE  RowsStep
<1>1. /\ exc[e] \in Record /\ exc[e].version \in Nat
      /\ exc[e].state \in CommittedStates
  BY RowTypes DEF Inv, Committed
<1>2. exc'[e] = Transitioned(exc[e], s)
  BY DEF OperatorSettles, Inv, TypeOK
<1>3. exc'[e].state = s /\ exc'[e].version = exc[e].version + 1
  BY <1>1, <1>2, TransitionedFields
<1>4. ~IsTerminal(exc[e].state)
  BY DEF OperatorSettles, CanTransition, NextStates, IsTerminal, TerminalStates
<1>5. s = "CLOSED_UNRESOLVED" =>
        exc[e].state \in {"OPEN", "CALL_PLANNED", "RETRY_PENDING"}
  BY <1>1 DEF OperatorSettles, CanTransition, NextStates, CommittedStates
<1>6. RowStep(e)
  BY <1>1, <1>3, <1>4, <1>5 DEF RowStep, RowMove, OperatorSettles
<1>7. \A x \in Exceptions \ {e} : exc'[x] = exc[x]
  BY DEF OperatorSettles, Inv, TypeOK
<1>8. UNCHANGED wk /\ {e} \cap Locked = {}
  BY DEF OperatorSettles
<1> QED
  BY <1>6, <1>7, <1>8, UnlockedRows

\* Every step moves rows along the lifecycle; locks are taken by SweepMark only.
LEMMA Rows ==
  ASSUME Inv, [Next]_vars
  PROVE  /\ \A e \in Exceptions : RowStep(e)
         /\ \A w \in Workers :
              LockStep(w) \/ (UNCHANGED exc /\ \E k \in Keys : SweepMark(w, k))
<1> DEFINE Goal ==
      /\ \A e \in Exceptions : RowStep(e)
      /\ \A w \in Workers :
           LockStep(w) \/ (UNCHANGED exc /\ \E k \in Keys : SweepMark(w, k))
<1>1. RowsStep => Goal
  BY DEF RowsStep
<1>2. CASE UNCHANGED vars
  BY <1>1, <1>2, QuietRows DEF vars, db
<1>3. ASSUME NEW d \in Dispatchers, DispatcherStep(d) PROVE Goal
  BY <1>1, <1>3, DispatcherRows
<1>4. CASE ProviderStep
  BY <1>1, <1>4, QuietRows DEF ProviderStep, CreateLands, FinishCall, Webhook, db
<1>5. ASSUME NEW w \in OutboxWorkers, OutboxStep(w) PROVE Goal
  <2> PICK k \in Keys, v \in Events : OutboxUnknownCall(w, k, v) \/ OutboxClaim(w, k, v)
    BY <1>5 DEF OutboxStep
  <2> w \in Workers
    BY DEF Workers
  <2>1. \A x \in Workers : wk'[x] = wk[x] \/ wk'[x].marked = {}
    BY DEF OutboxUnknownCall, OutboxClaim, Inv, TypeOK
  <2>2. UNCHANGED exc
    BY DEF OutboxUnknownCall, OutboxClaim, db
  <2> QED
    BY <1>1, <2>1, <2>2, QuietRows
<1>6. ASSUME NEW w \in Sweepers, NEW k \in Keys, SweepMark(w, k) PROVE Goal
  <2> w \in Workers
    BY DEF Workers
  <2>1. UNCHANGED exc /\ \A x \in Workers \ {w} : wk'[x] = wk[x]
    BY <1>6 DEF SweepMark, db, Inv, TypeOK
  <2>2. \A e \in Exceptions : RowStep(e)
    BY <2>1, RowTypes DEF RowStep, Inv
  <2> QED
    BY <1>6, <2>1, <2>2 DEF LockStep
<1>7. ASSUME NEW w \in Workers,
             \/ SweepFetched(w) \/ SweepStillRunning(w) \/ WorkerCrash(w)
             \/ \E late \in SUBSET Exceptions : ReadLater(w, late)
      PROVE  Goal
  <2>1. UNCHANGED exc
    BY <1>7 DEF SweepFetched, SweepStillRunning, WorkerCrash, ReadLater, db
  <2>2. \A x \in Workers :
          \/ wk'[x].marked = {}
          \/ wk'[x].key = wk[x].key /\ wk'[x].marked = wk[x].marked
    <3>1. CASE SweepFetched(w)
      BY <3>1, FetchedFacts DEF Inv
    <3>2. CASE SweepStillRunning(w)
      BY <3>2 DEF SweepStillRunning, Inv, TypeOK
    <3>3. CASE WorkerCrash(w)
      BY <3>3 DEF WorkerCrash, Inv, TypeOK, IdleWorker
    <3>4. ASSUME NEW late \in SUBSET Exceptions, ReadLater(w, late)
          PROVE  \A x \in Workers :
                   \/ wk'[x].marked = {}
                   \/ wk'[x].key = wk[x].key /\ wk'[x].marked = wk[x].marked
      BY <3>4, ReadLaterFacts DEF Inv
    <3> QED
      BY <1>7, <3>1, <3>2, <3>3, <3>4
  <2> QED
    BY <1>1, <2>1, <2>2, QuietRows
<1>8. ASSUME NEW w \in Workers, SweepReturns(w) PROVE Goal
  BY <1>1, <1>8, ReturnRows
<1>9. ASSUME NEW w \in Workers, SweepFetchFailed(w) PROVE Goal
  <2>1. /\ \A x \in Workers : x # w => wk'[x] = wk[x]
        /\ wk'[w].marked = {}
        /\ \A e \in Exceptions : exc'[e] = OwnRecord(w, e)
    BY <1>9 DEF SweepFetchFailed, Inv, TypeOK, IdleWorker
  <2>2. RowsStep
    BY <2>1, WorkerRows
  <2> QED
    BY <1>1, <2>2
<1>10. ASSUME NEW w \in Workers, ApplyResults(w) \/ ApplyCutShort(w) PROVE Goal
  <2>1. PICK applied \in SUBSET DOMAIN wk[w].key, raised \in SUBSET DOMAIN wk[w].key :
          MayApply(w) /\ ApplyTo(w, applied, raised)
    BY <1>10 DEF ApplyResults, ApplyCutShort, RaisingMembers
  <2> QED
    BY <1>1, <2>1, ApplyRows
<1>11. ASSUME NEW e \in Exceptions, NEW s \in TerminalStates, OperatorSettles(e, s)
       PROVE  Goal
  BY <1>1, <1>11, OperatorRows
<1> QED
  BY <1>2, <1>3, <1>4, <1>5, <1>6, <1>7, <1>8, <1>9, <1>10, <1>11
  DEF Next, SweepStep, Workers

-----------------------------------------------------------------------------
(***************************************************************************)
(* Committed, Marks and Views are kept.                                    *)
(***************************************************************************)

LEMMA CommittedKept ==
  ASSUME Inv, [Next]_vars
  PROVE  Committed'
<1> SUFFICES ASSUME NEW e \in Exceptions PROVE exc'[e].state \in CommittedStates
  BY DEF Committed
<1>1. RowStep(e) /\ exc[e].state \in CommittedStates
  BY Rows DEF Inv, Committed
<1>2. {"CALL_PLANNED", "HUMAN_REVIEW", "CLOSED_UNRESOLVED", "CALLING", "RECONCILING",
       "RETRY_PENDING", "RESOLVED_ON_TIME", "RESOLVED_DELAYED"} \subseteq CommittedStates
  BY DEF CommittedStates, ExceptionStates
<1> QED
  BY <1>1, <1>2 DEF RowStep, RowMove

\* Marking: the locks a sweep takes.
LEMMA SweepMarkFacts ==
  ASSUME TypeOK, NEW w \in Workers, NEW k \in Keys, SweepMark(w, k)
  PROVE  /\ wk'[w].pc = "fetch" /\ wk'[w].key = k
         /\ wk'[w].marked = {e \in DOMAIN k : exc[e].state = "CALLING"}
         /\ wk'[w].marked \cap Locked = {}
         /\ \A x \in Workers \ {w} : wk'[x] = wk[x]
         /\ k \in linked /\ UNCHANGED exc
BY DEF SweepMark, TypeOK, Stale, db

LEMMA MarksKept ==
  ASSUME Inv, [Next]_vars
  PROVE  Marks'
<1>1. \A w \in Workers :
        LockStep(w) \/ (UNCHANGED exc /\ \E k \in Keys : SweepMark(w, k))
  BY Rows
<1>2. \A w \in Workers : \A e \in wk'[w].marked :
        e \in DOMAIN wk'[w].key /\ exc'[e].state = "CALLING"
  <2> SUFFICES ASSUME NEW w \in Workers, NEW e \in wk'[w].marked
               PROVE  e \in DOMAIN wk'[w].key /\ exc'[e].state = "CALLING"
    OBVIOUS
  <2>1. CASE LockStep(w)
    BY <2>1 DEF LockStep, Inv, Marks
  <2>2. ASSUME UNCHANGED exc, NEW k \in Keys, SweepMark(w, k)
        PROVE  e \in DOMAIN wk'[w].key /\ exc'[e].state = "CALLING"
    BY <2>2, SweepMarkFacts DEF Inv
  <2> QED
    BY <1>1, <2>1, <2>2
<1>3. \A w, x \in Workers : w # x => wk'[w].marked \cap wk'[x].marked = {}
  <2>1. \A w \in Workers : LockStep(w) => wk'[w].marked \subseteq wk[w].marked
    BY DEF LockStep
  <2>2. CASE \A w \in Workers : LockStep(w)
    BY <2>1, <2>2 DEF Inv, Marks
  <2>3. ASSUME NEW w \in Workers, NEW k \in Keys, SweepMark(w, k)
        PROVE  \A y, x \in Workers : y # x => wk'[y].marked \cap wk'[x].marked = {}
    <3>1. /\ wk'[w].marked \cap Locked = {}
          /\ \A x \in Workers \ {w} : wk'[x] = wk[x]
      BY <2>3, SweepMarkFacts DEF Inv
    <3>2. \A x \in Workers : wk[x].marked \subseteq Locked
      BY DEF Locked
    <3> QED
      BY <3>1, <3>2 DEF Inv, Marks
  <2> QED
    BY <1>1, <2>2, <2>3
<1> QED
  BY <1>2, <1>3 DEF Marks

\* A view that fits a row fits what the row becomes.
LEMMA FitsLater ==
  ASSUME NEW e \in Exceptions, NEW v \in View, Fits(v, exc[e]), RowStep(e),
         exc[e].version \in Nat, exc'[e].version \in Nat
  PROVE  Fits(v, exc'[e])
<1>1. v.version \in Nat
  BY DEF View
<1>2. IsTerminal(exc[e].state) => exc'[e].state = exc[e].state
  BY DEF RowStep, RowMove, Awaiting, IsTerminal, TerminalStates
<1> QED
  BY <1>1, <1>2 DEF Fits, RowStep

\* A dispatcher lets go of its key, keeps it, or takes a new one by planning.
HandStep(d) ==
  \/ disp'[d].pc = "idle"
  \/ /\ disp[d].pc # "idle"
     /\ disp'[d].key = disp[d].key /\ disp'[d].seen = disp[d].seen
  \/ \E S \in SUBSET Exceptions : PlanBatch(d, S)

LEMMA HandSteps ==
  ASSUME TypeOK, [Next]_vars
  PROVE  \A d \in Dispatchers : HandStep(d)
<1>1. UNCHANGED disp => \A d \in Dispatchers : HandStep(d)
  BY DEF HandStep
<1>2. ASSUME NEW c \in Dispatchers, DispatcherStep(c)
      PROVE  \A d \in Dispatchers : HandStep(d)
  <2>1. ASSUME NEW S \in SUBSET Exceptions,
               \/ PlanRefused(c, S) \/ PlanUnconfigured(c, S)
               \/ PlanBlocked(c, S)
        PROVE  UNCHANGED disp
    BY <2>1 DEF PlanRefused, PlanUnconfigured, PlanBlocked
  <2>2. ASSUME NEW S \in SUBSET Exceptions, PlanBatch(c, S)
        PROVE  \A d \in Dispatchers : HandStep(d)
    <3>1. \A d \in Dispatchers \ {c} : disp'[d] = disp[d]
      BY <2>2 DEF PlanBatch, TypeOK
    <3> QED
      BY <2>2, <3>1 DEF HandStep
  <2>3. CASE CreateAccepted(c)
    <3>1. disp[c] \in DispatcherRecord /\ disp' = [disp EXCEPT ![c].pc = "record"]
      BY <2>3 DEF CreateAccepted, TypeOK
    <3>2. /\ disp'[c].key = disp[c].key /\ disp'[c].seen = disp[c].seen
          /\ disp[c].pc # "idle"
      BY <2>3, <3>1 DEF CreateAccepted, TypeOK, DispatcherRecord
    <3>3. \A d \in Dispatchers \ {c} : disp'[d] = disp[d]
      BY <3>1 DEF TypeOK
    <3> QED
      BY <3>2, <3>3 DEF HandStep
  <2>4. ASSUME disp' = [disp EXCEPT ![c] = IdleDispatcher]
        PROVE  \A d \in Dispatchers : HandStep(d)
    BY <2>4 DEF HandStep, IdleDispatcher, TypeOK
  <2> QED
    BY <1>1, <1>2, <2>1, <2>2, <2>3, <2>4
    DEF DispatcherStep, CreateFailed, RecordDispatched, RecordCutShort, RecordCall,
        RecordRolledBack, DispatcherCrash
<1>3. Next => \/ \E d \in Dispatchers : DispatcherStep(d)
              \/ UNCHANGED disp
  BY DEF Next, ProviderStep, CreateLands, FinishCall, Webhook, OutboxStep, OutboxUnknownCall,
         OutboxClaim, SweepStep, SweepMark, SweepFetched, SweepStillRunning,
         SweepReturns, SweepFetchFailed, ApplyResults, ApplyCutShort, ApplyTo,
         WorkerCrash, ReadLater, OperatorSettles
<1> QED
  BY <1>1, <1>2, <1>3 DEF vars

\* What a worker knows of a row it has just read, or had read before.
ReadStep(w, e) ==
  \/ wk'[w].seen[e].version = OwnRecord(w, e)'.version
  \/ /\ wk[w].pc = "apply" /\ wk'[w].key = wk[w].key
     /\ wk'[w].seen[e] = wk[w].seen[e] /\ OwnRecord(w, e)' = OwnRecord(w, e)

\* A worker finishes, is left alone, or goes on with a linked key, and if it is
\* about to apply, the call has ended and what it has read fits the rows.
WorkStep(w) ==
  \/ wk'[w].pc = "idle"
  \/ wk'[w] = wk[w]
  \/ /\ UNCHANGED << exc, count, linked, call >>
     /\ wk'[w].key \in linked
     /\ wk'[w].pc = "apply" =>
          /\ CallEnded(wk'[w].key)
          /\ \A e \in DOMAIN wk'[w].key :
               Fits(wk'[w].seen[e], OwnRecord(w, e)') /\ ReadStep(w, e)

\* What is kept of a row that is read.
LEMMA FreshRead ==
  ASSUME NEW e, NEW w, NEW k, e \in DOMAIN k, e \in Exceptions
  PROVE  ReadRows(w, k)[e] = Seen(e, OwnRecord(w, e))
BY DEF ReadRows

LEMMA OutboxWork ==
  ASSUME Inv, NEW w \in OutboxWorkers, OutboxStep(w)
  PROVE  \A x \in Workers : WorkStep(x)
<1> PICK k \in Keys, v \in Events : OutboxUnknownCall(w, k, v) \/ OutboxClaim(w, k, v)
  BY DEF OutboxStep
<1> w \in Workers
  BY DEF Workers
<1>1. CASE OutboxUnknownCall(w, k, v)
  BY <1>1 DEF OutboxUnknownCall, WorkStep
<1>2. CASE OutboxClaim(w, k, v)
  <2>1. /\ wk'[w].key = k /\ wk'[w].pc = "apply" /\ wk'[w].marked = {}
        /\ wk'[w].seen = ReadRows(w, k)
        /\ \A x \in Workers \ {w} : wk'[x] = wk[x]
    BY <1>2 DEF OutboxClaim, Inv, TypeOK
  <2>2. k \in linked /\ UNCHANGED << exc, count, linked, call >>
    BY <1>2 DEF OutboxClaim, db, provider
  <2>3. CallEnded(k)
    BY <1>2 DEF OutboxClaim, Unclaimed, Inv, Answers
  <2>4. wk[w].marked = {}
    BY <1>2 DEF OutboxClaim, Inv, TypeOK, WorkerRecord
  <2>5. ASSUME NEW e \in DOMAIN k
        PROVE  Fits(wk'[w].seen[e], OwnRecord(w, e)') /\ ReadStep(w, e)
    <3>1. e \in Exceptions /\ exc[e].version \in Nat /\ exc[e].state \in CommittedStates
      BY KeyFacts, RowTypes DEF Inv, Committed
    <3>2. OwnRecord(w, e) = exc[e] /\ OwnRecord(w, e)' = exc[e]
      BY <2>1, <2>2, <2>4 DEF OwnRecord
    <3>3. wk'[w].seen[e] = Seen(e, exc[e])
      BY <2>1, <3>1, <3>2, FreshRead
    <3>4. Fits(Seen(e, exc[e]), exc[e]) /\ Seen(e, exc[e]).version = exc[e].version
      BY <3>1 DEF Fits, Seen
    <3> QED
      BY <3>2, <3>3, <3>4 DEF ReadStep
  <2> QED
    BY <2>1, <2>2, <2>3, <2>5 DEF WorkStep
<1> QED
  BY <1>1, <1>2

\* Reading, for the first time or later, with the locks that are held.
LEMMA ReadWork ==
  ASSUME Inv, NEW w \in Workers,
         SweepFetched(w) \/ \E late \in SUBSET Exceptions : ReadLater(w, late)
  PROVE  \A x \in Workers : WorkStep(x)
<1>1. UNCHANGED << exc, count, linked, call >> /\ wk[w].pc # "idle"
  BY DEF SweepFetched, ReadLater, db, provider
<1>2. /\ wk[w].key \in linked /\ DOMAIN wk[w].key \subseteq Exceptions
      /\ CallEnded(wk[w].key)
  BY <1>1, WorkerFacts DEF SweepFetched, ReadLater, Inv, Hands
<1>3. /\ \A x \in Workers \ {w} : wk'[x] = wk[x]
      /\ wk'[w].key = wk[w].key /\ wk'[w].marked = wk[w].marked
      /\ \A e \in DOMAIN wk[w].key :
           \/ wk'[w].seen[e] = Seen(e, OwnRecord(w, e))
           \/ wk[w].pc = "apply" /\ wk'[w].seen[e] = wk[w].seen[e]
  <2>1. CASE SweepFetched(w)
    BY <1>2, <2>1, FetchedFacts, FreshRead DEF Inv
  <2>2. ASSUME NEW late \in SUBSET Exceptions, ReadLater(w, late)
        PROVE  /\ \A x \in Workers \ {w} : wk'[x] = wk[x]
               /\ wk'[w].key = wk[w].key /\ wk'[w].marked = wk[w].marked
               /\ \A e \in DOMAIN wk[w].key :
                    \/ wk'[w].seen[e] = Seen(e, OwnRecord(w, e))
                    \/ wk[w].pc = "apply" /\ wk'[w].seen[e] = wk[w].seen[e]
    BY <1>2, <2>2, ReadLaterFacts DEF Inv, ReadLater
  <2> QED
    BY <2>1, <2>2
<1>4. ASSUME NEW e \in DOMAIN wk[w].key
      PROVE  Fits(wk'[w].seen[e], OwnRecord(w, e)') /\ ReadStep(w, e)
  <2>1. /\ OwnRecord(w, e)' = OwnRecord(w, e) /\ OwnRecord(w, e).version \in Nat
        /\ OwnRecord(w, e).state \in CommittedStates
    <3>1. e \in Exceptions
      BY <1>2
    <3>2. OwnRecord(w, e)' = OwnRecord(w, e)
      BY <1>1, <1>3 DEF OwnRecord, Transitioned
    <3> QED
      BY <3>1, <3>2, OwnRow
  <2>2. CASE wk'[w].seen[e] = Seen(e, OwnRecord(w, e))
    <3>1. Fits(Seen(e, OwnRecord(w, e)), OwnRecord(w, e))
      BY <2>1 DEF Fits, Seen
    <3>2. wk'[w].seen[e].version = OwnRecord(w, e)'.version
      BY <2>1, <2>2 DEF Seen
    <3> QED
      BY <2>1, <2>2, <3>1, <3>2 DEF ReadStep
  <2>3. CASE wk[w].pc = "apply" /\ wk'[w].seen[e] = wk[w].seen[e]
    BY <1>3, <2>1, <2>3 DEF Inv, Views, ReadStep
  <2> QED
    BY <1>3, <2>2, <2>3
<1> QED
  BY <1>1, <1>2, <1>3, <1>4 DEF WorkStep

LEMMA WorkSteps ==
  ASSUME Inv, [Next]_vars
  PROVE  \A w \in Workers : WorkStep(w)
<1>1. UNCHANGED wk => \A w \in Workers : WorkStep(w)
  BY DEF WorkStep
<1>2. ASSUME NEW w \in Workers,
             \/ ApplyResults(w) \/ ApplyCutShort(w) \/ WorkerCrash(w)
             \/ SweepReturns(w) \/ SweepFetchFailed(w)
      PROVE  \A x \in Workers : WorkStep(x)
  <2>1. wk' = [wk EXCEPT ![w] = IdleWorker]
    BY <1>2 DEF ApplyResults, ApplyCutShort, ApplyTo, WorkerCrash, SweepReturns,
                SweepFetchFailed
  <2> QED
    BY <2>1 DEF WorkStep, IdleWorker, Inv, TypeOK
<1>3. ASSUME NEW w \in Sweepers, NEW k \in Keys, SweepMark(w, k)
      PROVE  \A x \in Workers : WorkStep(x)
  <2>1. UNCHANGED << exc, count, linked, call >>
    BY <1>3 DEF SweepMark, db, provider
  <2> QED
    BY <1>3, <2>1, SweepMarkFacts DEF WorkStep, Inv, Workers
<1>4. ASSUME NEW w \in Sweepers, SweepStillRunning(w)
      PROVE  \A x \in Workers : WorkStep(x)
  <2> w \in Workers
    BY DEF Workers
  <2>1. /\ wk'[w].pc = "return" /\ wk'[w].key = wk[w].key
        /\ \A x \in Workers \ {w} : wk'[x] = wk[x]
    BY <1>4 DEF SweepStillRunning, Inv, TypeOK
  <2>2. UNCHANGED << exc, count, linked, call >> /\ wk[w].key \in linked
    BY <1>4 DEF SweepStillRunning, db, provider, Inv, Hands
  <2> QED
    BY <2>1, <2>2 DEF WorkStep
<1>5. CASE UNCHANGED vars
  BY <1>1, <1>5 DEF vars
<1>6. CASE Next
  <2>1. CASE ProviderStep \/ \E d \in Dispatchers : DispatcherStep(d)
    BY <1>1, <2>1
    DEF ProviderStep, CreateLands, FinishCall, Webhook, DispatcherStep, PlanRefused,
        PlanUnconfigured, PlanBlocked, PlanBatch, CreateAccepted, CreateFailed,
        RecordDispatched, RecordCutShort, RecordCall, RecordRolledBack, DispatcherCrash
  <2>2. ASSUME NEW e \in Exceptions, NEW s \in TerminalStates, OperatorSettles(e, s)
        PROVE  \A w \in Workers : WorkStep(w)
    BY <1>1, <2>2 DEF OperatorSettles
  <2> QED
    BY <1>2, <1>3, <1>4, <1>6, <2>1, <2>2, OutboxWork, ReadWork
    DEF Next, SweepStep, Workers
<1> QED
  BY <1>5, <1>6

LEMMA ViewsKept ==
  ASSUME Inv, [Next]_vars
  PROVE  Views'
<1> TypeOK'
  BY TypeStep DEF Inv
<1>1. \A e \in Exceptions :
        RowStep(e) /\ exc[e].version \in Nat /\ exc'[e].version \in Nat
  <2>1. \A e \in Exceptions : exc'[e] \in Record
    BY DEF TypeOK
  <2> QED
    BY <2>1, Rows, RowTypes, RecordFields DEF Inv
<1>2. ASSUME NEW d \in Dispatchers, disp'[d].pc # "idle", NEW e \in DOMAIN disp'[d].key
      PROVE  Fits(disp'[d].seen[e], exc'[e])
  <2>1. CASE /\ disp[d].pc # "idle"
             /\ disp'[d].key = disp[d].key /\ disp'[d].seen = disp[d].seen
    <3>1. disp[d].key \in Keys /\ disp[d].seen \in [Exceptions -> View]
      BY <2>1 DEF Inv, TypeOK, DispatcherRecord
    <3>2. e \in Exceptions /\ disp[d].seen[e] \in View
      BY <1>2, <2>1, <3>1, KeyFacts
    <3>3. Fits(disp[d].seen[e], exc[e])
      BY <1>2, <2>1 DEF Inv, Views
    <3> QED
      BY <1>1, <2>1, <3>2, <3>3, FitsLater
  <2>2. ASSUME NEW S \in SUBSET Exceptions, PlanBatch(d, S)
        PROVE  Fits(disp'[d].seen[e], exc'[e])
    <3>1. e \in ReadyIn(S)
      BY <1>2, <2>2, NewKeyFacts DEF PlanBatch, Inv, TypeOK
    <3>2. e \in Exceptions
      BY <3>1 DEF ReadyIn
    <3>3. disp'[d].seen[e] = Seen(e, exc'[e])
      BY <2>2, <3>1, <3>2 DEF PlanBatch, Inv, TypeOK
    <3> QED
      BY <1>1, <3>2, <3>3, CommittedKept DEF Fits, Seen, Committed
  <2> QED
    BY <1>2, <2>1, <2>2, HandSteps DEF HandStep, Inv
<1>3. ASSUME NEW w \in Workers, wk'[w].pc = "apply", NEW e \in DOMAIN wk'[w].key
      PROVE  Fits(wk'[w].seen[e], OwnRecord(w, e)')
  <2>1. CASE wk'[w] = wk[w]
    <3>1. e \in Exceptions /\ wk[w].seen[e] \in View
      BY <1>3, <2>1, WorkerFacts DEF Inv
    <3>2. Fits(wk[w].seen[e], OwnRecord(w, e))
      BY <1>3, <2>1 DEF Inv, Views
    <3>3. CASE e \in wk[w].marked
      <4>1. LockStep(w)
        BY <1>3, Rows, SweepMarkFacts DEF Inv
      <4>2. exc'[e] = exc[e]
        BY <2>1, <3>3, <4>1 DEF LockStep
      <4> QED
        BY <2>1, <3>2, <3>3, <4>2 DEF OwnRecord, Transitioned
    <3>4. CASE e \notin wk[w].marked
      BY <1>1, <2>1, <3>1, <3>2, <3>4, FitsLater DEF OwnRecord
    <3> QED
      BY <3>3, <3>4
  <2> QED
    BY <1>3, <2>1, WorkSteps DEF WorkStep
<1> QED
  BY <1>2, <1>3 DEF Views

-----------------------------------------------------------------------------
(***************************************************************************)
(* Hands, Answers, Slices and FitBatches are kept: these are about keys,   *)
(* batches and calls, and few steps change any of those.                   *)
(***************************************************************************)

\* A dispatcher's request is answered, has failed, or is left behind.
CreateStep(d) == CreateAccepted(d) \/ CreateFailed(d) \/ DispatcherCrash(d)

\* A step that leaves batches and calls alone; dispatchers may let go of keys.
QuietStep ==
  /\ UNCHANGED << call, slice, flying, linked, batch, rid, outbox >>
  /\ \/ UNCHANGED << count, att >>
     \/ \E d \in Dispatchers, S \in SUBSET Exceptions : MayPlan(d, S) /\ StageAttempts(S)
  /\ \A d \in Dispatchers : disp'[d] = disp[d] \/ disp'[d].pc = "idle"

ApplyStep(w) ==
  /\ MayApply(w)
  /\ \E applied \in SUBSET (DOMAIN wk[w].key \ RaisingMembers(w)),
       raised \in SUBSET RaisingMembers(w) : ApplyTo(w, applied, raised)
  /\ \E delivered \in BOOLEAN : SettleMessages(w, delivered)

LEMMA StepKinds ==
  ASSUME TypeOK, [Next]_vars
  PROVE  \/ QuietStep
         \/ \E d \in Dispatchers :
              \/ \E S \in SUBSET Exceptions : PlanBatch(d, S)
              \/ CreateStep(d) \/ RecordStep(d)
         \/ \E k \in Keys :
              \/ CreateLands(k) \/ FinishCall(k)
              \/ \E v \in Events :
                   Webhook(k, v) \/ \E w \in OutboxWorkers : OutboxUnknownCall(w, k, v)
         \/ \E w \in Workers : ApplyStep(w)
<1>1. CASE UNCHANGED vars
  BY <1>1 DEF vars, db, provider, QuietStep
<1>2. CASE ProviderStep
  BY <1>2 DEF ProviderStep
<1>3. ASSUME NEW d \in Dispatchers, DispatcherStep(d),
             \A S \in SUBSET Exceptions : ~PlanBatch(d, S),
             ~CreateStep(d), ~RecordStep(d)
      PROVE  QuietStep
  <2>1. \/ \E S \in SUBSET Exceptions :
             PlanRefused(d, S) \/ PlanUnconfigured(d, S) \/ PlanBlocked(d, S)
        \/ RecordRolledBack(d)
    <3>1. ~RecordDispatched(d) /\ ~RecordCutShort(d)
      BY <1>3 DEF RecordDispatched, RecordCutShort, MayRecord, RecordStep
    <3> QED
      BY <1>3, <3>1 DEF DispatcherStep, CreateStep
  <2>2. ASSUME NEW S \in SUBSET Exceptions,
               PlanRefused(d, S) \/ PlanUnconfigured(d, S) \/ PlanBlocked(d, S)
        PROVE  QuietStep
    BY <2>2 DEF PlanRefused, PlanUnconfigured, PlanBlocked, provider, QuietStep
  <2>3. CASE RecordRolledBack(d)
    BY <2>3 DEF RecordRolledBack, db, provider, QuietStep, TypeOK, IdleDispatcher
  <2> QED
    BY <2>1, <2>2, <2>3
<1>4. ASSUME NEW w \in Workers, ApplyResults(w) PROVE ApplyStep(w)
  BY <1>4 DEF ApplyResults, ApplyStep
<1>5. ASSUME NEW w \in Workers, ApplyCutShort(w) PROVE ApplyStep(w)
  BY <1>5 DEF ApplyCutShort, ApplyStep
<1>6. ASSUME NEW w \in OutboxWorkers, OutboxStep(w),
             \A k \in Keys, v \in Events : ~OutboxUnknownCall(w, k, v)
      PROVE  QuietStep
  BY <1>6 DEF OutboxStep, OutboxClaim, db, provider, QuietStep
<1>7. ASSUME NEW w \in Workers,
             \/ SweepStep(w) \/ WorkerCrash(w)
             \/ \E late \in SUBSET Exceptions : ReadLater(w, late)
             \/ \E e \in Exceptions, s \in TerminalStates : OperatorSettles(e, s)
      PROVE  QuietStep
  BY <1>7 DEF SweepStep, SweepMark, SweepFetched, SweepStillRunning, SweepReturns,
              SweepFetchFailed, WorkerCrash, ReadLater, OperatorSettles, db, provider,
              QuietStep
<1>8. ASSUME NEW e \in Exceptions, NEW s \in TerminalStates, OperatorSettles(e, s)
      PROVE  QuietStep
  BY <1>8 DEF OperatorSettles, provider, QuietStep
<1> QED
  BY <1>1, <1>2, <1>3, <1>4, <1>5, <1>6, <1>7, <1>8 DEF Next, Workers

\* A key in hand is a key, and its batch exists.
LEMMA InHand ==
  ASSUME Inv, NEW d \in Dispatchers, disp[d].pc # "idle"
  PROVE  /\ disp[d].key \in Keys /\ disp[d].key \notin linked
         /\ DOMAIN disp[d].key \subseteq Exceptions
         /\ batch[disp[d].key] # "NONE"
<1>1. disp[d] \in DispatcherRecord
  BY DEF Inv, TypeOK
<1>2. disp[d].key \in Keys
  BY <1>1 DEF DispatcherRecord
<1> QED
  BY <1>2, KeyFacts DEF Inv, Hands, AttemptsClaimedOnce

\* A planned batch is new to everybody.
LEMMA PlannedKey ==
  ASSUME Inv, NEW d \in Dispatchers, NEW S \in SUBSET Exceptions, PlanBatch(d, S)
  PROVE  LET n == NewKey(S) IN
         /\ n \in Keys /\ DOMAIN n = ReadyIn(S) /\ ReadyIn(S) \subseteq Exceptions
         /\ \A e \in ReadyIn(S) : n[e] = count[e] + 1 /\ count'[e] = count[e] + 1
         /\ batch[n] = "NONE" /\ call[n] = "none" /\ n \notin linked \cup flying
         /\ \A c \in Dispatchers : disp[c].pc # "idle" => disp[c].key # n
         /\ batch' = [batch EXCEPT ![n] = "PENDING"]
         /\ disp'[d].pc = "create" /\ disp'[d].key = n
         /\ \A c \in Dispatchers \ {d} : disp'[c] = disp[c]
         /\ UNCHANGED << call, slice, flying, linked, rid, outbox, wk >>
<1> DEFINE n == NewKey(S)
<1>1. /\ n \in Keys /\ DOMAIN n = ReadyIn(S)
      /\ \A e \in ReadyIn(S) : n[e] = count[e] + 1
  BY NewKeyFacts DEF PlanBatch, Inv
<1>2. ReadyIn(S) # {} /\ ReadyIn(S) \subseteq Exceptions
  BY DEF PlanBatch, ReadyIn
<1>3. \A e \in ReadyIn(S) : count'[e] = count[e] + 1 /\ count[e] \in Nat
  BY <1>2 DEF PlanBatch, StageAttempts, NextAttemptNo, Inv, TypeOK
<1>4. batch[n] = "NONE"
  BY <1>1, <1>2, <1>3 DEF Inv, AttemptsClaimedOnce
<1>5. /\ disp'[d].pc = "create" /\ disp'[d].key = n
      /\ \A c \in Dispatchers \ {d} : disp'[c] = disp[c]
  BY DEF PlanBatch, Inv, TypeOK
<1>6. /\ batch' = [batch EXCEPT ![n] = "PENDING"]
      /\ UNCHANGED << call, slice, flying, linked, rid, outbox, wk >>
  BY DEF PlanBatch, provider
<1> HIDE DEF n
<1>7. call[n] = "none" /\ n \notin linked \cup flying
  BY <1>1, <1>4 DEF Inv, AttemptsClaimedOnce
<1>8. \A c \in Dispatchers : disp[c].pc # "idle" => disp[c].key # n
  BY <1>4, InHand
<1> QED
  BY <1>1, <1>2, <1>3, <1>4, <1>5, <1>6, <1>7, <1>8 DEF n

\* A create request: its call starts and the dispatcher goes on, or nothing is
\* placed yet, the dispatcher lets go, and the request may be left behind.
LEMMA CreateFacts ==
  ASSUME Inv, NEW d \in Dispatchers, CreateStep(d)
  PROVE  LET k == disp[d].key IN
         /\ disp[d].pc # "idle" /\ k \in Keys /\ k \notin linked \cup flying
         /\ \A j \in Keys : call'[j] = call[j]
              \/ (j = k /\ call[k] = "none" /\ call'[k] = "running")
         /\ \A j \in Keys : batch'[j] = "NONE" <=> batch[j] = "NONE"
         /\ \A j \in linked : batch'[j] = batch[j]
         /\ \A c \in Dispatchers \ {d} : disp'[c] = disp[c]
         /\ \/ /\ disp'[d].pc = "record" /\ disp'[d].key = k
               /\ call'[k] # "none" /\ flying' = flying
            \/ /\ disp'[d].pc = "idle" /\ UNCHANGED call
               /\ flying' = flying \/ (flying' = flying \cup {k} /\ call[k] = "none")
         /\ UNCHANGED << exc, count, rid, linked, outbox, slice, wk >>
<1> DEFINE k == disp[d].key
<1>1. disp[d].pc # "idle"
  BY DEF CreateStep, CreateAccepted, CreateFailed, DispatcherCrash
<1>2. /\ k \in Keys /\ k \notin linked \cup flying /\ batch[k] # "NONE"
      /\ disp[d].pc = "create" => call[k] = "none"
  BY <1>1, InHand DEF Inv, Hands
<1>3. CASE CreateAccepted(d)
  <2>1. disp[d] \in DispatcherRecord
    BY DEF Inv, TypeOK
  <2>2. disp'[d].pc = "record" /\ disp'[d].key = k
    BY <1>1, <1>3, <2>1 DEF CreateAccepted, DispatcherRecord, Inv, TypeOK
  <2> QED
    BY <1>1, <1>2, <1>3, <2>2 DEF CreateAccepted, StartCall, Inv, TypeOK, db
<1>4. CASE CreateFailed(d)
  BY <1>1, <1>2, <1>4
  DEF CreateFailed, GiveUp, Inv, TypeOK, IdleDispatcher
<1>5. CASE DispatcherCrash(d)
  BY <1>1, <1>2, <1>5
  DEF DispatcherCrash, GiveUp, Inv, TypeOK, IdleDispatcher, db
<1> QED
  BY <1>3, <1>4, <1>5 DEF CreateStep

\* A create that was given up starts its call, and is of no dispatcher's concern.
LEMMA LandFacts ==
  ASSUME Inv, NEW k \in Keys, CreateLands(k)
  PROVE  /\ k \in flying /\ k \notin linked
         /\ call[k] = "none" /\ call'[k] = "running" /\ flying' = flying \ {k}
         /\ \A j \in Keys \ {k} : call'[j] = call[j]
         /\ \A d \in Dispatchers : disp[d].pc # "idle" => disp[d].key # k
         /\ UNCHANGED << exc, count, att, batch, linked, rid, outbox, slice, disp, wk >>
BY DEF CreateLands, StartCall, Inv, Hands, TypeOK, db

\* Storing a call id.
LEMMA RecordFactsOfCall ==
  ASSUME Inv, NEW d \in Dispatchers, RecordStep(d)
  PROVE  LET k == disp[d].key IN
         /\ disp[d].pc = "record" /\ k \in Keys /\ k \notin linked
         /\ DOMAIN k \subseteq Exceptions /\ call[k] # "none"
         /\ linked' = linked \cup {k} /\ rid \subseteq rid'
         /\ batch' = [batch EXCEPT ![k] = "DISPATCHED"] /\ batch[k] # "NONE"
         /\ disp'[d].pc = "idle" /\ \A c \in Dispatchers \ {d} : disp'[c] = disp[c]
         /\ UNCHANGED << count, call, slice, flying, outbox, wk >>
<1>1. disp[d].pc = "record"
  BY DEF RecordStep
<1>2. PICK got, moved \in SUBSET DOMAIN disp[d].key : RecordCall(d, got, moved)
  BY DEF RecordStep
<1> QED
  BY <1>1, <1>2, InHand
  DEF RecordCall, provider, Inv, TypeOK, Hands, IdleDispatcher

\* Applying: the call is linked and over, and its batch is closed.
LEMMA ApplyFacts ==
  ASSUME Inv, NEW w \in Workers, ApplyStep(w)
  PROVE  LET k == wk[w].key IN
         /\ wk[w].pc = "apply" /\ k \in Keys /\ k \in linked
         /\ CallEnded(k) /\ batch[k] # "NONE"
         /\ batch' = [batch EXCEPT ![k] = IF call[k] = "failed" THEN "FAILED" ELSE "TERMINAL"]
         /\ \A j \in Keys \ {k} : outbox'[j] = outbox[j]
         /\ wk' = [wk EXCEPT ![w] = IdleWorker]
         /\ UNCHANGED << count, call, slice, flying, linked, rid, disp >>
<1>1. wk[w].pc = "apply" /\ wk[w].key \in Keys
  BY WorkerFacts DEF ApplyStep, MayApply, Inv
<1>2. PICK applied, raised \in SUBSET DOMAIN wk[w].key : ApplyTo(w, applied, raised)
  BY DEF ApplyStep, RaisingMembers
<1>3. wk[w].key \in linked /\ CallEnded(wk[w].key) /\ batch[wk[w].key] # "NONE"
  BY <1>1 DEF Inv, Hands, AttemptsClaimedOnce
<1>4. \A j \in Keys \ {wk[w].key} : outbox'[j] = outbox[j]
  BY DEF ApplyStep, SettleMessages, Inv, TypeOK
<1> QED
  BY <1>1, <1>2, <1>3, <1>4 DEF ApplyTo, provider

\* A call ends, and says something of its own attempts only.
LEMMA FinishFacts ==
  ASSUME TypeOK, NEW k \in Keys, FinishCall(k)
  PROVE  /\ call[k] = "running" /\ call'[k] \in {"completed", "failed"}
         /\ \A j \in Keys \ {k} : call'[j] = call[j]
         /\ \A e \in Exceptions, n \in Slots :
              ~(e \in DOMAIN k /\ k[e] = n) => slice'[e][n] = slice[e][n]
         /\ \A e \in DOMAIN k : slice'[e][k[e]] \in Outcomes
         /\ call'[k] = "failed" => \A e \in DOMAIN k :
              slice'[e][k[e]] \in {"unreached", "unusable", "missing"}
         /\ UNCHANGED << exc, count, batch, linked, rid, flying, outbox, disp, wk >>
<1>1. PICK status \in {"completed", "failed"}, says \in [DOMAIN k -> Outcomes] :
        /\ call[k] = "running"
        /\ status = "failed" =>
             \A e \in DOMAIN k : says[e] \in {"unreached", "unusable", "missing"}
        /\ call' = [call EXCEPT ![k] = status]
        /\ slice' = [e \in Exceptions |->
                       IF e \in DOMAIN k THEN [slice[e] EXCEPT ![k[e]] = says[e]]
                       ELSE slice[e]]
        /\ UNCHANGED << db, flying, disp, wk, polls >>
  BY DEF FinishCall
<1>2. DOMAIN k \subseteq Exceptions /\ \A e \in DOMAIN k : k[e] \in Slots
  BY KeyFacts
<1>3. \A e \in DOMAIN k : slice'[e][k[e]] = says[e]
  BY <1>1, <1>2 DEF TypeOK
<1>4. \A e \in Exceptions, n \in Slots :
        ~(e \in DOMAIN k /\ k[e] = n) => slice'[e][n] = slice[e][n]
  BY <1>1, <1>2 DEF TypeOK
<1> QED
  BY <1>1, <1>3, <1>4 DEF TypeOK, db

\* What is placed, linked, correlated, counted or over remains so.
Grows ==
  /\ linked \subseteq linked' /\ rid \subseteq rid'
  /\ \A k \in Keys : call[k] # "none" => call'[k] # "none"
  /\ \A k \in Keys : CallEnded(k) => call'[k] = call[k]
  /\ \A e \in Exceptions : count[e] <= count'[e]

LEMMA Growth ==
  ASSUME Inv, [Next]_vars
  PROVE  Grows
<1>1. \A e \in Exceptions : count[e] \in Nat
  BY DEF Inv, TypeOK
<1>2. CASE QuietStep
  <2>1. \A e \in Exceptions : count[e] <= count'[e]
    <3>1. CASE UNCHANGED count
      BY <1>1, <3>1
    <3>2. ASSUME NEW d \in Dispatchers, NEW S \in SUBSET Exceptions,
                 MayPlan(d, S), StageAttempts(S)
          PROVE  \A e \in Exceptions : count[e] <= count'[e]
      BY <1>1, <3>2 DEF StageAttempts, NextAttemptNo
    <3> QED
      BY <1>2, <3>1, <3>2 DEF QuietStep
  <2> QED
    BY <1>2, <2>1 DEF QuietStep, Grows
<1>3. ASSUME NEW d \in Dispatchers, NEW S \in SUBSET Exceptions, PlanBatch(d, S)
      PROVE  Grows
  <2>1. \A e \in Exceptions : count[e] <= count'[e]
    BY <1>1, <1>3 DEF PlanBatch, StageAttempts, NextAttemptNo
  <2> QED
    BY <1>3, <2>1, PlannedKey DEF Grows
<1>4. ASSUME NEW d \in Dispatchers, CreateStep(d)
      PROVE  Grows
  BY <1>1, <1>4, CreateFacts DEF Grows, CallEnded
<1>5. ASSUME NEW d \in Dispatchers, RecordStep(d) PROVE Grows
  BY <1>1, <1>5, RecordFactsOfCall DEF Grows
<1>6. ASSUME NEW k \in Keys, FinishCall(k) PROVE Grows
  BY <1>1, <1>6, FinishFacts DEF Grows, CallEnded, Inv
<1>7. ASSUME NEW k \in Keys, NEW v \in Events,
             Webhook(k, v) \/ \E w \in OutboxWorkers : OutboxUnknownCall(w, k, v)
      PROVE  Grows
  BY <1>1, <1>7 DEF Webhook, OutboxUnknownCall, provider, Grows
<1>8. ASSUME NEW w \in Workers, ApplyStep(w) PROVE Grows
  BY <1>1, <1>8, ApplyFacts DEF Grows
<1>9. ASSUME NEW k \in Keys, CreateLands(k) PROVE Grows
  BY <1>1, <1>9, LandFacts DEF Grows, CallEnded
<1> QED
  BY <1>2, <1>3, <1>4, <1>5, <1>6, <1>7, <1>8, <1>9, StepKinds DEF Inv

LEMMA HandsKept ==
  ASSUME Inv, [Next]_vars
  PROVE  Hands'
<1>1. \A w \in Workers : /\ wk'[w].pc # "idle" => wk'[w].key \in linked'
                         /\ wk'[w].pc = "apply" => call'[wk'[w].key] \in {"completed", "failed"}
  <2> SUFFICES ASSUME NEW w \in Workers
               PROVE  /\ wk'[w].pc # "idle" => wk'[w].key \in linked'
                      /\ wk'[w].pc = "apply" => call'[wk'[w].key] \in {"completed", "failed"}
    OBVIOUS
  <2>1. CASE wk'[w] = wk[w] /\ wk[w].pc # "idle"
    <3>1. /\ wk[w].key \in Keys /\ wk[w].key \in linked
          /\ wk[w].pc = "apply" => CallEnded(wk[w].key)
      BY <2>1, WorkerFacts DEF Inv, Hands
    <3> QED
      BY <2>1, <3>1, Growth DEF Grows, CallEnded
  <2>2. CASE /\ UNCHANGED << exc, linked, call >>
             /\ wk'[w].key \in linked
             /\ wk'[w].pc = "apply" => CallEnded(wk'[w].key)
    BY <2>2 DEF CallEnded
  <2> QED
    BY <2>1, <2>2, WorkSteps DEF WorkStep
<1> DEFINE Mine(d) ==
             disp[d].pc # "idle" =>
               /\ disp[d].key \notin linked \cup flying
               /\ disp[d].pc = "create" <=> call[disp[d].key] = "none"
           Apart == \A c, d \in Dispatchers :
                      c # d /\ disp[c].pc # "idle" /\ disp[d].pc # "idle"
                        => disp[c].key # disp[d].key
           Adrift == \A k \in flying : k \notin linked /\ call[k] = "none"
           Sound == Apart /\ Adrift /\ \A d \in Dispatchers : Mine(d)
<1>2. Apart /\ Adrift /\ (\A d \in Dispatchers : Mine(d)) /\ flying \subseteq Keys
  BY DEF Inv, Hands, TypeOK
<1>3. ASSUME UNCHANGED << linked, call, flying >>,
             \A d \in Dispatchers : disp'[d] = disp[d] \/ disp'[d].pc = "idle"
      PROVE  Sound'
  BY <1>2, <1>3
<1>4. ASSUME NEW d \in Dispatchers, NEW S \in SUBSET Exceptions, PlanBatch(d, S)
      PROVE  Sound'
  <2>0. PICK n \in Keys : n = NewKey(S)
    BY <1>4, PlannedKey
  <2>1. /\ call[n] = "none" /\ n \notin linked \cup flying
        /\ \A c \in Dispatchers : disp[c].pc # "idle" => disp[c].key # n
        /\ disp'[d].pc = "create" /\ disp'[d].key = n
        /\ \A c \in Dispatchers \ {d} : disp'[c] = disp[c]
        /\ UNCHANGED << call, flying, linked >>
    BY <1>4, <2>0, PlannedKey
  <2> QED
    BY <1>2, <2>1
<1>5. ASSUME NEW d \in Dispatchers, CreateStep(d)
      PROVE  Sound'
  <2>1. Apart'
    BY <1>2, <1>5, CreateFacts
  <2>2. Adrift'
    BY <1>2, <1>5, CreateFacts
  <2>3. Mine(d)'
    BY <1>2, <1>5, CreateFacts
  <2>4. ASSUME NEW c \in Dispatchers \ {d}, disp[c].pc # "idle"
        PROVE  Mine(c)'
    <3>1. disp[c].key \in Keys /\ disp[c].key # disp[d].key
      BY <1>2, <1>5, <2>4, InHand, CreateFacts
    <3> QED
      BY <1>2, <1>5, <3>1, CreateFacts
  <2>5. ASSUME NEW c \in Dispatchers \ {d}, disp[c].pc = "idle"
        PROVE  Mine(c)'
    BY <1>5, <2>5, CreateFacts
  <2> QED
    BY <2>1, <2>2, <2>3, <2>4, <2>5
<1>6. ASSUME NEW d \in Dispatchers, RecordStep(d)
      PROVE  Sound'
  BY <1>2, <1>6, RecordFactsOfCall
<1>7. ASSUME NEW k \in Keys, CreateLands(k) \/ FinishCall(k)
      PROVE  Sound'
  <2>1. /\ UNCHANGED << disp, linked >> /\ flying' \subseteq flying \ {k}
        /\ \A j \in Keys \ {k} : call'[j] = call[j]
        /\ \/ call[k] # "none" /\ call'[k] # "none"
           \/ \A d \in Dispatchers : disp[d].pc # "idle" => disp[d].key # k
    BY <1>2, <1>7, LandFacts, FinishFacts DEF Inv
  <2> QED
    BY <1>2, <2>1, InHand
<1>8. Sound'
  BY <1>3, <1>4, <1>5, <1>6, <1>7, StepKinds, ApplyFacts
  DEF QuietStep, Webhook, OutboxUnknownCall, provider, Inv
<1> QED
  BY <1>1, <1>8 DEF Hands, CallEnded

LEMMA AnswersKept ==
  ASSUME Inv, [Next]_vars
  PROVE  Answers'
<1> DEFINE Placed == \A k \in linked : call[k] # "none"
           Announced == \A k \in Keys, v \in Events : outbox[k][v] # "NONE" => CallEnded(k)
<1>0. /\ Placed /\ Announced /\ ClosedOnlyWhenOver /\ linked \subseteq Keys
      /\ Grows
  BY Growth DEF Inv, Answers, TypeOK
<1>1. ASSUME UNCHANGED << linked, batch, outbox >>
      PROVE  Placed' /\ Announced' /\ ClosedOnlyWhenOver'
  BY <1>0, <1>1 DEF Grows, CallEnded, ClosedOnlyWhenOver
<1>2. ASSUME NEW d \in Dispatchers, NEW S \in SUBSET Exceptions, PlanBatch(d, S)
      PROVE  Placed' /\ Announced' /\ ClosedOnlyWhenOver'
  BY <1>0, <1>2, PlannedKey DEF ClosedOnlyWhenOver, CallEnded, Inv, TypeOK
<1>3. ASSUME NEW d \in Dispatchers, CreateStep(d)
      PROVE  Placed' /\ Announced' /\ ClosedOnlyWhenOver'
  BY <1>0, <1>3, CreateFacts DEF Grows, CallEnded, ClosedOnlyWhenOver
<1>4. ASSUME NEW d \in Dispatchers, RecordStep(d)
      PROVE  Placed' /\ Announced' /\ ClosedOnlyWhenOver'
  <2>1. \A k \in linked' : batch'[k] = IF k = disp[d].key THEN "DISPATCHED" ELSE batch[k]
    BY <1>0, <1>4, RecordFactsOfCall DEF Inv, TypeOK
  <2> QED
    BY <1>0, <1>4, <2>1, RecordFactsOfCall DEF ClosedOnlyWhenOver, CallEnded
<1>5. ASSUME NEW k \in Keys, CreateLands(k) \/ FinishCall(k)
      PROVE  Placed' /\ Announced' /\ ClosedOnlyWhenOver'
  BY <1>1, <1>5, LandFacts, FinishFacts DEF Inv
<1>6. ASSUME NEW k \in Keys, NEW v \in Events,
             Webhook(k, v) \/ \E w \in OutboxWorkers : OutboxUnknownCall(w, k, v)
      PROVE  Placed' /\ Announced' /\ ClosedOnlyWhenOver'
  <2>1. CallEnded(k)
    BY <1>0, <1>6 DEF Webhook, OutboxUnknownCall, Unclaimed, CallEnded
  <2>2. \A j \in Keys, u \in Events :
          outbox'[j][u] # "NONE" => outbox[j][u] # "NONE" \/ j = k
    BY <1>6 DEF Webhook, OutboxUnknownCall, Inv, TypeOK
  <2>3. UNCHANGED << call, batch, linked >>
    BY <1>6 DEF Webhook, OutboxUnknownCall, provider
  <2> QED
    BY <1>0, <2>1, <2>2, <2>3 DEF CallEnded, ClosedOnlyWhenOver
<1>7. ASSUME NEW w \in Workers, ApplyStep(w)
      PROVE  Placed' /\ Announced' /\ ClosedOnlyWhenOver'
  <2>1. /\ wk[w].key \in Keys /\ CallEnded(wk[w].key)
        /\ \A j \in Keys \ {wk[w].key} : outbox'[j] = outbox[j] /\ batch'[j] = batch[j]
        /\ UNCHANGED << call, linked >>
    BY <1>7, ApplyFacts DEF Inv, TypeOK
  <2> QED
    BY <1>0, <2>1 DEF CallEnded, ClosedOnlyWhenOver
<1>8. Placed' /\ Announced' /\ ClosedOnlyWhenOver'
  BY <1>1, <1>2, <1>3, <1>4, <1>5, <1>6, <1>7, StepKinds DEF QuietStep, Inv
<1> QED
  BY <1>8 DEF Answers

LEMMA SlicesKept ==
  ASSUME Inv, [Next]_vars
  PROVE  Slices'
<1> DEFINE Future == \A e \in Exceptions, n \in Slots :
                       n > count[e] => slice[e][n] = "none"
           Says(k) == \A e \in DOMAIN k :
                        /\ ~CallEnded(k) => slice[e][k[e]] = "none"
                        /\ call[k] = "failed" =>
                             slice[e][k[e]] \in {"unreached", "unusable", "missing"}
<1>0. /\ Future /\ Grows
      /\ \A k \in Keys : batch[k] # "NONE" => Says(k)
      /\ \A e \in Exceptions : count[e] \in Nat /\ count'[e] \in Nat
  <2> TypeOK'
    BY TypeStep DEF Inv
  <2> QED
    BY Growth DEF Inv, Slices, TypeOK
<1>00. \A n \in Slots : n \in Nat
  BY AttemptsAssumption DEF Slots
<1>1. ASSUME UNCHANGED slice PROVE Future'
  BY <1>0, <1>00, <1>1 DEF Grows
<1>2. ASSUME UNCHANGED << slice, call >>,
             \A k \in Keys : batch'[k] # "NONE" => batch[k] # "NONE"
      PROVE  \A k \in Keys : batch'[k] # "NONE" => Says(k)'
  BY <1>0, <1>2 DEF CallEnded
<1>3. ASSUME NEW d \in Dispatchers, NEW S \in SUBSET Exceptions, PlanBatch(d, S)
      PROVE  Future' /\ \A k \in Keys : batch'[k] # "NONE" => Says(k)'
  <2>0. PICK n \in Keys : n = NewKey(S)
    BY <1>3, PlannedKey
  <2>1. /\ n \in Keys /\ DOMAIN n = ReadyIn(S) /\ ReadyIn(S) \subseteq Exceptions
        /\ \A e \in ReadyIn(S) : n[e] = count[e] + 1
        /\ call[n] = "none" /\ UNCHANGED << call, slice >>
        /\ \A k \in Keys \ {n} : batch'[k] = batch[k]
    BY <1>3, <2>0, PlannedKey DEF Inv, TypeOK
  <2>2. \A e \in DOMAIN n : n[e] \in Slots
    BY <2>1, KeyFacts
  <2>3. \A e \in DOMAIN n : slice[e][n[e]] = "none"
    BY <1>0, <2>1, <2>2
  <2>4. Says(n)'
    BY <2>1, <2>3
  <2> QED
    BY <1>0, <1>1, <2>1, <2>4 DEF CallEnded
<1>4. ASSUME (\E d \in Dispatchers : CreateStep(d)) \/ (\E j \in Keys : CreateLands(j))
      PROVE  Future' /\ \A k \in Keys : batch'[k] # "NONE" => Says(k)'
  <2>1. /\ UNCHANGED slice
        /\ \A k \in Keys : batch'[k] # "NONE" => batch[k] # "NONE"
        /\ \A k \in Keys : call'[k] = call[k] \/ (call[k] = "none" /\ call'[k] = "running")
    BY <1>4, CreateFacts, LandFacts
  <2> QED
    BY <1>0, <1>1, <2>1 DEF CallEnded
<1>5. ASSUME NEW d \in Dispatchers, RecordStep(d)
      PROVE  Future' /\ \A k \in Keys : batch'[k] # "NONE" => Says(k)'
  <2>1. /\ UNCHANGED << slice, call >>
        /\ \A k \in Keys : batch'[k] # "NONE" => batch[k] # "NONE"
    BY <1>5, RecordFactsOfCall DEF Inv, TypeOK
  <2> QED
    BY <1>1, <1>2, <2>1
<1>6. ASSUME NEW w \in Workers, ApplyStep(w)
      PROVE  Future' /\ \A k \in Keys : batch'[k] # "NONE" => Says(k)'
  <2>1. /\ UNCHANGED << slice, call >>
        /\ \A k \in Keys : batch'[k] # "NONE" => batch[k] # "NONE"
    BY <1>6, ApplyFacts DEF Inv, TypeOK
  <2> QED
    BY <1>1, <1>2, <2>1
<1>7. ASSUME NEW k \in Keys, FinishCall(k)
      PROVE  Future' /\ \A j \in Keys : batch'[j] # "NONE" => Says(j)'
  <2>1. batch[k] # "NONE" /\ DOMAIN k \subseteq Exceptions
    BY <1>7, FinishFacts, KeyFacts DEF Inv, AttemptsClaimedOnce
  <2>2. \A e \in DOMAIN k : k[e] \in Slots /\ k[e] <= count[e]
    BY <2>1, KeyFacts DEF Inv, AttemptsClaimedOnce
  <2>3. Future'
    <3> SUFFICES ASSUME NEW e \in Exceptions, NEW n \in Slots, n > count'[e]
                 PROVE  slice'[e][n] = "none"
      OBVIOUS
    <3>1. count'[e] = count[e] /\ ~(e \in DOMAIN k /\ k[e] = n)
      BY <1>0, <1>00, <1>7, <2>2, FinishFacts DEF Inv
    <3> QED
      BY <1>0, <1>7, <3>1, FinishFacts DEF Inv
  <2>4. ASSUME NEW j \in Keys, batch'[j] # "NONE" PROVE Says(j)'
    <3>1. CASE j = k
      BY <1>7, <3>1, FinishFacts DEF Inv, CallEnded
    <3>2. CASE j # k
      <4>1. Says(j) /\ call'[j] = call[j]
        BY <1>0, <1>7, <2>4, <3>2, FinishFacts DEF Inv
      <4>2. \A e \in DOMAIN j : e \in Exceptions /\ j[e] \in Slots
        BY KeyFacts
      <4>3. \A e \in DOMAIN j : ~(e \in DOMAIN k /\ k[e] = j[e])
        BY <1>7, <2>1, <2>4, <3>2, FinishFacts DEF Inv, AttemptsClaimedOnce
      <4>4. \A e \in DOMAIN j : slice'[e][j[e]] = slice[e][j[e]]
        BY <1>7, <4>2, <4>3, FinishFacts DEF Inv
      <4> QED
        BY <4>1, <4>4 DEF CallEnded
    <3> QED
      BY <3>1, <3>2
  <2> QED
    BY <2>3, <2>4
<1>8. Future' /\ \A k \in Keys : batch'[k] # "NONE" => Says(k)'
  BY <1>1, <1>2, <1>3, <1>4, <1>5, <1>6, <1>7, StepKinds
  DEF QuietStep, Webhook, OutboxUnknownCall, provider, Inv
<1> QED
  BY <1>8 DEF Slices

\* The gates stand before every batch there is.
LEMMA FitBatchesKept ==
  ASSUME Inv, [Next]_vars
  PROVE  FitBatches'
<1>1. ASSUME \A k \in Keys : batch'[k] # "NONE" => batch[k] # "NONE"
      PROVE  FitBatches'
  BY <1>1 DEF Inv, FitBatches
<1>2. ASSUME NEW d \in Dispatchers, NEW S \in SUBSET Exceptions, PlanBatch(d, S)
      PROVE  FitBatches'
  <2>0. PICK n \in Keys : n = NewKey(S)
    BY <1>2, PlannedKey
  <2>1. ReadyIn(S) \cap Sensitive = {} /\ ReadyIn(S) \cap BadContact = {}
    BY <1>2 DEF PlanBatch, SaysTooMuch, ReadyIn, Ready, Callable
  <2>2. /\ DOMAIN n = ReadyIn(S)
        /\ \A k \in Keys \ {n} : batch'[k] = batch[k]
    BY <1>2, <2>0, PlannedKey DEF Inv, TypeOK
  <2> QED
    BY <2>1, <2>2 DEF FitBatches, Inv
<1>3. ASSUME NEW d \in Dispatchers,
             CreateStep(d) \/ RecordStep(d)
      PROVE  FitBatches'
  BY <1>1, <1>3, CreateFacts, RecordFactsOfCall DEF Inv, TypeOK
<1>4. ASSUME NEW w \in Workers, ApplyStep(w) PROVE FitBatches'
  BY <1>1, <1>4, ApplyFacts DEF Inv, TypeOK
<1>5. ASSUME NEW k \in Keys, CreateLands(k) \/ FinishCall(k) PROVE FitBatches'
  BY <1>1, <1>5, LandFacts, FinishFacts DEF Inv
<1> QED
  BY <1>1, <1>2, <1>3, <1>4, <1>5, StepKinds
  DEF QuietStep, Webhook, OutboxUnknownCall, Inv

-----------------------------------------------------------------------------
(***************************************************************************)
(* The theorems.                                                           *)
(***************************************************************************)

LEMMA InvInit == Init => Inv
<1> SUFFICES ASSUME Init PROVE Inv
  OBVIOUS
<1>1. Committed
  BY DEF Init, Committed, CommittedStates, ExceptionStates
<1>2. Marks /\ Views /\ Hands
  BY DEF Init, Marks, Views, Hands, IdleDispatcher, IdleWorker
<1>3. Answers /\ Slices /\ FitBatches
  BY DEF Init, Answers, ClosedOnlyWhenOver, Slices, FitBatches
<1> QED
  BY <1>1, <1>2, <1>3, TypeInit, ClaimInit DEF Inv

\* Inv holds in every reachable state, for any constants.
THEOREM InvariantHolds == Spec => []Inv
<1>1. Inv /\ [Next]_vars /\ TypeOK' /\ AttemptsClaimedOnce' => Inv'
  BY CommittedKept, MarksKept, ViewsKept, HandsKept, AnswersKept, SlicesKept,
     FitBatchesKept
  DEF Inv
<1> QED
  BY <1>1, InvInit, TypeCorrect, ClaimsHold, PTL DEF Spec, Inv

\* A terminal state is final, for any number of workers, dispatchers and
\* operators: whoever writes a row under a version has seen the state of that
\* version, and no move leads out of a terminal state.
THEOREM TerminalStatesAreFinal == Spec => TerminalIsFinal
<1>1. Inv /\ [Next]_vars =>
        \A e \in Exceptions : IsTerminal(exc[e].state) => exc'[e].state = exc[e].state
  <2> SUFFICES ASSUME Inv, [Next]_vars, NEW e \in Exceptions, IsTerminal(exc[e].state)
               PROVE  exc'[e].state = exc[e].state
    OBVIOUS
  <2>1. RowStep(e)
    BY Rows
  <2> QED
    BY <2>1 DEF RowStep, RowMove, Awaiting, IsTerminal, TerminalStates
<1> QED
  BY <1>1, InvariantHolds, PTL DEF Spec, TerminalIsFinal

\* An exception shown as on a call is covered by a call that was placed and
\* whose id is stored: CALLING is written in the transaction that stores it.
THEOREM AwaitingCallIsStored == Spec => []AwaitingHasCall
<1>1. Init => AwaitingHasCall
  BY DEF Init, AwaitingHasCall, Awaiting
<1>2. Inv /\ AwaitingHasCall /\ [Next]_vars => AwaitingHasCall'
  <2> SUFFICES ASSUME Inv, AwaitingHasCall, [Next]_vars,
                      NEW e \in Exceptions, Awaiting(exc'[e].state)
               PROVE  CallsTo(e)' \cap linked' # {}
    BY DEF AwaitingHasCall, Awaiting
  <2>1. CallsTo(e) \subseteq CallsTo(e)' /\ linked \subseteq linked'
    BY Growth DEF Grows, CallsTo
  <2>2. RowStep(e)
    BY Rows
  <2>3. \/ Awaiting(exc[e].state)
        \/ CallsTo(e) \cap linked' # {}
    BY <2>2 DEF RowStep, RowMove, Awaiting
  <2> QED
    BY <2>1, <2>3 DEF AwaitingHasCall
<1> QED
  BY <1>1, <1>2, InvariantHolds, PTL DEF Spec

\* What a finished call said of an attempt is never overwritten.
LEMMA EvidenceKept ==
  ASSUME Inv, [Next]_vars, NEW k \in Keys, CallEnded(k), NEW e \in DOMAIN k
  PROVE  slice'[e][k[e]] = slice[e][k[e]]
<1>1. ASSUME NEW j \in Keys, FinishCall(j)
      PROVE  slice'[e][k[e]] = slice[e][k[e]]
  <2>1. call[j] = "running" /\ j # k
    BY <1>1, FinishFacts DEF CallEnded, Inv
  <2>2. batch[j] # "NONE" /\ batch[k] # "NONE"
    BY <2>1 DEF Inv, AttemptsClaimedOnce, CallEnded
  <2>3. ~(e \in DOMAIN j /\ j[e] = k[e])
    BY <2>1, <2>2 DEF Inv, AttemptsClaimedOnce
  <2> QED
    BY <1>1, <2>3, FinishFacts, KeyFacts DEF Inv
<1>2. UNCHANGED slice \/ \E j \in Keys : FinishCall(j)
  BY StepKinds, PlannedKey, CreateFacts, LandFacts, RecordFactsOfCall, ApplyFacts
  DEF QuietStep, Webhook, OutboxUnknownCall, provider, Inv
<1> QED
  BY <1>1, <1>2

\* A resolution is what a finished call said of this very supplier, in an
\* attempt whose recipient id is known.
THEOREM EvidenceIsOwn == Spec => []ResolvedOnOwnEvidence
<1> DEFINE Said(e, s) == \E k \in CallsTo(e) : Supports(k, e, s)
<1>1. Init => ResolvedOnOwnEvidence
  BY DEF Init, ResolvedOnOwnEvidence
<1>2. Inv /\ ResolvedOnOwnEvidence /\ [Next]_vars => ResolvedOnOwnEvidence'
  <2> SUFFICES ASSUME Inv, ResolvedOnOwnEvidence, [Next]_vars, NEW e \in Exceptions,
                      NEW s \in {"RESOLVED_ON_TIME", "RESOLVED_DELAYED"},
                      exc'[e].state = s
               PROVE  Said(e, s)'
    BY DEF ResolvedOnOwnEvidence, Supports
  <2>1. Said(e, s)
    <3>1. RowStep(e)
      BY Rows
    <3>2. CASE exc[e].state = s
      BY <3>2 DEF ResolvedOnOwnEvidence, Supports
    <3>3. CASE exc[e].state # s
      BY <3>1, <3>3 DEF RowStep, RowMove
    <3> QED
      BY <3>2, <3>3
  <2>2. PICK k \in CallsTo(e) : Supports(k, e, s)
    BY <2>1
  <2>3. k \in Keys /\ e \in DOMAIN k /\ CallEnded(k)
    BY <2>2 DEF CallsTo, Supports, CallEnded
  <2>4. /\ call'[k] = call[k] /\ rid \subseteq rid'
        /\ slice'[e][k[e]] = slice[e][k[e]]
    BY <2>3, Growth, EvidenceKept DEF Grows
  <2>5. k \in CallsTo(e)' /\ Supports(k, e, s)'
    BY <2>2, <2>3, <2>4 DEF CallsTo, Supports
  <2> QED
    BY <2>5
<1> QED
  BY <1>1, <1>2, InvariantHolds, PTL DEF Spec

\* A batch whose call id is stored is closed only on the provider's word.
THEOREM ClosedBatchesAreOver == Spec => []ClosedOnlyWhenOver
<1>1. Inv => ClosedOnlyWhenOver
  BY DEF Inv, Answers
<1> QED
  BY <1>1, InvariantHolds, PTL

\* Nobody without a usable number, or whose task says too much, is on a call.
THEOREM UnfitAreNotDialled == Spec => []NoUnfitDial
<1>1. Inv => NoUnfitDial
  BY DEF Inv, FitBatches, AttemptsClaimedOnce, NoUnfitDial
<1> QED
  BY <1>1, InvariantHolds, PTL
=============================================================================
