-------------------------- MODULE CallPolicy_proofs --------------------------
(***************************************************************************)
(* Proofs about CallPolicy, for any exceptions, schedule, day, budget and  *)
(* quiet-hours policies.                                                   *)
(*                                                                         *)
(* RetriesAreSpaced relates two dispatches with any number of failed       *)
(* attempts between them.  What carries it across is Waited: an attempt    *)
(* that has no dispatched_at was planned after a wait that is still over.  *)
(***************************************************************************)
EXTENDS CallPolicy, TLAPS

(* Dispatches in progress are of different exceptions, each at a counted     *)
(* attempt that has not been recorded as dispatched.                        *)
HandsInv ==
    /\ \A S, T \in hands : S # T => S \cap T = {}
    /\ \A S \in hands : \A e \in S :
          last[e] = "PENDING" /\ ~stamped[e] /\ count[e] >= 1

(* Only a counted attempt is stamped; an exception whose last attempt is not *)
(* was not dispatched for at least the shortest wait.                       *)
Waited ==
    \A e \in Exceptions :
        /\ stamped[e] => count[e] >= 1
        /\ ~stamped[e] => SomeWaitPassed(e)

Inv == TypeOK /\ HandsInv /\ Waited

-----------------------------------------------------------------------------
(* The wait before a second or later attempt is an entry of the schedule that *)
(* a retry may have to observe.                                              *)
LEMMA WaitIsInSchedule ==
    ASSUME NEW e \in Exceptions, NEW n \in Nat, n >= 2,
           since[e] \in Nat, since[e] >= BackoffFor(n)
    PROVE  SomeWaitPassed(e)
<1> DEFINE i == IF n < Len(Backoff) THEN n ELSE Len(Backoff)
<1>1. Len(Backoff) \in Nat \ {0} /\ DOMAIN Backoff = 1 .. Len(Backoff)
  BY BackoffAssumption
<1>2. i \in DOMAIN Backoff /\ (i = 1 => Len(Backoff) = 1)
  BY <1>1
<1>3. BackoffFor(n) = Backoff[i]
  BY DEF BackoffFor
<1> QED BY <1>2, <1>3 DEF SomeWaitPassed

(* An exception that was never dispatched has waited long enough. *)
LEMMA LongAgoIsLongEnough ==
    ASSUME NEW e \in Exceptions, since[e] = LongAgo
    PROVE  SomeWaitPassed(e)
<1> DEFINE i == IF Len(Backoff) = 1 THEN 1 ELSE 2
<1>1. Len(Backoff) \in Nat \ {0} /\ DOMAIN Backoff = 1 .. Len(Backoff)
  BY BackoffAssumption
<1>2. i \in DOMAIN Backoff /\ (i = 1 => Len(Backoff) = 1)
  BY <1>1
<1>3. Backoff[i] <= LongAgo /\ Backoff[i] \in Nat /\ LongAgo \in Nat
  BY <1>2, BackoffAssumption
<1> QED BY <1>2, <1>3 DEF SomeWaitPassed

(* Time only adds to what has passed. *)
LEMMA WaitStaysPassed ==
    ASSUME NEW e \in Exceptions, since[e] \in Nat, since'[e] \in Nat,
           since'[e] >= since[e], SomeWaitPassed(e)
    PROVE  SomeWaitPassed(e)'
<1>1. PICK i \in DOMAIN Backoff : (i = 1 => Len(Backoff) = 1) /\ since[e] >= Backoff[i]
  BY DEF SomeWaitPassed
<1>2. Backoff[i] \in Nat
  BY BackoffAssumption
<1> QED BY <1>1, <1>2 DEF SomeWaitPassed

(* Whom a pass may call: not terminal, with a usable number, due, within the  *)
(* hours and the budget, and after its wait.                                 *)
LEMMA ReadyMeans ==
    ASSUME NEW e \in Exceptions, Ready(e)
    PROVE  /\ ~IsTerminal(state[e])
           /\ ~(count[e] >= MaxAttempts)
           /\ ~(quiet.enforced /\ InQuietHours)
           /\ last[e] # "DISPATCHED" /\ WaitIsOver(e)
  BY DEF Ready, Eligible, Eligibility, Budget

-----------------------------------------------------------------------------
LEMMA InitInv == Init => Inv
<1> SUFFICES ASSUME Init PROVE Inv
  OBVIOUS
<1>1. TypeOK
  BY BudgetAssumption, BackoffAssumption, ClockAssumption
  DEF Init, TypeOK, ExceptionStates, AttemptStatus
<1>2. HandsInv
  BY DEF Init, HandsInv
<1>3. Waited
  BY LongAgoIsLongEnough DEF Init, Waited
<1> QED BY <1>1, <1>2, <1>3 DEF Inv

(* Planning: the new attempts are within the budget and were waited for. *)
LEMMA PlanKeeps ==
    ASSUME Inv, NEW S \in SUBSET Exceptions, Plan(S)
    PROVE  Inv'
<1> USE DEF Inv
<1>0. ReadyIn(S) \subseteq S /\ ReadyIn(S) \subseteq Exceptions
  BY DEF ReadyIn
<1>1. \A e \in ReadyIn(S) :
        ~IsTerminal(state[e]) /\ ~(count[e] >= MaxAttempts) /\ WaitIsOver(e)
  BY ReadyMeans DEF ReadyIn
<1>2. \A T \in hands : T \cap S = {}
  BY DEF Plan
<1>3. TypeOK'
  <2>1. UNCHANGED clock /\ UNCHANGED since
    BY DEF Plan
  <2>2. state' \in [Exceptions -> ExceptionStates]
    BY DEF Plan, TypeOK, ExceptionStates
  <2>3. count' \in [Exceptions -> 0 .. MaxAttempts]
    BY <1>1, BudgetAssumption DEF Plan, TypeOK
  <2>4. last' \in [Exceptions -> AttemptStatus] /\ stamped' \in [Exceptions -> BOOLEAN]
    BY DEF Plan, TypeOK, AttemptStatus
  <2>5. \A T \in hands' : T \subseteq {e \in Exceptions : state'[e] = "CALL_PLANNED"}
    <3> TAKE T \in hands'
    <3>1. CASE T = ReadyIn(S)
      BY <3>1, <1>0 DEF Plan
    <3>2. CASE T \in hands
      <4>1. T \subseteq {e \in Exceptions : state[e] = "CALL_PLANNED"}
        BY <3>2 DEF TypeOK
      <4>2. \A e \in T : e \notin ReadyIn(S) /\ e \notin RefusedIn(S)
        BY <1>2, <3>2 DEF ReadyIn, RefusedIn
      <4> QED BY <4>1, <4>2 DEF Plan
    <3> QED BY <3>1, <3>2 DEF Plan
  <2> QED BY <2>1, <2>2, <2>3, <2>4, <2>5 DEF TypeOK, clock
<1>4. HandsInv'
  <2>1. \A T, U \in hands' : T # U => T \cap U = {}
    BY <1>0, <1>2 DEF Plan, HandsInv
  <2>2. \A T \in hands' : \A e \in T :
          last'[e] = "PENDING" /\ ~stamped'[e] /\ count'[e] >= 1
    <3> TAKE T \in hands'
    <3>1. CASE T = ReadyIn(S)
      <4>1. \A e \in T : last'[e] = "PENDING" /\ ~stamped'[e]
        BY <3>1, <1>0 DEF Plan
      <4>2. \A e \in T : count'[e] = count[e] + 1 /\ count[e] \in Nat
        BY <3>1, <1>0, BudgetAssumption DEF Plan, TypeOK
      <4> QED BY <4>1, <4>2
    <3>2. CASE T \in hands
      <4>1. /\ T \subseteq Exceptions
            /\ \A e \in T : last[e] = "PENDING" /\ ~stamped[e] /\ count[e] >= 1
        BY <3>2 DEF TypeOK, HandsInv
      <4>2. \A e \in T : e \notin ReadyIn(S)
        BY <1>0, <1>2, <3>2
      <4>3. \A e \in T : count'[e] = count[e]
        BY <4>1, <4>2, BudgetAssumption DEF Plan, TypeOK
      <4>4. \A e \in T : last'[e] = last[e] /\ ~stamped'[e]
        BY <4>1, <4>2 DEF Plan
      <4> QED BY <4>1, <4>3, <4>4
    <3> QED BY <3>1, <3>2 DEF Plan
  <2> QED BY <2>1, <2>2 DEF HandsInv
<1>5. Waited'
  <2> SUFFICES ASSUME NEW e \in Exceptions
               PROVE  /\ stamped'[e] => count'[e] >= 1
                      /\ ~stamped'[e] => SomeWaitPassed(e)'
    BY DEF Waited
  <2>1. count[e] \in Nat /\ since[e] \in Nat /\ stamped[e] \in BOOLEAN
    BY BudgetAssumption, BackoffAssumption DEF TypeOK
  <2>2. SomeWaitPassed(e)' <=> SomeWaitPassed(e)
    BY DEF Plan, SomeWaitPassed
  <2>3. CASE e \in ReadyIn(S)
    <3>1. ~stamped'[e]
      BY <2>3 DEF Plan
    <3>2. SomeWaitPassed(e)
      <4>1. CASE ~stamped[e]
        BY <4>1 DEF Waited
      <4>2. CASE stamped[e]
        <5>1. count[e] >= 1 /\ since[e] >= BackoffFor(count[e] + 1)
          BY <4>2, <2>3, <1>1 DEF Waited, WaitIsOver
        <5> QED BY <5>1, <2>1, WaitIsInSchedule
      <4> QED BY <4>1, <4>2
    <3> QED BY <3>1, <3>2, <2>2
  <2>4. CASE e \notin ReadyIn(S)
    <3>1. stamped'[e] = stamped[e] /\ count'[e] = count[e]
      BY <2>4, <2>1 DEF Plan
    <3> QED BY <3>1, <2>2 DEF Waited
  <2> QED BY <2>3, <2>4
<1> QED BY <1>3, <1>4, <1>5

(* What becomes of a dispatch: only its own exceptions change. *)
LEMMA DispatchKeeps ==
    ASSUME Inv, NEW S \in SUBSET Exceptions,
           Dispatch(S) \/ CreateFails(S) \/ DispatcherDies(S)
    PROVE  Inv'
<1> USE DEF Inv
<1>1. S \in hands /\ hands' = hands \ {S} /\ UNCHANGED clock /\ count' = count
  BY DEF Dispatch, CreateFails, DispatcherDies
<1>2. \A T \in hands' : T \in hands /\ T \cap S = {} /\ T \subseteq Exceptions
  BY <1>1 DEF HandsInv, TypeOK
<1>3. /\ state' \in [Exceptions -> ExceptionStates]
      /\ last' \in [Exceptions -> AttemptStatus]
      /\ stamped' \in [Exceptions -> BOOLEAN]
      /\ since' \in [Exceptions -> 0 .. LongAgo]
  <2>0. LongAgo \in Nat
    BY BackoffAssumption
  <2>1. CASE Dispatch(S)
    <3>1. state' \in [Exceptions -> ExceptionStates]
      BY <2>1 DEF Dispatch, TypeOK, ExceptionStates
    <3>2. last' \in [Exceptions -> AttemptStatus] /\ stamped' \in [Exceptions -> BOOLEAN]
      BY <2>1 DEF Dispatch, TypeOK, AttemptStatus
    <3>3. since' \in [Exceptions -> 0 .. LongAgo]
      BY <2>0, <2>1 DEF Dispatch, TypeOK
    <3> QED BY <3>1, <3>2, <3>3
  <2>2. CASE CreateFails(S)
    BY <2>2 DEF CreateFails, TypeOK, AttemptStatus
  <2>3. CASE DispatcherDies(S)
    BY <2>3 DEF DispatcherDies, TypeOK
  <2> QED BY <2>1, <2>2, <2>3
<1>4. \A e \in Exceptions : e \notin S =>
        /\ state'[e] = state[e] /\ last'[e] = last[e]
        /\ stamped'[e] = stamped[e] /\ since'[e] = since[e]
  BY DEF TypeOK, Dispatch, CreateFails, DispatcherDies
<1>5. \A T \in hands' : T \subseteq {e \in Exceptions : state'[e] = "CALL_PLANNED"}
  <2> TAKE T \in hands'
  <2>1. T \subseteq {e \in Exceptions : state[e] = "CALL_PLANNED"}
    BY <1>2 DEF TypeOK
  <2> QED BY <1>2, <1>4, <2>1
<1>6. TypeOK'
  BY <1>1, <1>3, <1>5 DEF TypeOK, clock
<1>7. HandsInv'
  <2>1. \A T, U \in hands' : T # U => T \cap U = {}
    BY <1>1 DEF HandsInv
  <2>2. \A T \in hands' : \A e \in T :
          last'[e] = "PENDING" /\ ~stamped'[e] /\ count'[e] >= 1
    <3> TAKE T \in hands'
    <3>1. \A e \in T : last[e] = "PENDING" /\ ~stamped[e] /\ count[e] >= 1
      BY <1>2 DEF HandsInv
    <3>2. \A e \in T : e \in Exceptions /\ e \notin S
      BY <1>2
    <3> QED BY <1>1, <1>4, <3>1, <3>2
  <2> QED BY <2>1, <2>2 DEF HandsInv
<1>8. Waited'
  <2> SUFFICES ASSUME NEW e \in Exceptions
               PROVE  /\ stamped'[e] => count'[e] >= 1
                      /\ ~stamped'[e] => SomeWaitPassed(e)'
    BY DEF Waited
  <2>1. CASE e \notin S
    <3>1. SomeWaitPassed(e)' <=> SomeWaitPassed(e)
      BY <1>4, <2>1 DEF SomeWaitPassed
    <3> QED BY <1>1, <1>4, <2>1, <3>1 DEF Waited
  <2>2. CASE e \in S
    <3>1. ~stamped[e] /\ count[e] >= 1 /\ SomeWaitPassed(e)
      BY <1>1, <2>2 DEF HandsInv, Waited
    <3>2. CASE Dispatch(S)
      BY <1>1, <2>2, <3>1, <3>2 DEF Dispatch
    <3>3. CASE CreateFails(S) \/ DispatcherDies(S)
      <4>1. since' = since
        BY <3>3 DEF CreateFails, DispatcherDies
      <4>2. SomeWaitPassed(e)'
        BY <3>1, <4>1 DEF SomeWaitPassed
      <4> QED BY <1>1, <3>1, <4>2
    <3> QED BY <3>2, <3>3
  <2> QED BY <2>1, <2>2
<1> QED BY <1>6, <1>7, <1>8

(* A result concerns an attempt that was dispatched, so none in a hand. *)
LEMMA ResultKeeps ==
    ASSUME Inv, NEW e \in Exceptions, NEW says \in Outcomes, CallEnds(e, says)
    PROVE  Inv'
<1> USE DEF Inv
<1>1. last[e] = "DISPATCHED" /\ UNCHANGED << clock, count, stamped, since, hands >>
  BY DEF CallEnds
<1>2. \A T \in hands : e \notin T /\ T \subseteq Exceptions
  BY <1>1 DEF HandsInv, TypeOK
<1>3. \A f \in Exceptions : f # e => state'[f] = state[f] /\ last'[f] = last[f]
  BY DEF CallEnds, TypeOK
<1>4. state' \in [Exceptions -> ExceptionStates]
  <2>1. DecisionState(says, count[e] >= MaxAttempts) \in ExceptionStates
    BY OutcomesAssumption DEF DecisionState, ExceptionStates, AllOutcomes
  <2> QED BY <2>1 DEF CallEnds, TypeOK, ExceptionStates
<1>5. last' \in [Exceptions -> AttemptStatus]
  BY DEF CallEnds, TypeOK, AttemptStatus, AttemptResult
<1>6. hands' \subseteq SUBSET {f \in Exceptions : state'[f] = "CALL_PLANNED"}
  <2> SUFFICES ASSUME NEW T \in hands, NEW f \in T
               PROVE  f \in Exceptions /\ state'[f] = "CALL_PLANNED"
    BY <1>1
  <2>1. f \in Exceptions /\ state[f] = "CALL_PLANNED"
    BY DEF TypeOK
  <2>2. f # e
    BY <1>2
  <2> QED BY <1>3, <2>1, <2>2
<1>7. TypeOK'
  BY <1>1, <1>4, <1>5, <1>6 DEF TypeOK, clock
<1>8. HandsInv'
  BY <1>1, <1>2, <1>3 DEF HandsInv
<1>9. Waited'
  BY <1>1 DEF Waited, SomeWaitPassed
<1> QED BY <1>7, <1>8, <1>9

(* Time adds to what has passed. *)
LEMMA TimeKeeps ==
    ASSUME Inv, HourPasses \/ \E e \in Exceptions : FallsDue(e)
    PROVE  Inv'
<1> USE DEF Inv
<1>1. UNCHANGED << quiet, state, count, last, stamped, hands >>
  BY DEF HourPasses, FallsDue
<1>2. hour' \in 0 .. (Day - 1) /\ due' \subseteq Exceptions
  <2>1. CASE HourPasses
    <3>1. hour + 1 \in Nat /\ Day \in Nat \ {0}
      BY ClockAssumption DEF TypeOK
    <3>2. (hour + 1) % Day \in 0 .. (Day - 1)
      BY <3>1
    <3> QED BY <2>1, <3>2 DEF HourPasses, TypeOK
  <2>2. CASE \E e \in Exceptions : FallsDue(e)
    BY <2>2 DEF FallsDue, TypeOK
  <2> QED BY <2>1, <2>2
<1>3. /\ since' \in [Exceptions -> 0 .. LongAgo]
      /\ \A e \in Exceptions : since'[e] >= since[e]
  <2>0. LongAgo \in Nat
    BY BackoffAssumption
  <2>1. CASE HourPasses
    BY <2>0, <2>1 DEF HourPasses, TypeOK
  <2>2. CASE \E e \in Exceptions : FallsDue(e)
    BY <2>0, <2>2 DEF FallsDue, TypeOK
  <2> QED BY <2>1, <2>2
<1>4. TypeOK'
  BY <1>1, <1>2, <1>3 DEF TypeOK
<1>5. HandsInv'
  BY <1>1 DEF HandsInv
<1>6. Waited'
  <2> SUFFICES ASSUME NEW e \in Exceptions, ~stamped[e]
               PROVE  SomeWaitPassed(e)'
    BY <1>1 DEF Waited
  <2>1. since[e] \in Nat /\ since'[e] \in Nat /\ since'[e] >= since[e]
    BY <1>3, BackoffAssumption DEF TypeOK
  <2>2. SomeWaitPassed(e)
    BY DEF Waited
  <2> QED BY <2>1, <2>2, WaitStaysPassed
<1> QED BY <1>4, <1>5, <1>6

(* Every step keeps the invariant. *)
LEMMA NextInv ==
    ASSUME Inv, [Next]_vars
    PROVE  Inv'
<1>1. CASE Scan
  <2>1. Candidates \in SUBSET Exceptions
    BY DEF Candidates, Overdue, Inv, TypeOK
  <2> QED BY <1>1, <2>1, PlanKeeps DEF Scan
<1>2. CASE \E S \in SUBSET Exceptions : Trigger(S)
  BY <1>2, PlanKeeps DEF Trigger
<1>3. CASE \E S \in SUBSET Exceptions : Dispatch(S) \/ CreateFails(S) \/ DispatcherDies(S)
  BY <1>3, DispatchKeeps
<1>4. CASE \E e \in Exceptions, says \in Outcomes : CallEnds(e, says)
  BY <1>4, ResultKeeps
<1>5. CASE HourPasses \/ \E e \in Exceptions : FallsDue(e)
  BY <1>5, TimeKeeps
<1>6. CASE UNCHANGED vars
  BY <1>6 DEF vars, clock, Inv, TypeOK, HandsInv, Waited, SomeWaitPassed
<1> QED BY <1>1, <1>2, <1>3, <1>4, <1>5, <1>6 DEF Next

-----------------------------------------------------------------------------
(***************************************************************************)
(* The theorems.                                                           *)
(***************************************************************************)

LEMMA InvHolds == Spec => []Inv
<1> QED BY InitInv, NextInv, PTL DEF Spec

(* Every column holds what it can hold, and no attempt is ever counted beyond *)
(* max_attempts: attempt_policy.evaluate looks at the count that plan_batch   *)
(* adds to.                                                                  *)
THEOREM TypeCorrect == Spec => []TypeOK
<1>1. Inv => TypeOK
  BY DEF Inv
<1> QED BY <1>1, InvHolds, PTL

(* Only the record of a dispatch makes an attempt DISPATCHED, and its members *)
(* waited before they were planned.                                          *)
LEMMA DispatchedAfterWaiting ==
    ASSUME Inv, [Next]_vars, NEW e \in Exceptions,
           last[e] # "DISPATCHED", last'[e] = "DISPATCHED"
    PROVE  SomeWaitPassed(e)
<1>1. ASSUME NEW S \in SUBSET Exceptions, Plan(S) PROVE FALSE
  BY <1>1 DEF Plan, Inv, TypeOK
<1>2. Candidates \in SUBSET Exceptions
  BY DEF Candidates, Overdue, Inv, TypeOK
<1>3. CASE \E S \in SUBSET Exceptions : Dispatch(S) \/ CreateFails(S) \/ DispatcherDies(S)
  <2>1. PICK S \in SUBSET Exceptions : Dispatch(S)
    BY <1>3 DEF CreateFails, DispatcherDies, Inv, TypeOK
  <2>2. S \in hands /\ e \in S
    BY <2>1 DEF Dispatch, Inv, TypeOK
  <2>3. ~stamped[e]
    BY <2>2 DEF Inv, HandsInv
  <2> QED BY <2>3 DEF Inv, Waited
<1>4. CASE \E f \in Exceptions, says \in Outcomes : CallEnds(f, says)
  BY <1>4 DEF CallEnds, AttemptResult, Inv, TypeOK
<1>5. CASE HourPasses \/ \E f \in Exceptions : FallsDue(f)
  BY <1>5 DEF HourPasses, FallsDue
<1>6. CASE UNCHANGED vars
  BY <1>6 DEF vars
<1> QED BY <1>1, <1>2, <1>3, <1>4, <1>5, <1>6 DEF Next, Scan, Trigger

(* However many attempts fail in between, two recorded dispatches of one       *)
(* supplier are a wait of the schedule apart (models.py 110                    *)
(* backoff_minutes_for, attempt_policy.py 67).                               *)
THEOREM SpacedAlways == Spec => RetriesAreSpaced
<1>1. Inv /\ [Next]_vars =>
        [\A e \in Exceptions :
           last[e] # "DISPATCHED" /\ last'[e] = "DISPATCHED" => SomeWaitPassed(e)]_vars
  BY DispatchedAfterWaiting
<1> QED BY <1>1, InvHolds, PTL DEF Spec, RetriesAreSpaced

(* Who has a number, is within the budget and is not on a call is refused by   *)
(* nothing but time, and time escalates nobody.                              *)
LEMMA OnlyOthersAreRefused ==
    ASSUME NEW e \in Exceptions, e \notin BadContact,
           count[e] < MaxAttempts, count[e] \in Nat, ~IsTerminal(state[e])
    PROVE  ~Refused(e)
<1>1. ~(count[e] >= MaxAttempts)
  BY BudgetAssumption
<1>2. Budget(e) # "HUMAN_REVIEW"
  BY <1>1 DEF Budget
<1>3. Eligible(e) \/ ~NeedsAHuman(Eligibility(e))
  BY DEF Eligible, Eligibility, NeedsAHuman, TemporalRefusals
<1> QED BY <1>2, <1>3 DEF Refused

LEMMA EscalationHasAReason ==
    ASSUME Inv, [Next]_vars, NEW e \in Exceptions,
           e \notin BadContact, count[e] < MaxAttempts,
           last[e] # "DISPATCHED", ~IsTerminal(state[e])
    PROVE  ~IsTerminal(state'[e])
<1>0. ~IsTerminal("CALL_PLANNED") /\ ~IsTerminal("CALLING")
  BY DEF IsTerminal, TerminalStates
<1>1. ASSUME NEW S \in SUBSET Exceptions, Plan(S) PROVE ~IsTerminal(state'[e])
  <2>1. ~Refused(e)
    BY OnlyOthersAreRefused, BudgetAssumption DEF Inv, TypeOK
  <2>2. state'[e] = "CALL_PLANNED" \/ state'[e] = state[e]
    BY <1>1, <2>1 DEF Plan, RefusedIn
  <2> QED BY <1>0, <2>2
<1>2. Candidates \in SUBSET Exceptions
  BY DEF Candidates, Overdue, Inv, TypeOK
<1>3. CASE \E S \in SUBSET Exceptions : Dispatch(S) \/ CreateFails(S) \/ DispatcherDies(S)
  <2>1. state'[e] = "CALLING" \/ state'[e] = state[e]
    BY <1>3 DEF Dispatch, CreateFails, DispatcherDies
  <2> QED BY <1>0, <2>1
<1>4. CASE \E f \in Exceptions, says \in Outcomes : CallEnds(f, says)
  BY <1>4 DEF CallEnds, Inv, TypeOK
<1>5. CASE HourPasses \/ \E f \in Exceptions : FallsDue(f)
  BY <1>5 DEF HourPasses, FallsDue
<1>6. CASE UNCHANGED vars
  BY <1>6 DEF vars
<1> QED BY <1>1, <1>2, <1>3, <1>4, <1>5, <1>6 DEF Next, Scan, Trigger

(* Planning never puts a supplier on a person's queue because it was too early *)
(* to call: eligibility sorts the temporal refusals out, and the attempt       *)
(* policy answers NOOP to a wait (call_orchestrator.py, plan_batch).         *)
THEOREM WaitingStaysQueued == Spec => WaitingIsNotEscalated
<1>1. Inv /\ [Next]_vars =>
        [\A e \in Exceptions :
           /\ e \notin BadContact /\ count[e] < MaxAttempts
           /\ last[e] # "DISPATCHED" /\ ~IsTerminal(state[e])
           => ~IsTerminal(state'[e])]_vars
  BY EscalationHasAReason
<1> QED BY <1>1, InvHolds, PTL DEF Spec, WaitingIsNotEscalated

(* The hours as the code tests them are the hours from start up to end round   *)
(* the clock, whether or not they wrap midnight.                             *)
LEMMA QuietHoursAreTested ==
    ASSUME TypeOK
    PROVE  InQuietHours <=> hour \in QuietHours
<1>1. /\ Day \in Nat \ {0} /\ hour \in 0 .. (Day - 1)
      /\ quiet.start \in 0 .. (Day - 1) /\ quiet.end \in 0 .. (Day - 1)
  BY ClockAssumption DEF TypeOK
<1>2. \A x \in 0 .. (Day - 1) :
        (x + Day - quiet.start) % Day =
          IF x >= quiet.start THEN x - quiet.start ELSE x + Day - quiet.start
  <2> TAKE x \in 0 .. (Day - 1)
  <2>1. CASE x >= quiet.start
    <3> DEFINE y == x - quiet.start
    <3>1. y \in Nat /\ y < Day /\ x + Day - quiet.start = 1 * Day + y
      BY <1>1, <2>1
    <3>2. (1 * Day + y) % Day = y
      BY <1>1, <3>1
    <3> QED BY <2>1, <3>1, <3>2
  <2>2. CASE ~(x >= quiet.start)
    <3> DEFINE y == x + Day - quiet.start
    <3>1. y \in Nat /\ y < Day
      BY <1>1, <2>2
    <3>2. y % Day = y
      BY <1>1, <3>1
    <3> QED BY <2>2, <3>2
  <2> QED BY <2>1, <2>2
<1>3. hour \in QuietHours <=>
        (hour + Day - quiet.start) % Day < (quiet.end + Day - quiet.start) % Day
  BY <1>1 DEF QuietHours
<1> DEFINE from == quiet.start
<1> DEFINE to == quiet.end
<1> DEFINE Turn(x) == IF x >= from THEN x - from ELSE x + Day - from
<1>4. hour \in QuietHours <=> Turn(hour) < Turn(to)
  BY <1>1, <1>2, <1>3
<1>5. Turn(hour) < Turn(to) <=>
        IF from <= to THEN from <= hour /\ hour < to ELSE hour >= from \/ hour < to
  <2> HIDE DEF from, to
  <2>1. from \in 0 .. (Day - 1) /\ to \in 0 .. (Day - 1)
    BY <1>1 DEF from, to
  <2>2. CASE from <= to
    BY <1>1, <2>1, <2>2
  <2>3. CASE ~(from <= to)
    BY <1>1, <2>1, <2>3
  <2> QED BY <2>2, <2>3
<1> QED BY <1>4, <1>5 DEF InQuietHours

LEMMA NobodyPlannedInQuietHours ==
    ASSUME Inv, [Next]_vars, quiet.enforced, hour \in QuietHours
    PROVE  hands' \subseteq hands
<1>1. InQuietHours
  BY QuietHoursAreTested DEF Inv
<1>2. ASSUME NEW S \in SUBSET Exceptions, Plan(S) PROVE hands' \subseteq hands
  <2>1. \A e \in S : ~Ready(e)
    BY <1>1, ReadyMeans
  <2>2. ReadyIn(S) = {}
    BY <2>1 DEF ReadyIn
  <2> QED BY <1>2, <2>2 DEF Plan
<1>3. Candidates \in SUBSET Exceptions
  BY DEF Candidates, Overdue, Inv, TypeOK
<1>4. CASE \E S \in SUBSET Exceptions : Dispatch(S) \/ CreateFails(S) \/ DispatcherDies(S)
  BY <1>4 DEF Dispatch, CreateFails, DispatcherDies
<1>5. CASE \E f \in Exceptions, says \in Outcomes : CallEnds(f, says)
  BY <1>5 DEF CallEnds
<1>6. CASE HourPasses \/ \E f \in Exceptions : FallsDue(f)
  BY <1>6 DEF HourPasses, FallsDue
<1>7. CASE UNCHANGED vars
  BY <1>7 DEF vars
<1> QED BY <1>2, <1>3, <1>4, <1>5, <1>6, <1>7 DEF Next, Scan, Trigger

(* No dispatch is begun in enforced quiet hours, for any day and any start and *)
(* end of them (call_eligibility.py 114 in_quiet_hours).                     *)
THEOREM QuietHoursKeptAlways == Spec => QuietHoursAreKept
<1>1. Inv /\ [Next]_vars =>
        [quiet.enforced /\ hour \in QuietHours => hands' \subseteq hands]_vars
  BY NobodyPlannedInQuietHours
<1> QED BY <1>1, InvHolds, PTL DEF Spec, QuietHoursAreKept
=============================================================================
