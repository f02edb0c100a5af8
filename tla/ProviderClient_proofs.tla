------------------------ MODULE ProviderClient_proofs ------------------------
(***************************************************************************)
(* Proofs about ProviderClient, for any processes, batches and settings.    *)
(*                                                                         *)
(* What makes the safety theorems inductive is the link between a create   *)
(* in progress and the row it works for (CreatesInv): a process that is    *)
(* posting or waiting works for a row already marked live whose numbers    *)
(* are listed, and that mark never changes again.                          *)
(***************************************************************************)
EXTENDS ProviderClient, TLAPS

Held(b) == \E r \in placed : r.batch = b

(* Every request carries its batch's one key and belongs to a row that was   *)
(* committed as live before the request left.                               *)
RequestsInv ==
    \A r \in flying \union placed :
        /\ r = [batch |-> r.batch, key |-> 0]
        /\ r.batch \in Listed
        /\ batch[r.batch].isLive = TRUE
        /\ batch[r.batch].status # "new"

(* A create in progress works for a committed row, live or simulated as the  *)
(* row says.                                                                *)
CreateInv(p) ==
    work[p].stage # "idle" =>
        /\ work[p].batch \in Batches
        /\ batch[work[p].batch].status # "new"
        /\ work[p].stage \in {"posting", "waiting"} =>
               batch[work[p].batch].isLive = TRUE /\ work[p].batch \in Listed
        /\ work[p].stage = "simulating" => batch[work[p].batch].isLive = FALSE
        /\ work[p].stage = "created" =>
               batch[work[p].batch].isLive = FALSE \/ Held(work[p].batch)

CreatesInv == \A p \in Processes : CreateInv(p)

DispatchedInv ==
    \A b \in Batches :
        batch[b].isLive = TRUE /\ batch[b].status = "DISPATCHED" => Held(b)

(* The parts of the types the argument needs. *)
Creates ==
    [stage : {"idle", "simulating", "posting", "waiting", "created", "failing"},
     batch : Batches \union {None},
     tries : Nat,
     heard : Answers \union {"none"}]

Shape ==
    /\ batch \in [Batches -> BatchRows]
    /\ work \in [Processes -> Creates]

Inv == Shape /\ RequestsInv /\ CreatesInv /\ DispatchedInv

-----------------------------------------------------------------------------
(* A fresh system satisfies the invariant. *)
LEMMA InitInv == Init => Inv
<1> SUFFICES ASSUME Init PROVE Inv
  OBVIOUS
<1>1. Idle \in Creates
  BY DEF Idle, Creates
<1>2. [status |-> "new", isLive |-> FALSE, stored |-> FALSE] \in BatchRows
  BY DEF BatchRows
<1>3. Shape
  BY <1>1, <1>2 DEF Init, Shape
<1>4. RequestsInv /\ CreatesInv /\ DispatchedInv
  BY DEF Init, Idle, RequestsInv, CreatesInv, CreateInv, DispatchedInv
<1> QED BY <1>3, <1>4 DEF Inv

(* Beginning a batch commits the row and marks it before anything is sent. *)
LEMMA BeginInv ==
    ASSUME Inv, NEW p \in Processes, NEW b \in Batches, Begin(p, b)
    PROVE  Inv'
<1> DEFINE row == [status |-> "PENDING", isLive |-> MarkedLive(settings[p], b),
                   stored |-> FALSE]
           create == [stage |-> IF GoesLive(settings[p], b) THEN "posting"
                                ELSE "simulating",
                      batch |-> b, tries |-> 0, heard |-> "none"]
<1>1. MarkedLive(settings[p], b) \in BOOLEAN
  BY DEF MarkedLive, GoesLive
<1>2. row \in BatchRows
  BY <1>1 DEF BatchRows
<1>3. create \in Creates
  BY DEF Creates
<1>4. Shape'
  BY <1>2, <1>3 DEF Inv, Shape, Begin
<1>5. RequestsInv'
  BY ClientAssumption DEF Inv, Shape, RequestsInv, Begin
<1>6. CreatesInv'
  <2> SUFFICES ASSUME NEW q \in Processes PROVE CreateInv(q)'
    BY DEF CreatesInv
  <2>1. CASE q = p
    BY <2>1 DEF Inv, Shape, Begin, CreateInv, MarkedLive, GoesLive
  <2>2. CASE q # p
    BY <2>2 DEF Inv, Shape, Begin, CreatesInv, CreateInv, Held
  <2> QED BY <2>1, <2>2
<1>7. DispatchedInv'
  BY DEF Inv, Shape, Begin, DispatchedInv, Held
<1> QED BY <1>4, <1>5, <1>6, <1>7 DEF Inv

(* A step of a create leaves the rows alone; it preserves the invariant when *)
(* it loses no placed call and its own create still matches its row.        *)
LEMMA CreateStepInv ==
    ASSUME Inv, NEW p \in Processes,
           batch' = batch, placed \subseteq placed',
           work' \in [Processes -> Creates],
           \A q \in Processes \ {p} : work'[q] = work[q],
           RequestsInv', CreateInv(p)'
    PROVE  Inv'
<1>1. CreatesInv'
  <2> SUFFICES ASSUME NEW q \in Processes, q # p PROVE CreateInv(q)'
    BY DEF CreatesInv
  <2> QED BY DEF Inv, CreatesInv, CreateInv, Held
<1>2. DispatchedInv'
  BY DEF Inv, DispatchedInv, Held
<1> QED BY <1>1, <1>2 DEF Inv, Shape

(* The simulator answers for a row marked as not live. *)
LEMMA SimulateInv ==
    ASSUME Inv, NEW p \in Processes, Simulate(p)
    PROVE  Inv'
<1>1. work' \in [Processes -> Creates]
  BY DEF Inv, Shape, Simulate, Creates
<1>2. CreateInv(p)'
  BY DEF Inv, Shape, Creates, Simulate, CreatesInv, CreateInv
<1>3. RequestsInv'
  BY DEF Inv, Simulate, RequestsInv
<1> QED BY <1>1, <1>2, <1>3, CreateStepInv DEF Inv, Shape, Simulate

(* Every request that leaves carries the batch's key. *)
LEMMA PostInv ==
    ASSUME Inv, NEW p \in Processes, Post(p)
    PROVE  Inv'
<1> DEFINE create == [stage |-> "waiting", batch |-> work[p].batch,
                      tries |-> work[p].tries + 1, heard |-> "none"]
<1>1. work' = [work EXCEPT ![p] = create]
  BY DEF Post
<1>2. work' \in [Processes -> Creates]
  BY <1>1 DEF Inv, Shape, Creates
<1>3. RequestsInv'
  BY DEF Inv, Shape, Post, CreatesInv, CreateInv, RequestsInv, Request
<1>4. CreateInv(p)'
  BY <1>1 DEF Inv, Shape, Creates, Post, CreatesInv, CreateInv
<1> QED BY <1>1, <1>2, <1>3, <1>4, CreateStepInv DEF Inv, Shape, Post

(* A create ends as created only when the provider holds its call. *)
LEMMA AnswerInv ==
    ASSUME Inv, NEW p \in Processes, NEW answer \in Answers, Answer(p, answer)
    PROVE  Inv'
<1> DEFINE again == Retried(settings[p], answer) /\ TriesLeft(work[p].tries)
           next  == IF answer = "created" THEN "created"
                    ELSE IF again THEN "posting"
                    ELSE IF Escapes(settings[p], answer) THEN "idle"
                    ELSE "failing"
<1>1. next \in {"created", "posting", "idle", "failing"}
  OBVIOUS
<1>2. next = "created" => Held(work[p].batch)
  BY DEF Answer, Held, Answers
<1>3. work' = [work EXCEPT ![p] = [stage |-> next, batch |-> work[p].batch,
                                   tries |-> work[p].tries, heard |-> answer]]
  BY DEF Answer
<1> HIDE DEF next
<1>4. CreateInv(p)'
  BY <1>1, <1>2, <1>3 DEF Inv, Shape, Answer, CreatesInv, CreateInv, Held
<1>5. RequestsInv'
  BY DEF Inv, Answer, RequestsInv
<1>6. work' \in [Processes -> Creates]
  BY <1>1, <1>3 DEF Inv, Shape, Creates
<1> QED BY <1>3, <1>4, <1>5, <1>6, CreateStepInv DEF Inv, Shape, Answer

(* Recording a failure changes no mark. *)
LEMMA RecordFailureInv ==
    ASSUME Inv, NEW p \in Processes, RecordFailure(p)
    PROVE  Inv'
<1>1. work[p].batch \in Batches
  BY DEF Inv, RecordFailure, CreatesInv, CreateInv
<1> DEFINE row == [batch[work[p].batch] EXCEPT !.status = "FAILED"]
<1>2. row \in BatchRows
  BY <1>1, Zenon DEF Inv, Shape, BatchRows
<1>3. batch' = [batch EXCEPT ![work[p].batch] = row]
  BY DEF RecordFailure
<1>4. work' \in [Processes -> Creates]
  BY DEF Inv, Shape, RecordFailure, Creates
<1> HIDE DEF row
<1>5. Shape'
  BY <1>1, <1>2, <1>3, <1>4 DEF Inv, Shape
<1>6. RequestsInv'
  BY <1>1, ClientAssumption DEF Inv, Shape, RecordFailure, RequestsInv, BatchRows
<1>7. CreatesInv'
  BY <1>1 DEF Inv, Shape, RecordFailure, CreatesInv, CreateInv, Held, BatchRows
<1>8. DispatchedInv'
  BY <1>1 DEF Inv, Shape, RecordFailure, DispatchedInv, Held, BatchRows
<1> QED BY <1>5, <1>6, <1>7, <1>8 DEF Inv

(* A row is recorded as dispatched only with its call in hand. *)
LEMMA RecordCallInv ==
    ASSUME Inv, NEW p \in Processes, RecordCall(p)
    PROVE  Inv'
<1>1. work[p].batch \in Batches
  BY DEF Inv, RecordCall, CreatesInv, CreateInv
<1> DEFINE old == batch[work[p].batch]
           row == [status |-> "DISPATCHED", isLive |-> old.isLive,
                   stored |-> Snapshot(old)]
<1>2. Snapshot(old) \in BOOLEAN
  BY DEF Snapshot
<1>3. old.isLive \in BOOLEAN
  BY <1>1, Zenon DEF Inv, Shape, BatchRows
<1>4. row \in BatchRows
  BY <1>2, <1>3, Zenon DEF BatchRows
<1>5. batch' = [batch EXCEPT ![work[p].batch] = row]
  BY DEF RecordCall
<1>6. work' \in [Processes -> Creates]
  BY DEF Inv, Shape, RecordCall, Creates
<1> HIDE DEF row
<1>7. Shape'
  BY <1>1, <1>4, <1>5, <1>6 DEF Inv, Shape
<1>8. RequestsInv'
  BY <1>1, ClientAssumption DEF Inv, Shape, RecordCall, RequestsInv, BatchRows
<1>9. CreatesInv'
  BY <1>1 DEF Inv, Shape, RecordCall, CreatesInv, CreateInv, Held, BatchRows
<1>10. DispatchedInv'
  BY <1>1 DEF Inv, Shape, RecordCall, DispatchedInv, CreatesInv, CreateInv,
              Held, BatchRows
<1> QED BY <1>7, <1>8, <1>9, <1>10 DEF Inv

(* A restart forgets the create in progress and nothing that was committed. *)
LEMMA RestartInv ==
    ASSUME Inv, NEW p \in Processes, NEW s \in Settings, Restart(p, s)
    PROVE  Inv'
<1>1. Idle \in Creates
  BY DEF Idle, Creates
<1>2. work' \in [Processes -> Creates]
  BY <1>1 DEF Inv, Shape, Restart
<1>3. CreateInv(p)'
  BY DEF Inv, Shape, Restart, Idle, CreateInv
<1>4. RequestsInv'
  BY DEF Inv, Restart, RequestsInv
<1> QED BY <1>2, <1>3, <1>4, CreateStepInv DEF Inv, Shape, Restart

(* A delivery moves a request from one set to the other. *)
LEMMA DeliverInv ==
    ASSUME Inv, NEW r \in flying, Deliver(r)
    PROVE  Inv'
BY DEF Inv, Shape, Deliver, RequestsInv, CreatesInv, CreateInv, DispatchedInv,
       Held

(* Every step preserves the invariant. *)
LEMMA NextInv == Inv /\ [Next]_vars => Inv'
<1> SUFFICES ASSUME Inv, [Next]_vars PROVE Inv'
  OBVIOUS
<1>1. ASSUME NEW p \in Processes, NEW b \in Batches, Begin(p, b) PROVE Inv'
  BY <1>1, BeginInv
<1>2. ASSUME NEW p \in Processes, NEW b \in Batches, Reconcile(p, b) PROVE Inv'
  BY <1>2 DEF Reconcile, Inv, Shape, RequestsInv, CreatesInv, CreateInv,
              DispatchedInv, Held
<1>3. ASSUME NEW p \in Processes, Simulate(p) PROVE Inv'
  BY <1>3, SimulateInv
<1>4. ASSUME NEW p \in Processes, Post(p) PROVE Inv'
  BY <1>4, PostInv
<1>5. ASSUME NEW p \in Processes, NEW a \in Answers, Answer(p, a) PROVE Inv'
  BY <1>5, AnswerInv
<1>6. ASSUME NEW p \in Processes, RecordFailure(p) PROVE Inv'
  BY <1>6, RecordFailureInv
<1>7. ASSUME NEW p \in Processes, RecordCall(p) PROVE Inv'
  BY <1>7, RecordCallInv
<1>8. ASSUME NEW p \in Processes, NEW s \in Settings, Restart(p, s) PROVE Inv'
  BY <1>8, RestartInv
<1>9. ASSUME NEW r \in flying, Deliver(r) PROVE Inv'
  BY <1>9, DeliverInv
<1>10. CASE UNCHANGED vars
  BY <1>10 DEF vars, Inv, Shape, RequestsInv, CreatesInv, CreateInv,
               DispatchedInv, Held
<1> QED BY <1>1, <1>2, <1>3, <1>4, <1>5, <1>6, <1>7, <1>8, <1>9, <1>10
        DEF Next, ProcessStep

(* The invariant holds in every reachable state. *)
LEMMA AlwaysInv == Spec => []Inv
<1> QED BY InitInv, NextInv, PTL DEF Spec

-----------------------------------------------------------------------------
(* However many processes, retries, restarts and late deliveries, the        *)
(* provider holds at most one call per batch (the one key of create_call).   *)
THEOREM OneCallPerBatchAlways == Spec => []OneCallPerBatch
<1>1. Inv => OneCallPerBatch
  BY DEF Inv, RequestsInv, OneCallPerBatch
<1> QED BY <1>1, AlwaysInv, PTL

(* Under any settings and any changes of them, no number outside the         *)
(* allowlist is dialled (the interlock of select_provider).                  *)
THEOREM OnlyListedIsDialledAlways == Spec => []OnlyListedIsDialled
<1>1. Inv => OnlyListedIsDialled
  BY DEF Inv, RequestsInv, OnlyListedIsDialled
<1> QED BY <1>1, AlwaysInv, PTL

(* What the is_live column says of a batch is true of the world: every       *)
(* dialled batch is marked live and every dispatched live batch has a call.  *)
THEOREM IsLiveIsTruthfulAlways == Spec => []IsLiveIsTruthful
<1>1. Inv => IsLiveIsTruthful
  BY DEF Inv, Shape, BatchRows, RequestsInv, DispatchedInv, Held,
         IsLiveIsTruthful
<1> QED BY <1>1, AlwaysInv, PTL

-----------------------------------------------------------------------------
(* What a reconciliation relies on: a dispatched simulated batch has its     *)
(* payload on the row, and a batch once asked about keeps its mark.          *)
StoredInv ==
    \A b \in Batches :
        batch[b].isLive = FALSE /\ batch[b].status = "DISPATCHED" =>
            batch[b].stored = TRUE

AskedInv ==
    asked # None =>
        /\ asked.batch \in Batches
        /\ batch[asked.batch].status # "new"
        /\ asked.whom # "unconfigured" => asked.knew
        /\ asked.whom \in {"calle", "unconfigured"} <=>
               batch[asked.batch].isLive = TRUE

OwnerInv == StoredInv /\ AskedInv

(* A step that changes no row and asks nobody leaves both as they are. *)
LEMMA OwnerKept ==
    ASSUME OwnerInv, UNCHANGED <<batch, asked>>
    PROVE  OwnerInv'
BY DEF OwnerInv, StoredInv, AskedInv

(* Only a new row is marked, and nobody has asked about a new row. *)
LEMMA BeginOwner ==
    ASSUME Inv, OwnerInv, NEW p \in Processes, NEW b \in Batches, Begin(p, b)
    PROVE  OwnerInv'
BY DEF Inv, Shape, OwnerInv, StoredInv, AskedInv, Begin

(* The second commit keeps the mark and, of a simulated call, the payload. *)
LEMMA RecordOwner ==
    ASSUME Inv, OwnerInv, NEW p \in Processes, RecordFailure(p) \/ RecordCall(p)
    PROVE  OwnerInv'
<1>1. work[p].batch \in Batches
  BY DEF Inv, RecordFailure, RecordCall, CreatesInv, CreateInv
<1>2. CASE RecordFailure(p)
  BY <1>1, <1>2 DEF Inv, Shape, BatchRows, OwnerInv, StoredInv, AskedInv,
                    RecordFailure
<1>3. CASE RecordCall(p)
  BY <1>1, <1>3 DEF Inv, Shape, BatchRows, OwnerInv, StoredInv, AskedInv,
                    RecordCall, Snapshot
<1> QED BY <1>2, <1>3

(* The one asked is the one the row's mark names, and he holds the call. *)
LEMMA ReconcileOwner ==
    ASSUME Inv, OwnerInv, NEW p \in Processes, NEW b \in Batches,
           Reconcile(p, b)
    PROVE  OwnerInv'
<1> DEFINE whom == ProviderFor(p, b)
<1>1. asked' = [batch |-> b, whom |-> whom, knew |-> Knows(p, whom, b)]
  BY DEF Reconcile
<1>2. batch[b].isLive \in BOOLEAN /\ batch[b].status = "DISPATCHED"
  BY DEF Inv, Shape, BatchRows, Reconcile
<1>3. whom \in {"calle", "unconfigured"} <=> batch[b].isLive = TRUE
  BY <1>2 DEF ProviderFor
<1>4. whom # "unconfigured" => Knows(p, whom, b)
  <2>1. CASE batch[b].isLive = TRUE
    BY <1>2, <2>1 DEF Inv, DispatchedInv, Held, ProviderFor, Knows
  <2>2. CASE batch[b].isLive = FALSE
    BY <1>2, <2>2 DEF OwnerInv, StoredInv, ProviderFor, Knows
  <2> QED BY <1>2, <2>1, <2>2
<1> HIDE DEF whom
<1>5. AskedInv'
  BY <1>1, <1>2, <1>3, <1>4 DEF AskedInv, Reconcile
<1>6. StoredInv'
  BY DEF OwnerInv, StoredInv, Reconcile
<1> QED BY <1>5, <1>6 DEF OwnerInv

(* Every step preserves the invariant of reconciliations. *)
LEMMA NextOwner == Inv /\ OwnerInv /\ [Next]_vars => OwnerInv'
<1> SUFFICES ASSUME Inv, OwnerInv, [Next]_vars PROVE OwnerInv'
  OBVIOUS
<1>1. ASSUME NEW p \in Processes, NEW b \in Batches, Begin(p, b) PROVE OwnerInv'
  BY <1>1, BeginOwner
<1>2. ASSUME NEW p \in Processes, NEW b \in Batches, Reconcile(p, b)
      PROVE  OwnerInv'
  BY <1>2, ReconcileOwner
<1>3. ASSUME NEW p \in Processes, RecordFailure(p) \/ RecordCall(p)
      PROVE  OwnerInv'
  BY <1>3, RecordOwner
<1>4. ASSUME NEW p \in Processes,
             \/ Simulate(p) \/ Post(p)
             \/ \E a \in Answers : Answer(p, a)
             \/ \E s \in Settings : Restart(p, s)
      PROVE  OwnerInv'
  BY <1>4, OwnerKept DEF Simulate, Post, Answer, Restart
<1>5. ASSUME NEW r \in flying, Deliver(r) PROVE OwnerInv'
  BY <1>5, OwnerKept DEF Deliver
<1>6. CASE UNCHANGED vars
  BY <1>6, OwnerKept DEF vars
<1> QED BY <1>1, <1>2, <1>3, <1>4, <1>5, <1>6 DEF Next, ProcessStep

(* Whatever restarts and changes of settings came between a dispatch and a   *)
(* reconciliation, the one asked holds the call (_provider_for).             *)
THEOREM OwnerIsAskedAlways == Spec => []OwnerIsAsked
<1>1. Init => OwnerInv
  BY DEF Init, OwnerInv, StoredInv, AskedInv
<1>2. Inv /\ OwnerInv => OwnerIsAsked
  BY DEF Inv, Shape, BatchRows, OwnerInv, AskedInv, OwnerIsAsked
<1> QED BY <1>1, <1>2, NextOwner, AlwaysInv, PTL DEF Spec

(* No step of any process posts a create again after a definite refusal      *)
(* (_unwrap and the except clause of create_call).                           *)
THEOREM DefiniteErrorsAreFinal == Spec => DefiniteErrorsEndTheCreate
<1> DEFINE Ends == \A p \in Processes :
                       work[p].stage = "waiting" /\ work'[p].heard \in Definite =>
                           work'[p].stage # "posting"
<1>1. Inv /\ [Next]_vars => [Ends]_vars
  <2> SUFFICES ASSUME Inv, Next, NEW p \in Processes,
                      work[p].stage = "waiting", work'[p].heard \in Definite
               PROVE  work'[p].stage # "posting"
    OBVIOUS
  <2>1. ASSUME NEW q \in Processes, q # p, ProcessStep(q)
        PROVE  work'[p] = work[p]
    BY <2>1 DEF ProcessStep, Begin, Reconcile, Simulate, Post, Answer,
                RecordFailure, RecordCall, Restart, Inv, Shape
  <2>2. ASSUME NEW answer \in Answers, Answer(p, answer)
        PROVE  work'[p].stage # "posting"
    BY <2>2 DEF Answer, Retried, Definite, Inv, Shape
  <2>3. ASSUME ProcessStep(p) PROVE work'[p].stage # "posting"
    BY <2>2, <2>3 DEF ProcessStep, Begin, Reconcile, Simulate, Post,
                      RecordFailure, RecordCall, Restart, Idle, Inv, Shape
  <2>4. ASSUME NEW r \in flying, Deliver(r) PROVE work'[p] = work[p]
    BY <2>4 DEF Deliver
  <2> QED BY <2>1, <2>3, <2>4 DEF Next
<1> QED BY <1>1, AlwaysInv, PTL DEF Spec, DefiniteErrorsEndTheCreate

-----------------------------------------------------------------------------
(* A create that is about to send has a try left; the rest of the types.     *)
TriesInv ==
    \A p \in Processes :
        /\ work[p].tries <= MaxCreateAttempts
        /\ work[p].stage = "posting" => work[p].tries < MaxCreateAttempts

Askings == [batch : Batches, knew : BOOLEAN,
            whom : {"calle", "unconfigured", "mock", "stored"}]

TypesInv ==
    /\ settings \in [Processes -> Settings]
    /\ TriesInv
    /\ mocked \in [Processes -> SUBSET Batches]
    /\ asked = None \/ asked \in Askings
    /\ restarts \in 0 .. MaxRestarts

(* A new create has all its tries. *)
LEMMA BeginTypes ==
    ASSUME Inv, TypesInv, NEW p \in Processes, NEW b \in Batches, Begin(p, b)
    PROVE  TypesInv'
<1>1. MaxCreateAttempts \in Nat \ {0}
  BY ClientAssumption
<1>2. TriesInv'
  BY <1>1 DEF Inv, Shape, TypesInv, TriesInv, Begin
<1> QED BY <1>2 DEF TypesInv, Begin

(* A try is used when the request leaves. *)
LEMMA PostTypes ==
    ASSUME Inv, TypesInv, NEW p \in Processes, Post(p)
    PROVE  TypesInv'
<1>1. MaxCreateAttempts \in Nat \ {0}
  BY ClientAssumption
<1>2. \A q \in Processes : work[q].tries \in Nat
  BY DEF Inv, Shape, Creates
<1>3. TriesInv'
  BY <1>1, <1>2 DEF Inv, Shape, TypesInv, TriesInv, Post
<1> QED BY <1>3 DEF TypesInv, Post

(* The create is sent again only while tries are left. *)
LEMMA AnswerTypes ==
    ASSUME Inv, TypesInv, NEW p \in Processes, NEW answer \in Answers,
           Answer(p, answer)
    PROVE  TypesInv'
<1> DEFINE again == Retried(settings[p], answer) /\ TriesLeft(work[p].tries)
           next  == IF answer = "created" THEN "created"
                    ELSE IF again THEN "posting"
                    ELSE IF Escapes(settings[p], answer) THEN "idle"
                    ELSE "failing"
<1>1. work' = [work EXCEPT ![p] = [stage |-> next, batch |-> work[p].batch,
                                   tries |-> work[p].tries, heard |-> answer]]
  BY DEF Answer
<1>2. next = "posting" => work[p].tries < MaxCreateAttempts
  BY DEF TriesLeft
<1> HIDE DEF next
<1>3. TriesInv'
  BY <1>1, <1>2 DEF Inv, Shape, TypesInv, TriesInv
<1> QED BY <1>3 DEF TypesInv, Answer

(* The steps that end a create leave its tries alone. *)
LEMMA RecordTypes ==
    ASSUME Inv, TypesInv, NEW p \in Processes,
           RecordFailure(p) \/ RecordCall(p)
    PROVE  TypesInv'
<1>1. work' = [work EXCEPT ![p].stage = "idle"]
  BY DEF RecordFailure, RecordCall
<1>2. \A q \in Processes :
        work'[q].tries = work[q].tries /\ (work'[q].stage = "posting" => q # p)
  BY <1>1 DEF Inv, Shape, Creates
<1>3. TriesInv'
  BY <1>1, <1>2 DEF Inv, Shape, TypesInv, TriesInv
<1> QED BY <1>3 DEF TypesInv, RecordFailure, RecordCall

(* The simulator holds batches, and keeps the tries. *)
LEMMA SimulateTypes ==
    ASSUME Inv, TypesInv, NEW p \in Processes, Simulate(p)
    PROVE  TypesInv'
<1>1. work[p].batch \in Batches
  BY DEF Inv, Simulate, CreatesInv, CreateInv
<1>2. work' = [work EXCEPT ![p].stage = "created"]
  BY DEF Simulate
<1>3. \A q \in Processes :
        work'[q].tries = work[q].tries /\ (work'[q].stage = "posting" => q # p)
  BY <1>2 DEF Inv, Shape, Creates
<1>4. TriesInv'
  BY <1>2, <1>3 DEF Inv, Shape, TypesInv, TriesInv
<1>5. mocked' \in [Processes -> SUBSET Batches]
  BY <1>1 DEF TypesInv, Simulate
<1> QED BY <1>4, <1>5 DEF TypesInv, Simulate

(* A restart gives the process an idle create and settings of the day. *)
LEMMA RestartTypes ==
    ASSUME Inv, TypesInv, NEW p \in Processes, NEW s \in Settings, Restart(p, s)
    PROVE  TypesInv'
<1>1. MaxCreateAttempts \in Nat \ {0} /\ MaxRestarts \in Nat
  BY ClientAssumption
<1>2. TriesInv'
  BY <1>1 DEF Inv, Shape, TypesInv, TriesInv, Restart, Idle
<1>3. settings' \in [Processes -> Settings] /\ restarts' \in 0 .. MaxRestarts
  BY <1>1 DEF TypesInv, Restart
<1>4. mocked' \in [Processes -> SUBSET Batches]
  BY DEF TypesInv, Restart
<1> QED BY <1>2, <1>3, <1>4 DEF TypesInv, Restart

(* Asking finds one of the four, who knows the call or does not. *)
LEMMA ReconcileTypes ==
    ASSUME TypesInv, NEW p \in Processes, NEW b \in Batches, Reconcile(p, b)
    PROVE  TypesInv'
<1>1. ProviderFor(p, b) \in {"calle", "unconfigured", "mock", "stored"}
  BY DEF ProviderFor
<1>2. Knows(p, ProviderFor(p, b), b) \in BOOLEAN
  BY DEF Knows
<1>3. asked' \in Askings
  BY <1>1, <1>2 DEF Reconcile, Askings
<1>4. TriesInv'
  BY DEF TypesInv, TriesInv, Reconcile
<1> QED BY <1>3, <1>4 DEF TypesInv, Reconcile

(* Every step preserves the types. *)
LEMMA NextTypes == Inv /\ TypesInv /\ [Next]_vars => TypesInv'
<1> SUFFICES ASSUME Inv, TypesInv, [Next]_vars PROVE TypesInv'
  OBVIOUS
<1>1. ASSUME NEW p \in Processes, ProcessStep(p) PROVE TypesInv'
  <2>1. ASSUME NEW b \in Batches, Begin(p, b) \/ Reconcile(p, b) PROVE TypesInv'
    BY <2>1, BeginTypes, ReconcileTypes
  <2>2. ASSUME NEW a \in Answers, Answer(p, a) PROVE TypesInv'
    BY <2>2, AnswerTypes
  <2>3. ASSUME NEW s \in Settings, Restart(p, s) PROVE TypesInv'
    BY <2>3, RestartTypes
  <2> QED BY <1>1, <2>1, <2>2, <2>3, SimulateTypes, PostTypes, RecordTypes
          DEF ProcessStep
<1>2. ASSUME NEW r \in flying, Deliver(r) PROVE TypesInv'
  BY <1>2 DEF TypesInv, TriesInv, Deliver
<1>3. CASE UNCHANGED vars
  BY <1>3 DEF vars, TypesInv, TriesInv
<1> QED BY <1>1, <1>2, <1>3 DEF Next

(* Every variable keeps its type; a create sends at most MaxCreateAttempts   *)
(* requests, whatever answers and restarts meet it (the loop of create_call). *)
THEOREM TypeCorrect == Spec => []TypeOK
<1>1. Init => TypesInv
  <2> SUFFICES ASSUME Init PROVE TypesInv
    OBVIOUS
  <2>1. TriesInv
    BY ClientAssumption DEF Init, Idle, TriesInv
  <2> QED BY <2>1, ClientAssumption DEF Init, TypesInv
<1>2. Inv /\ TypesInv => TypeOK
  <2> SUFFICES ASSUME Inv, TypesInv PROVE TypeOK
    OBVIOUS
  <2>1. work \in [Processes ->
           [stage : {"idle", "simulating", "posting", "waiting", "created",
                     "failing"},
            batch : Batches \union {None},
            tries : 0 .. MaxCreateAttempts,
            heard : Answers \union {"none"}]]
    BY ClientAssumption DEF Inv, Shape, Creates, TypesInv, TriesInv
  <2>2. \A r \in flying \union placed : r.batch \in Batches
    BY ClientAssumption DEF Inv, RequestsInv
  <2> QED BY <2>1, <2>2 DEF TypeOK, Inv, Shape, TypesInv, Askings
<1> QED BY <1>1, <1>2, NextTypes, AlwaysInv, InitInv, NextInv, PTL DEF Spec
=============================================================================
