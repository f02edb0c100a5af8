------------------------------ MODULE Delivery ------------------------------
(***************************************************************************)
(* How a finished call reaches the database: the webhook receiver, the     *)
(* outbox workers and the reconciliation sweeps, each a transaction made   *)
(* of several statements, over rows that statements lock one at a time.    *)
(*                                                                         *)
(* CallWorkflow takes such a transaction in one or two steps and one       *)
(* message at a time; here it is taken apart, and what a result says is    *)
(* reduced to whether it settles its exceptions or releases them.          *)
(***************************************************************************)
EXTENDS Naturals, FiniteSets

CONSTANTS
  Calls,        \* call tasks of the provider, one batch each
  Exceptions,   \* purchase-order exceptions
  Members,      \* the exceptions of each call
  Results,      \* where each call may leave them
  Events,       \* ids of the provider's terminal events
  About,        \* the call of each event
  Handlers,     \* requests to the webhook endpoint served at a time
  Carriers,     \* bound: the requests that may bring each event
  Drainers,     \* worker processes running drain_outbox
  Sweepers,     \* worker processes running reconcile_stale
  ClaimLimit,   \* messages claimed by one drain
  MaxFaults     \* bound: worker crashes and failed fetches, together

ASSUME MembersAssumption ==
  /\ Members \in [Calls -> (SUBSET Exceptions) \ {{}}]
  /\ Results \in [Calls -> SUBSET {"TERMINAL", "RETRY_PENDING"}]
  /\ About \in [Events -> Calls]
  /\ Carriers \in [Events -> SUBSET Handlers]
ASSUME BoundsAssumption == ClaimLimit \in Nat \ {0} /\ MaxFaults \in Nat
ASSUME WorkersAssumption == Drainers \cap Sweepers = {}
ASSUME NamesAssumption == Calls \cap (Events \cup Exceptions) = {}

Workers == Drainers \cup Sweepers
Nothing == "nothing"
ASSUME NothingAssumption == Nothing \notin Calls \cup Events \cup Exceptions

\* An exception waits for no call yet, is on one, or has its result.
Places == {"PLANNED", "CALLING", "RECONCILING", "RETRY_PENDING", "TERMINAL"}

VARIABLES
  over,      \* the provider: how each call ended, if it did
  status,    \* call_batches: UNKNOWN until the call id is stored
  aged,      \* batches dispatched longer ago than reconciliation_after_seconds
  place,     \* exceptions.state
  msg,       \* webhook_events and outbox rows of each event
  delayed,   \* messages whose available_at has not come
  hand,      \* the receiver's requests
  wk,        \* the workers' open transactions
  faults     \* worker crashes and failed fetches so far

db == << status, place, msg >>
outside == << over, db, aged, delayed, hand, faults >>
vars == << outside, wk >>

(***************************************************************************)
(* A worker's transaction: what is left of its pass, the item in hand, the *)
(* rows that item still has to write, the row it waits for, what it means  *)
(* to write there and whether that row changed since it was read, and what *)
(* it wrote so far.  Nobody else sees `draft`, `closes`, `done` and        *)
(* `failed` before the commit; the rows in `draft` and `closes` are locked *)
(* until then.                                                             *)
(***************************************************************************)
IdleWorker ==
  [pc |-> "idle", todo |-> {}, item |-> Nothing, left |-> {},
   wants |-> Nothing, value |-> Nothing, outdated |-> FALSE,
   draft |-> [e \in Exceptions |-> Nothing], closes |-> {},
   done |-> {}, failed |-> {}]
IdleHandler == [pc |-> "idle", event |-> Nothing]

Init ==
  /\ over = [c \in Calls |-> "running"]
  /\ status = [c \in Calls |-> "UNKNOWN"]
  /\ aged = {}
  /\ place = [e \in Exceptions |-> "PLANNED"]
  /\ msg = [v \in Events |-> "NONE"]
  /\ delayed = {}
  /\ hand = [h \in Handlers |-> IdleHandler]
  /\ wk = [w \in Workers |-> IdleWorker]
  /\ faults = 0

-----------------------------------------------------------------------------
(***************************************************************************)
(* The surroundings: the provider, the dispatcher, time.                   *)
(***************************************************************************)

\* External: a call ends, with results that settle its suppliers or release
\* them to be retried.
EndCall(c) ==
  /\ over[c] = "running"
  /\ \E result \in Results[c] : over' = [over EXCEPT ![c] = result]
  /\ UNCHANGED << db, aged, delayed, hand, wk, faults >>

\* dispatch_batch's second commit: the call id is stored, its members CALLING.
Dispatch(c) ==
  /\ status[c] = "UNKNOWN"
  /\ \A e \in Members[c] : place[e] = "PLANNED"
  /\ status' = [status EXCEPT ![c] = "DISPATCHED"]
  /\ place' = [e \in Exceptions |-> IF e \in Members[c] THEN "CALLING" ELSE place[e]]
  /\ UNCHANGED << over, msg, aged, delayed, hand, wk, faults >>

Age(c) ==
  /\ status[c] # "UNKNOWN" /\ c \notin aged
  /\ aged' = aged \cup {c}
  /\ UNCHANGED << over, db, delayed, hand, wk, faults >>

BackoffElapses(v) ==
  /\ v \in delayed
  /\ delayed' = delayed \ {v}
  /\ UNCHANGED << over, db, aged, hand, wk, faults >>

-----------------------------------------------------------------------------
(***************************************************************************)
(* The webhook receiver.                                                   *)
(***************************************************************************)

\* The provider delivers an event, again if it likes, and the handler looks for
\* its row, of which it sees what is committed.  If there is one the reply is
\* "duplicate", and nothing changes.
Receive(h, v) ==
  /\ h \in Carriers[v]
  /\ hand[h].pc = "idle" /\ over[About[v]] # "running" /\ msg[v] = "NONE"
  /\ hand' = [hand EXCEPT ![h] = [pc |-> "insert", event |-> v]]
  /\ UNCHANGED << over, db, aged, delayed, wk, faults >>

InsertedByOther(h, v) ==
  \E g \in Handlers \ {h} : hand[g] = [pc |-> "commit", event |-> v]

\* Plausible slip: provider_event_id is not unique.
InsertableUnindexed(h, v) == TRUE
\* The unique index refuses an id that is in, and makes an insert of one that
\* is on its way in wait.
Insertable(h, v) == msg[v] = "NONE" /\ ~InsertedByOther(h, v)

\* The event and its message are inserted.
Insert(h) ==
  LET v == hand[h].event IN
  /\ hand[h].pc = "insert" /\ Insertable(h, v)
  /\ hand' = [hand EXCEPT ![h].pc = "commit"]
  /\ UNCHANGED << over, db, aged, delayed, wk, faults >>

\* The other request committed first: IntegrityError, a 500, nothing written.
InsertRefused(h) ==
  /\ hand[h].pc = "insert" /\ msg[hand[h].event] # "NONE"
  /\ hand' = [hand EXCEPT ![h] = IdleHandler]
  /\ UNCHANGED << over, db, aged, delayed, wk, faults >>

\* The reply may leave before this or after, and may be lost: an event that is
\* acknowledged and then not committed is one that is never delivered.
CommitEvent(h) ==
  LET v == hand[h].event IN
  /\ hand[h].pc = "commit"
  /\ msg' = [msg EXCEPT ![v] = "PENDING"]
  /\ hand' = [hand EXCEPT ![h] = IdleHandler]
  /\ UNCHANGED << over, status, place, aged, delayed, wk, faults >>

\* The request dies, or its commit fails: nothing is written.
HandlerCrash(h) ==
  /\ hand[h].pc # "idle"
  /\ hand' = [hand EXCEPT ![h] = IdleHandler]
  /\ UNCHANGED << over, db, aged, delayed, wk, faults >>

-----------------------------------------------------------------------------
(***************************************************************************)
(* Starting a pass, and taking its items one by one.                       *)
(***************************************************************************)

\* The messages a drain has claimed: their rows are locked, and skipped by
\* others.
Claimed(w) ==
  IF w \in Drainers
  THEN wk[w].todo \cup wk[w].done \cup wk[w].failed \cup ({wk[w].item} \ {Nothing})
  ELSE {}

Available ==
  {v \in Events \ delayed : msg[v] = "PENDING" /\ \A w \in Drainers : v \notin Claimed(w)}

\* claim_outbox: as many as are available, up to the limit.
Claim(w) ==
  /\ w \in Drainers /\ wk[w].pc = "idle"
  /\ \E S \in SUBSET Available :
       /\ S # {} /\ Cardinality(S) <= ClaimLimit
       /\ S = Available \/ Cardinality(S) = ClaimLimit
       /\ wk' = [wk EXCEPT ![w].pc = "next", ![w].todo = S]
  /\ UNCHANGED outside

\* Plausible slip: the sweep waits for a webhook too.
OverdueAnnounced ==
  {c \in aged : status[c] = "DISPATCHED" /\ \E v \in Events : About[v] = c /\ msg[v] # "NONE"}
\* stale_calling_batches: every batch that waits too long.
Overdue == {c \in aged : status[c] = "DISPATCHED"}

Sweep(w) ==
  /\ w \in Sweepers /\ wk[w].pc = "idle" /\ Overdue # {}
  /\ wk' = [wk EXCEPT ![w].pc = "next", ![w].todo = Overdue]
  /\ UNCHANGED outside

CallInHand(w) == IF w \in Drainers THEN About[wk[w].item] ELSE wk[w].item

\* The next overdue batch: mark_reconciling comes before the provider is asked.
TakeBatch(w, c) ==
  /\ w \in Sweepers /\ wk[w].pc = "next" /\ c \in wk[w].todo
  /\ wk' = [wk EXCEPT ![w].pc = "fetch", ![w].item = c, ![w].todo = @ \ {c},
                      ![w].left = Members[c]]
  /\ UNCHANGED outside

\* The next message.  If no batch has its call id there is nothing to do, and
\* it counts as delivered.
TakeMessage(w, v) ==
  /\ w \in Drainers /\ wk[w].pc = "next" /\ v \in wk[w].todo
  /\ \/ /\ status[About[v]] = "UNKNOWN"
        /\ wk' = [wk EXCEPT ![w].todo = @ \ {v}, ![w].done = @ \cup {v}]
     \/ /\ status[About[v]] # "UNKNOWN"
        /\ wk' = [wk EXCEPT ![w].todo = @ \ {v}, ![w].pc = "fetch", ![w].item = v]
  /\ UNCHANGED outside

-----------------------------------------------------------------------------
(***************************************************************************)
(* Writing the exceptions' rows: read, compare the version, update.        *)
(***************************************************************************)

\* A worker sees what it wrote itself; everyone else sees what is committed.
PlaceSeen(w, e) == IF wk[w].draft[e] # Nothing THEN wk[w].draft[e] ELSE place[e]

\* Rows written in an open transaction are locked until it ends.
Holds(w) == wk[w].closes \cup {e \in Exceptions : wk[w].draft[e] # Nothing}

LockedByOther(w, r) == \E x \in Workers \ {w} : r \in Holds(x)

\* A lock that comes free goes to a transaction that waits for it: nobody else
\* takes it in between.
TakenByOther(w, r) ==
  LockedByOther(w, r) \/ \E x \in Workers \ {w} : wk[x].wants = r

\* What the phase a worker is in would make of a row, or Nothing.
NewPlace(w, e) ==
  CASE wk[w].pc = "fetch" /\ PlaceSeen(w, e) = "CALLING" -> "RECONCILING"
    [] wk[w].pc = "return" /\ PlaceSeen(w, e) = "RECONCILING" -> "CALLING"
    [] wk[w].pc = "apply" /\ PlaceSeen(w, e) \in {"CALLING", "RECONCILING"} ->
         over[CallInHand(w)]
    [] OTHER -> Nothing

\* A released exception has no edge to another result: InvalidTransition.
Refuses(w, e) == wk[w].pc = "apply" /\ PlaceSeen(w, e) = "RETRY_PENDING"

Writes(w, e) == e \in wk[w].left /\ wk[w].wants = Nothing

PassBy(w, e) ==
  /\ Writes(w, e) /\ NewPlace(w, e) = Nothing /\ ~Refuses(w, e)
  /\ wk' = [wk EXCEPT ![w].left = @ \ {e}]
  /\ UNCHANGED outside

WriteRow(w, e) ==
  /\ Writes(w, e) /\ NewPlace(w, e) # Nothing /\ (e \in Holds(w) \/ ~TakenByOther(w, e))
  /\ wk' = [wk EXCEPT ![w].left = @ \ {e}, ![w].draft[e] = NewPlace(w, e)]
  /\ UNCHANGED outside

\* The UPDATE waits for another transaction's lock, on the version it read.
AwaitRow(w, e) ==
  /\ Writes(w, e) /\ NewPlace(w, e) # Nothing /\ LockedByOther(w, e)
  /\ wk' = [wk EXCEPT ![w].wants = e, ![w].value = NewPlace(w, e)]
  /\ UNCHANGED outside

\* The lock came free, and the row is as it was read.
WriteAwaited(w) ==
  LET e == wk[w].wants IN
  /\ e \in Exceptions /\ ~LockedByOther(w, e) /\ ~wk[w].outdated
  /\ wk' = [wk EXCEPT ![w].wants = Nothing, ![w].value = Nothing,
                      ![w].left = @ \ {e}, ![w].draft[e] = wk[w].value]
  /\ UNCHANGED outside

\* Plausible slip: the item stays in hand.
GaveUpHolding(r, w) ==
  [r EXCEPT !.pc = "next", !.left = {}, !.wants = Nothing, !.value = Nothing, !.outdated = FALSE,
            !.failed = IF w \in Drainers THEN @ \cup {r.item} ELSE @]
\* The item ends in an error its loop expects: a message goes back to PENDING,
\* with a backoff; a sweep leaves the batch to the next one.  What the item
\* wrote before stays.
GaveUp(r, w) ==
  [r EXCEPT !.pc = "next", !.item = Nothing, !.left = {},
            !.wants = Nothing, !.value = Nothing, !.outdated = FALSE,
            !.failed = IF w \in Drainers THEN @ \cup {r.item} ELSE @]

\* The lock came free with a new version: ConcurrencyConflict.  Applying a
\* result swallows it; returning to CALLING gives up the batch in hand; nobody
\* expects it while marking, and the whole pass is rolled back.
Conflict(w) ==
  LET e == wk[w].wants IN
  /\ e \in Exceptions /\ ~LockedByOther(w, e) /\ wk[w].outdated
  /\ \/ /\ wk[w].pc = "apply"
        /\ wk' = [wk EXCEPT ![w].wants = Nothing, ![w].value = Nothing,
                            ![w].outdated = FALSE, ![w].left = @ \ {e}]
     \/ wk[w].pc = "return" /\ wk' = [wk EXCEPT ![w] = GaveUp(@, w)]
     \/ wk[w].pc \notin {"apply", "return"} /\ wk' = [wk EXCEPT ![w] = IdleWorker]
  /\ UNCHANGED outside

-----------------------------------------------------------------------------
(***************************************************************************)
(* The item in hand: fetch, close the batch, apply, go on.                 *)
(***************************************************************************)

\* The marks are made; a message has none to make.
Asks(w) == wk[w].pc = "fetch" /\ wk[w].left = {}

FetchEnded(w) ==
  /\ Asks(w) /\ over[CallInHand(w)] # "running"
  /\ wk' = [wk EXCEPT ![w].pc = "close"]
  /\ UNCHANGED outside

FetchRunning(w) ==
  /\ Asks(w) /\ over[CallInHand(w)] = "running"
  /\ wk' = [wk EXCEPT ![w].pc = "return", ![w].left = Members[CallInHand(w)]]
  /\ UNCHANGED outside

FetchFailed(w) ==
  /\ Asks(w)
  /\ wk' = [wk EXCEPT ![w] = GaveUp(@, w)]
  /\ faults < MaxFaults /\ faults' = faults + 1
  /\ UNCHANGED << over, db, aged, delayed, hand >>

\* persist_call_snapshot, flushed by the query for the attempts.  A batch row
\* has no version: it is written whatever became of it meanwhile.
CloseBatch(w) ==
  LET c == CallInHand(w) IN
  /\ wk[w].pc = "close"
  /\ \/ wk[w].wants = c /\ ~LockedByOther(w, c)
     \/ wk[w].wants = Nothing /\ (c \in Holds(w) \/ ~TakenByOther(w, c))
  /\ wk' = [wk EXCEPT ![w].pc = "apply", ![w].closes = @ \cup {c},
                      ![w].wants = Nothing, ![w].left = Members[c]]
  /\ UNCHANGED outside

AwaitBatch(w) ==
  LET c == CallInHand(w) IN
  /\ wk[w].pc = "close"
  /\ wk[w].wants = Nothing /\ LockedByOther(w, c)
  /\ wk' = [wk EXCEPT ![w].wants = c]
  /\ UNCHANGED outside

\* InvalidTransition ends the item; what it wrote stays.
ApplyRefused(w, e) ==
  /\ Writes(w, e) /\ Refuses(w, e)
  /\ wk' = [wk EXCEPT ![w] = GaveUp(@, w)]
  /\ UNCHANGED outside

\* mark_delivered, or the next batch.
ItemDone(w) ==
  /\ wk[w].pc \in {"apply", "return"} /\ wk[w].left = {}
  /\ wk' = [wk EXCEPT ![w].pc = "next", ![w].item = Nothing,
                      ![w].done = IF w \in Drainers THEN @ \cup {wk[w].item} ELSE @]
  /\ UNCHANGED outside

\* Plausible slip: a batch is closed with its message.
StatusAfterMessage(w, c) ==
  IF \E v \in wk[w].done : About[v] = c THEN "CLOSED" ELSE status[c]
StatusAfter(w, c) == IF c \in wk[w].closes THEN "CLOSED" ELSE status[c]

\* Plausible slip: a message that failed is not tried again.
MessageAfterFailing(w, v) ==
  IF v \in wk[w].done THEN "DELIVERED"
  ELSE IF v \in wk[w].failed THEN "FAILED" ELSE msg[v]
MessageAfter(w, v) == IF v \in wk[w].done THEN "DELIVERED" ELSE msg[v]

\* Plausible slip: the write does not compare the version.
OutdatedUnversioned(w, x) == FALSE
\* A commit changes the version of every row it wrote, under those who wait.
OutdatedAfter(w, x) ==
  wk[x].outdated \/ wk[w].draft[wk[x].wants] # Nothing

\* session_scope commits the whole pass: batches, exceptions and messages.
Commit(w) ==
  /\ wk[w].pc = "next" /\ wk[w].todo = {}
  /\ status' = [c \in Calls |-> StatusAfter(w, c)]
  /\ place' = [e \in Exceptions |-> PlaceSeen(w, e)]
  /\ msg' = [v \in Events |-> MessageAfter(w, v)]
  /\ delayed' = delayed \cup wk[w].failed
  /\ wk' = [x \in Workers |->
              IF x = w THEN IdleWorker
              ELSE IF wk[x].wants \in Exceptions
              THEN [wk[x] EXCEPT !.outdated = OutdatedAfter(w, x)]
              ELSE wk[x]]
  /\ UNCHANGED << over, aged, hand, faults >>

\* The process dies, or an error nobody expects ends its pass: nothing stays.
WorkerCrash(w) ==
  /\ wk[w].pc # "idle"
  /\ wk' = [wk EXCEPT ![w] = IdleWorker]
  /\ faults < MaxFaults /\ faults' = faults + 1
  /\ UNCHANGED << over, db, aged, delayed, hand >>

\* The transactions w waits for.
WaitsFor(w) == {x \in Workers \ {w} : wk[w].wants \in Holds(x)}

InDeadlock(w) ==
  wk[w].wants # Nothing /\ \E x \in WaitsFor(w) : w \in WaitsFor(x)

\* PostgreSQL ends one transaction of a cycle of waits, and only then.
DeadlockAbort(w) ==
  /\ InDeadlock(w)
  /\ wk' = [wk EXCEPT ![w] = IdleWorker]
  /\ UNCHANGED outside

-----------------------------------------------------------------------------
Surroundings ==
  \/ \E c \in Calls : EndCall(c) \/ Dispatch(c) \/ Age(c)
  \/ \E v \in Events : BackoffElapses(v)

HandlerStep(h) ==
  \/ \E v \in Events : Receive(h, v)
  \/ Insert(h) \/ InsertRefused(h) \/ CommitEvent(h) \/ HandlerCrash(h)

RowStep(w, e) ==
  PassBy(w, e) \/ WriteRow(w, e) \/ AwaitRow(w, e) \/ ApplyRefused(w, e)

\* What a worker does when nothing goes wrong.
Progress(w) ==
  \/ Claim(w) \/ Sweep(w)
  \/ \E c \in Calls : TakeBatch(w, c)
  \/ \E v \in Events : TakeMessage(w, v)
  \/ \E e \in Exceptions : RowStep(w, e)
  \/ WriteAwaited(w) \/ Conflict(w)
  \/ FetchEnded(w) \/ FetchRunning(w)
  \/ CloseBatch(w) \/ AwaitBatch(w) \/ ItemDone(w) \/ Commit(w)

Next ==
  \/ Surroundings
  \/ \E h \in Handlers : HandlerStep(h)
  \/ \E w \in Workers :
       Progress(w) \/ FetchFailed(w) \/ WorkerCrash(w) \/ DeadlockAbort(w)

Spec == Init /\ [][Next]_vars

-----------------------------------------------------------------------------
(***************************************************************************)
(* Properties.                                                             *)
(***************************************************************************)

HandlerRecord ==
  [pc : {"idle"}, event : {Nothing}] \cup [pc : {"insert", "commit"}, event : Events]

WorkerRecord(items) ==
  [pc : {"idle", "next", "fetch", "return", "close", "apply"},
   todo : SUBSET items, item : items \cup {Nothing}, left : SUBSET Exceptions,
   wants : Exceptions \cup Calls \cup {Nothing}, value : Places \cup {Nothing},
   outdated : BOOLEAN,
   draft : [Exceptions -> Places \cup {Nothing}], closes : SUBSET Calls,
   done : SUBSET Events, failed : SUBSET Events]

\* Every variable holds what its table or process can hold: no message is ever
\* committed IN_FLIGHT, where claim_outbox would not find it again, and a worker
\* has an item in hand exactly while it works on one.
TypeOK ==
  /\ over \in [Calls -> {"running", "TERMINAL", "RETRY_PENDING"}]
  /\ status \in [Calls -> {"UNKNOWN", "DISPATCHED", "CLOSED"}]
  /\ aged \subseteq Calls
  /\ place \in [Exceptions -> Places]
  /\ msg \in [Events -> {"NONE", "PENDING", "DELIVERED"}]
  /\ delayed \subseteq Events
  /\ hand \in [Handlers -> HandlerRecord]
  /\ DOMAIN wk = Workers
  /\ \A w \in Drainers : wk[w] \in WorkerRecord(Events)
  /\ \A w \in Sweepers : wk[w] \in WorkerRecord(Calls)
  /\ \A w \in Workers : wk[w].item = Nothing <=> wk[w].pc \in {"idle", "next"}
  /\ faults \in 0 .. MaxFaults

Settled == {"RETRY_PENDING", "TERMINAL"}

\* An event is processed once, however its deliveries overlap: a message that was
\* delivered is not pending again (db/repositories.py register_webhook_event and
\* enqueue; README 149: "dedupes on the provider event id").
EventIsProcessedOnce ==
  [][\A v \in Events : msg[v] = "DELIVERED" => msg'[v] = "DELIVERED"]_vars

\* An exception has its result only together with the closed batch of a call
\* that ended that way, whichever pass wrote it, whatever else that pass did and
\* whoever rolled back (db/session.py session_scope; workers/runner.py 3: "a
\* decision and its consequence can never diverge").
ResultsComeWithTheirBatch ==
  \A e \in Exceptions : place[e] \in Settled =>
    \E c \in Calls : e \in Members[c] /\ status[c] = "CLOSED" /\ over[c] = place[e]

\* A worker that waited for a row writes nothing over the result that was
\* committed meanwhile (transition_exception: "never force the write").
SettledIsFinal ==
  [][\A e \in Exceptions : place[e] \in Settled => place'[e] = place[e]]_vars

-----------------------------------------------------------------------------
(***************************************************************************)
(* Liveness.  The loops run for ever; faults are bounded here, so a worker *)
(* that can go on does.  PostgreSQL ends deadlocks.  Calls end, time       *)
(* passes.  Nothing is assumed of the provider's deliveries, of the        *)
(* receiver or of the dispatcher.                                          *)
(***************************************************************************)
Fairness ==
  /\ WF_<< over, aged >>(\E c \in Calls : EndCall(c) \/ Age(c))
  /\ \A v \in Events : WF_delayed(BackoffElapses(v))
  /\ \A w \in Workers : WF_wk(Progress(w) \/ DeadlockAbort(w))

FairSpec == Spec /\ Fairness

\* A sweep locks exceptions before their batch, a drain the batch first.  If both
\* began anew at once each time one of them is rolled back, they could do so to
\* each other for ever; only the pauses between the passes of a loop, which are
\* not modelled, keep them from it.  (No deadlock lasts: one of the two is ended.)
DeadlocksRecur == []<>(\E w \in Workers : InDeadlock(w))

\* A message that another path has overtaken: it released the exceptions for retry,
\* and the result is refused each time it is applied again.
Overtaken(v) ==
  msg[v] = "PENDING" /\ status[About[v]] = "CLOSED" /\ over[About[v]] = "RETRY_PENDING"

Backlog ==
  \/ \E c \in Calls : status[c] = "DISPATCHED"
  \/ \E v \in Events : msg[v] \notin {"NONE", "DELIVERED"} /\ ~Overtaken(v)

\* Every dispatched batch is closed, whether or not its webhook comes (README.md:217
\* "The reconciliation sweep finishes the call."), and every message is delivered
\* or overtaken (workers/runner.py 95: "Never swallowed into a delivered state"),
\* through deadlocks that do not recur for ever, lost locks, conflicts, failed
\* fetches and crashes.  Each happens once, so that of all of them is one formula.
BacklogClears == DeadlocksRecur \/ (Backlog ~> ~Backlog)
=============================================================================
