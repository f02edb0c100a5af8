--------------------------- MODULE Delivery_proofs ---------------------------
(***************************************************************************)
(* Proofs about Delivery, for any calls, batches, events, receivers and    *)
(* workers.                                                                *)
(*                                                                         *)
(* What a worker may commit depends on what it read, which other workers   *)
(* may have changed since.  OwnInv says what an open transaction knows:    *)
(* that its results are those of calls it closes, and that a row it wrote, *)
(* or waits for without having missed a commit, is not settled.  OneWriter *)
(* is why nobody can settle a row under the hand of another.               *)
(***************************************************************************)
EXTENDS Delivery, TLAPS

(* What a worker may take items from. *)
Items(w) == IF w \in Drainers THEN Events ELSE Calls

(* The item in hand: its call has ended before its results are written, and  *)
(* its batch is closed before.  A row that is waited for is one of them.     *)
ItemInv(w) ==
    /\ wk[w].pc \in {"idle", "next"} => wk[w].left = {}
    /\ wk[w].pc \in {"close", "apply"} => over[CallInHand(w)] # "running"
    /\ wk[w].pc = "apply" =>
          CallInHand(w) \in wk[w].closes /\ wk[w].left \subseteq Members[CallInHand(w)]
    /\ wk[w].wants \in Exceptions =>
          /\ wk[w].wants \in wk[w].left
          /\ wk[w].value \in Settled =>
                wk[w].pc = "apply" /\ wk[w].value = over[CallInHand(w)]

(* Results in a draft are those of a call that is closed with them. *)
DraftInv(w) ==
    \A e \in Exceptions : wk[w].draft[e] \in Settled =>
        \E c \in wk[w].closes : e \in Members[c] /\ over[c] = wk[w].draft[e]

(* No settled row is in a draft, nor waited for on a version that still holds. *)
UnsettledInv(w) ==
    /\ \A e \in Exceptions : wk[w].draft[e] # Nothing => place[e] \notin Settled
    /\ wk[w].wants \in Exceptions /\ ~wk[w].outdated => place[wk[w].wants] \notin Settled

(* Claimed messages exist, and only drains deliver them. *)
ClaimInv(w) ==
    /\ \A v \in Claimed(w) : msg[v] # "NONE"
    /\ w \notin Drainers => wk[w].done = {}

OwnInv == \A w \in Workers : ItemInv(w) /\ DraftInv(w) /\ UnsettledInv(w) /\ ClaimInv(w)

(* A row lock has one holder. *)
OneWriter ==
    \A w, x \in Workers : w # x =>
        \A e \in Exceptions : wk[w].draft[e] = Nothing \/ wk[x].draft[e] = Nothing

(* An event on its way in has no row yet, and one request brings it. *)
HandlerInv ==
    \A h \in Handlers : hand[h].pc = "commit" =>
        /\ msg[hand[h].event] = "NONE"
        /\ \A g \in Handlers : hand[g].pc = "commit" /\ hand[g].event = hand[h].event => g = h

Inv == TypeOK /\ OwnInv /\ OneWriter /\ HandlerInv /\ ResultsComeWithTheirBatch

-----------------------------------------------------------------------------
LEMMA WorkerType ==
    ASSUME TypeOK, NEW w \in Workers
    PROVE  /\ wk[w] \in WorkerRecord(Items(w))
           /\ wk[w].item = Nothing <=> wk[w].pc \in {"idle", "next"}
           /\ wk[w].item # Nothing => CallInHand(w) \in Calls
<1>1. wk[w] \in WorkerRecord(Items(w))
  BY DEF TypeOK, Workers, Items
<1>2. wk[w].item \in Items(w) \cup {Nothing}
  BY <1>1 DEF WorkerRecord
<1> QED BY <1>1, <1>2, MembersAssumption DEF TypeOK, Items, CallInHand

(* The names that stand for something are not the one that stands for nothing. *)
LEMMA NamesDiffer ==
    /\ Nothing \notin Calls /\ Nothing \notin Events /\ Nothing \notin Exceptions
    /\ \A c \in Calls : c \notin Exceptions
    /\ Nothing \notin Places
  BY NothingAssumption, NamesAssumption DEF Nothing, Places

(* A step of one worker that only changes its own transaction keeps the      *)
(* invariant if its transaction keeps its own, and takes no row another holds. *)
LEMMA OneWorkerMoves ==
    ASSUME Inv, NEW w \in Workers,
           DOMAIN wk' = Workers, \A x \in Workers \ {w} : wk'[x] = wk[x],
           UNCHANGED << over, db, aged, delayed, hand >>, faults' \in 0 .. MaxFaults,
           wk'[w] \in WorkerRecord(Items(w)),
           wk'[w].item = Nothing <=> wk'[w].pc \in {"idle", "next"},
           ItemInv(w)', DraftInv(w)', UnsettledInv(w)', ClaimInv(w)',
           \A e \in Exceptions :
             wk'[w].draft[e] # Nothing => wk[w].draft[e] # Nothing \/ ~LockedByOther(w, e)
    PROVE  Inv'
<1> USE DEF Inv
<1>1. UNCHANGED << over, status, place, msg, aged, delayed, hand >>
  BY DEF db
<1>2. TypeOK'
  <2>1. \A x \in Workers : /\ wk'[x] \in WorkerRecord(Items(x))
                           /\ wk'[x].item = Nothing <=> wk'[x].pc \in {"idle", "next"}
    BY WorkerType
  <2>2. \A x \in Drainers : wk'[x] \in WorkerRecord(Events)
    BY <2>1 DEF Items, Workers
  <2>3. \A x \in Sweepers : wk'[x] \in WorkerRecord(Calls)
    BY <2>1, WorkersAssumption DEF Items, Workers
  <2> QED BY <1>1, <2>1, <2>2, <2>3 DEF TypeOK
<1>3. OwnInv'
  <2> SUFFICES ASSUME NEW x \in Workers, x # w
               PROVE  ItemInv(x)' /\ DraftInv(x)' /\ UnsettledInv(x)' /\ ClaimInv(x)'
    BY DEF OwnInv
  <2>1. wk'[x] = wk[x]
    OBVIOUS
  <2>2. ItemInv(x) /\ DraftInv(x) /\ UnsettledInv(x) /\ ClaimInv(x)
    BY DEF OwnInv
  <2>3. ItemInv(x)' /\ DraftInv(x)'
    BY <1>1, <2>1, <2>2 DEF ItemInv, DraftInv, CallInHand
  <2>4. UnsettledInv(x)' /\ ClaimInv(x)'
    BY <1>1, <2>1, <2>2 DEF UnsettledInv, ClaimInv, Claimed
  <2> QED BY <2>3, <2>4
<1>4. OneWriter'
  BY DEF OneWriter, LockedByOther, Holds
<1>5. HandlerInv'
  BY <1>1 DEF HandlerInv
<1>6. ResultsComeWithTheirBatch'
  BY <1>1 DEF ResultsComeWithTheirBatch
<1> QED BY <1>2, <1>3, <1>4, <1>5, <1>6

(* Whatever a transaction that has nothing open knows, it knows. *)
LEMMA Idles ==
    ASSUME Inv, NEW w \in Workers, wk' = [wk EXCEPT ![w] = IdleWorker],
           UNCHANGED << over, db, aged, delayed, hand >>, faults' \in 0 .. MaxFaults
    PROVE  Inv'
<1>1. DOMAIN wk' = Workers /\ wk'[w] = IdleWorker /\ \A x \in Workers \ {w} : wk'[x] = wk[x]
  BY DEF Inv, TypeOK
<1>2. IdleWorker \in WorkerRecord(Items(w))
  BY DEF IdleWorker, WorkerRecord
<1>3. ItemInv(w)' /\ DraftInv(w)' /\ UnsettledInv(w)' /\ ClaimInv(w)'
  BY <1>1, NamesDiffer DEF IdleWorker, ItemInv, DraftInv, UnsettledInv, ClaimInv, Claimed,
     Settled, Nothing
<1>4. \A e \in Exceptions : wk'[w].draft[e] = Nothing
  BY <1>1 DEF IdleWorker
<1>5. wk'[w].item = Nothing <=> wk'[w].pc \in {"idle", "next"}
  BY <1>1 DEF IdleWorker
<1> QED BY <1>1, <1>2, <1>3, <1>4, <1>5, OneWorkerMoves

(* A step that writes no row, and waits for none it did not wait for before. *)
LEMMA KeepsDraft ==
    ASSUME Inv, NEW w \in Workers,
           DOMAIN wk' = Workers, \A x \in Workers \ {w} : wk'[x] = wk[x],
           UNCHANGED << over, db, aged, delayed, hand >>, faults' \in 0 .. MaxFaults,
           wk'[w] \in WorkerRecord(Items(w)),
           wk'[w].item = Nothing <=> wk'[w].pc \in {"idle", "next"},
           wk'[w].draft = wk[w].draft, wk'[w].closes = wk[w].closes,
           wk'[w].wants \in Exceptions =>
             wk'[w].wants = wk[w].wants /\ wk'[w].outdated = wk[w].outdated,
           ItemInv(w)', Claimed(w)' \subseteq Claimed(w),
           w \notin Drainers => wk'[w].done = wk[w].done
    PROVE  Inv'
<1>1. UNCHANGED << over, place, msg >>
  BY DEF db
<1>2. DraftInv(w) /\ UnsettledInv(w) /\ ClaimInv(w)
  BY DEF Inv, OwnInv
<1>3. DraftInv(w)'
  BY <1>1, <1>2 DEF DraftInv
<1>4. UnsettledInv(w)'
  BY <1>1, <1>2 DEF UnsettledInv
<1>5. ClaimInv(w)'
  BY <1>1, <1>2 DEF ClaimInv
<1> QED BY <1>3, <1>4, <1>5, OneWorkerMoves

(* Where an idle or resting worker stands nothing is claimed of its item. *)
LEMMA PassKeeps ==
    ASSUME Inv, NEW w \in Workers, Claim(w) \/ Sweep(w)
    PROVE  Inv'
<1>1. PICK S \in SUBSET Items(w) :
        /\ wk' = [wk EXCEPT ![w].pc = "next", ![w].todo = S]
        /\ w \in Drainers => \A v \in S : msg[v] # "NONE"
  <2>1. CASE Claim(w)
    BY <2>1 DEF Claim, Available, Items
  <2>2. CASE Sweep(w)
    <3>1. w \notin Drainers /\ Overdue \in SUBSET Items(w)
      BY <2>2, WorkersAssumption DEF Sweep, Overdue, Items, Inv, TypeOK
    <3> QED BY <2>2, <3>1 DEF Sweep
  <2> QED BY <2>1, <2>2
<1>2. wk[w].pc = "idle" /\ UNCHANGED outside
  BY DEF Claim, Sweep
<1>3. wk[w] \in WorkerRecord(Items(w)) /\ wk[w].item = Nothing
  BY <1>2, WorkerType DEF Inv
<1>4. /\ DOMAIN wk' = Workers /\ \A x \in Workers \ {w} : wk'[x] = wk[x]
      /\ wk'[w] = [wk[w] EXCEPT !.pc = "next", !.todo = S]
  BY <1>1 DEF Inv, TypeOK
<1>5. wk'[w] \in WorkerRecord(Items(w)) /\ wk'[w].item = Nothing /\ wk'[w].pc = "next"
  BY <1>3, <1>4 DEF WorkerRecord
<1>6. /\ wk'[w].draft = wk[w].draft /\ wk'[w].closes = wk[w].closes
      /\ wk'[w].wants = wk[w].wants /\ wk'[w].outdated = wk[w].outdated
      /\ wk'[w].left = wk[w].left /\ wk'[w].value = wk[w].value
      /\ wk'[w].done = wk[w].done /\ wk'[w].failed = wk[w].failed /\ wk'[w].todo = S
  BY <1>3, <1>4 DEF WorkerRecord
<1>7. UNCHANGED << over, db, aged, delayed, hand, msg, place >> /\ faults' \in 0 .. MaxFaults
  BY <1>2 DEF outside, db, Inv, TypeOK
<1>8. ItemInv(w) /\ DraftInv(w) /\ UnsettledInv(w) /\ ClaimInv(w)
  BY DEF Inv, OwnInv
<1>9. ItemInv(w)'
  BY <1>2, <1>5, <1>6, <1>8 DEF ItemInv
<1>10. DraftInv(w)'
  BY <1>6, <1>7, <1>8 DEF DraftInv
<1>11. UnsettledInv(w)'
  BY <1>6, <1>7, <1>8 DEF UnsettledInv
<1>12. ClaimInv(w)'
  BY <1>1, <1>5, <1>6, <1>7, <1>8 DEF ClaimInv, Claimed
<1> QED BY <1>4, <1>5, <1>6, <1>7, <1>9, <1>10, <1>11, <1>12, OneWorkerMoves

(* Taking the next item, and the answers of the provider. *)
LEMMA TakeKeeps ==
    ASSUME Inv, NEW w \in Workers,
           \/ \E c \in Calls : TakeBatch(w, c)
           \/ \E v \in Events : TakeMessage(w, v)
    PROVE  Inv'
<1>1. /\ wk[w] \in WorkerRecord(Items(w)) /\ wk[w].pc = "next" /\ wk[w].item = Nothing
      /\ UNCHANGED outside
  BY WorkerType DEF TakeBatch, TakeMessage, Inv
<1>2. UNCHANGED << over, db, aged, delayed, hand >> /\ faults' \in 0 .. MaxFaults
  BY <1>1 DEF outside, Inv, TypeOK
<1>3. ItemInv(w)
  BY DEF Inv, OwnInv
<1>4. CASE \E c \in Calls : TakeBatch(w, c)
  <2>1. PICK c \in Calls : TakeBatch(w, c)
    BY <1>4
  <2>2. w \notin Drainers
    BY <2>1, WorkersAssumption DEF TakeBatch
  <2>3. /\ DOMAIN wk' = Workers /\ \A x \in Workers \ {w} : wk'[x] = wk[x]
        /\ wk'[w] = [wk[w] EXCEPT !.pc = "fetch", !.item = c, !.todo = @ \ {c},
                                  !.left = Members[c]]
    BY <2>1 DEF TakeBatch, Inv, TypeOK
  <2>4. wk'[w] \in WorkerRecord(Items(w))
    <3>1. Members[c] \in SUBSET Exceptions /\ c \in Items(w)
      BY <2>2, MembersAssumption DEF Items
    <3>2. wk[w].todo \ {c} \in SUBSET Items(w)
      BY <1>1 DEF WorkerRecord
    <3> QED BY <1>1, <2>3, <3>1, <3>2 DEF WorkerRecord
  <2>5. /\ wk'[w].draft = wk[w].draft /\ wk'[w].closes = wk[w].closes
        /\ wk'[w].wants = wk[w].wants /\ wk'[w].outdated = wk[w].outdated
        /\ wk'[w].pc = "fetch" /\ wk'[w].item = c /\ wk'[w].value = wk[w].value
        /\ wk'[w].left = Members[c] /\ wk'[w].done = wk[w].done
    BY <1>1, <2>3 DEF WorkerRecord
  <2>6. wk[w].wants \notin Exceptions
    BY <1>1, <1>3 DEF ItemInv
  <2>7. ItemInv(w)'
    BY <2>5, <2>6 DEF ItemInv
  <2>8. Claimed(w)' \subseteq Claimed(w) /\ wk'[w].item # Nothing
    BY <2>2, <2>5, NamesDiffer DEF Claimed
  <2> QED BY <1>2, <2>3, <2>4, <2>5, <2>6, <2>7, <2>8, KeepsDraft
<1>5. CASE \E v \in Events : TakeMessage(w, v)
  <2>1. PICK v \in Events : TakeMessage(w, v)
    BY <1>5
  <2>2. w \in Drainers /\ v \in wk[w].todo
    BY <2>1 DEF TakeMessage
  <2>3. /\ DOMAIN wk' = Workers /\ \A x \in Workers \ {w} : wk'[x] = wk[x]
        /\ \/ wk'[w] = [wk[w] EXCEPT !.todo = @ \ {v}, !.done = @ \cup {v}]
           \/ wk'[w] = [wk[w] EXCEPT !.todo = @ \ {v}, !.pc = "fetch", !.item = v]
    <3>1. DOMAIN wk = Workers
      BY DEF Inv, TypeOK
    <3>2. CASE wk' = [wk EXCEPT ![w].todo = @ \ {v}, ![w].done = @ \cup {v}]
      BY <3>1, <3>2
    <3>3. CASE wk' = [wk EXCEPT ![w].todo = @ \ {v}, ![w].pc = "fetch", ![w].item = v]
      BY <3>1, <3>3
    <3> QED BY <2>1, <3>2, <3>3 DEF TakeMessage
  <2>4. wk'[w] \in WorkerRecord(Items(w))
    <3>1. v \in Items(w) /\ wk[w].todo \ {v} \in SUBSET Items(w)
      BY <1>1, <2>2 DEF WorkerRecord, Items
    <3>2. wk[w].done \cup {v} \in SUBSET Events
      BY <1>1 DEF WorkerRecord
    <3>3. CASE wk'[w] = [wk[w] EXCEPT !.todo = @ \ {v}, !.done = @ \cup {v}]
      BY <1>1, <3>1, <3>2, <3>3 DEF WorkerRecord
    <3>4. CASE wk'[w] = [wk[w] EXCEPT !.todo = @ \ {v}, !.pc = "fetch", !.item = v]
      BY <1>1, <3>1, <3>4 DEF WorkerRecord
    <3> QED BY <2>3, <3>3, <3>4
  <2>5. /\ wk'[w].draft = wk[w].draft /\ wk'[w].closes = wk[w].closes
        /\ wk'[w].wants = wk[w].wants /\ wk'[w].outdated = wk[w].outdated
        /\ wk'[w].value = wk[w].value /\ wk'[w].left = wk[w].left
        /\ wk'[w].failed = wk[w].failed /\ wk'[w].todo = wk[w].todo \ {v}
    BY <1>1, <2>3 DEF WorkerRecord
  <2>6. \/ /\ wk'[w].pc = "next" /\ wk'[w].item = Nothing
           /\ wk'[w].done = wk[w].done \cup {v}
        \/ wk'[w].pc = "fetch" /\ wk'[w].item = v /\ wk'[w].done = wk[w].done
    BY <1>1, <2>3 DEF WorkerRecord
  <2>7. wk[w].wants \notin Exceptions /\ wk[w].left = {}
    BY <1>1, <1>3 DEF ItemInv
  <2>8. ItemInv(w)'
    BY <2>5, <2>6, <2>7 DEF ItemInv
  <2>9. Claimed(w)' \subseteq Claimed(w)
    BY <2>2, <2>5, <2>6 DEF Claimed
  <2>10. wk'[w].item = Nothing <=> wk'[w].pc \in {"idle", "next"}
    BY <2>6, NamesDiffer
  <2> QED BY <1>2, <2>2, <2>3, <2>4, <2>5, <2>7, <2>8, <2>9, <2>10, KeepsDraft
<1> QED BY <1>4, <1>5

(* Giving up the item in hand keeps what was written before. *)
LEMMA GivesUp ==
    ASSUME Inv, NEW w \in Workers, wk[w].item # Nothing,
           wk' = [wk EXCEPT ![w] = GaveUp(@, w)],
           UNCHANGED << over, db, aged, delayed, hand >>, faults' \in 0 .. MaxFaults
    PROVE  Inv'
<1>1. wk[w] \in WorkerRecord(Items(w)) /\ wk[w].item \in Items(w)
  <2>1. wk[w] \in WorkerRecord(Items(w))
    BY WorkerType DEF Inv
  <2> QED BY <2>1 DEF WorkerRecord
<1>2. /\ DOMAIN wk' = Workers /\ \A x \in Workers \ {w} : wk'[x] = wk[x]
      /\ wk'[w] = GaveUp(wk[w], w)
  BY DEF Inv, TypeOK
<1>3. /\ wk'[w].draft = wk[w].draft /\ wk'[w].closes = wk[w].closes
      /\ wk'[w].pc = "next" /\ wk'[w].item = Nothing /\ wk'[w].left = {}
      /\ wk'[w].wants = Nothing /\ wk'[w].todo = wk[w].todo /\ wk'[w].done = wk[w].done
      /\ w \in Drainers => wk'[w].failed = wk[w].failed \cup {wk[w].item}
  BY <1>1, <1>2 DEF WorkerRecord, GaveUp
<1>4. wk'[w] \in WorkerRecord(Items(w))
  BY <1>1, <1>2 DEF WorkerRecord, GaveUp, Items
<1>5. ItemInv(w)'
  BY <1>3, NamesDiffer DEF ItemInv
<1>6. Claimed(w)' \subseteq Claimed(w)
  BY <1>3 DEF Claimed
<1> QED BY <1>2, <1>3, <1>4, <1>5, <1>6, NamesDiffer, KeepsDraft

(* The answers of the provider, and the end of an item. *)
LEMMA ItemKeeps ==
    ASSUME Inv, NEW w \in Workers,
           FetchEnded(w) \/ FetchRunning(w) \/ ItemDone(w)
    PROVE  Inv'
<1>1. /\ wk[w] \in WorkerRecord(Items(w)) /\ wk[w].item # Nothing /\ wk[w].left = {}
      /\ CallInHand(w) \in Calls /\ UNCHANGED outside
  BY WorkerType DEF FetchEnded, FetchRunning, ItemDone, Asks, Inv
<1>2. UNCHANGED << over, db, aged, delayed, hand >> /\ faults' \in 0 .. MaxFaults
  BY <1>1 DEF outside, Inv, TypeOK
<1>3. wk[w].wants \notin Exceptions
  BY <1>1 DEF Inv, OwnInv, ItemInv
<1>4. CASE FetchEnded(w)
  <2>1. /\ DOMAIN wk' = Workers /\ \A x \in Workers \ {w} : wk'[x] = wk[x]
        /\ wk'[w] = [wk[w] EXCEPT !.pc = "close"]
    BY <1>4 DEF FetchEnded, Inv, TypeOK
  <2>2. wk'[w] \in WorkerRecord(Items(w))
    BY <1>1, <2>1 DEF WorkerRecord
  <2>3. /\ wk'[w].draft = wk[w].draft /\ wk'[w].closes = wk[w].closes
        /\ wk'[w].wants = wk[w].wants /\ wk'[w].item = wk[w].item /\ wk'[w].pc = "close"
        /\ wk'[w].todo = wk[w].todo /\ wk'[w].done = wk[w].done
        /\ wk'[w].failed = wk[w].failed
    BY <1>1, <2>1 DEF WorkerRecord
  <2>4. CallInHand(w)' = CallInHand(w) /\ over[CallInHand(w)] # "running"
    BY <1>4, <2>3 DEF CallInHand, FetchEnded
  <2>5. ItemInv(w)'
    BY <1>2, <1>3, <2>3, <2>4 DEF ItemInv
  <2>6. Claimed(w)' \subseteq Claimed(w)
    BY <2>3 DEF Claimed
  <2> QED BY <1>1, <1>2, <1>3, <2>1, <2>2, <2>3, <2>5, <2>6, KeepsDraft
<1>5. CASE FetchRunning(w)
  <2>1. /\ DOMAIN wk' = Workers /\ \A x \in Workers \ {w} : wk'[x] = wk[x]
        /\ wk'[w] = [wk[w] EXCEPT !.pc = "return", !.left = Members[CallInHand(w)]]
    BY <1>5 DEF FetchRunning, Inv, TypeOK
  <2>2. wk'[w] \in WorkerRecord(Items(w))
    <3>1. Members[CallInHand(w)] \in SUBSET Exceptions
      BY <1>1, MembersAssumption
    <3> QED BY <1>1, <2>1, <3>1 DEF WorkerRecord
  <2>3. /\ wk'[w].draft = wk[w].draft /\ wk'[w].closes = wk[w].closes
        /\ wk'[w].wants = wk[w].wants /\ wk'[w].item = wk[w].item /\ wk'[w].pc = "return"
        /\ wk'[w].todo = wk[w].todo /\ wk'[w].done = wk[w].done
        /\ wk'[w].failed = wk[w].failed
    BY <1>1, <2>1 DEF WorkerRecord
  <2>4. ItemInv(w)'
    BY <1>3, <2>3 DEF ItemInv
  <2>5. Claimed(w)' \subseteq Claimed(w)
    BY <2>3 DEF Claimed
  <2> QED BY <1>1, <1>2, <1>3, <2>1, <2>2, <2>3, <2>4, <2>5, KeepsDraft
<1>6. CASE ItemDone(w)
  <2>1. /\ DOMAIN wk' = Workers /\ \A x \in Workers \ {w} : wk'[x] = wk[x]
        /\ wk'[w] = [wk[w] EXCEPT !.pc = "next", !.item = Nothing,
                       !.done = IF w \in Drainers THEN @ \cup {wk[w].item} ELSE @]
    BY <1>6 DEF ItemDone, Inv, TypeOK
  <2>2. wk'[w] \in WorkerRecord(Items(w))
    <3> DEFINE d == IF w \in Drainers THEN wk[w].done \cup {wk[w].item} ELSE wk[w].done
    <3>1. wk[w].item \in Items(w) /\ wk[w].done \in SUBSET Events
      BY <1>1 DEF WorkerRecord
    <3>2. d \in SUBSET Events
      BY <3>1 DEF Items
    <3>3. wk'[w] = [wk[w] EXCEPT !.pc = "next", !.item = Nothing, !.done = d]
      BY <2>1
    <3> HIDE DEF d
    <3> QED BY <1>1, <3>2, <3>3 DEF WorkerRecord
  <2>3. /\ wk'[w].draft = wk[w].draft /\ wk'[w].closes = wk[w].closes
        /\ wk'[w].wants = wk[w].wants /\ wk'[w].item = Nothing /\ wk'[w].pc = "next"
        /\ wk'[w].todo = wk[w].todo /\ wk'[w].failed = wk[w].failed
        /\ wk'[w].left = {}
        /\ w \in Drainers => wk'[w].done = wk[w].done \cup {wk[w].item}
        /\ w \notin Drainers => wk'[w].done = wk[w].done
    BY <1>1, <2>1 DEF WorkerRecord
  <2>4. ItemInv(w)'
    BY <1>3, <2>3 DEF ItemInv
  <2>5. Claimed(w)' \subseteq Claimed(w)
    <3>1. CASE w \in Drainers
      BY <1>1, <2>3, <3>1 DEF Claimed
    <3>2. CASE w \notin Drainers
      BY <3>2 DEF Claimed
    <3> QED BY <3>1, <3>2
  <2> QED BY <1>2, <1>3, <2>1, <2>2, <2>3, <2>4, <2>5, KeepsDraft
<1> QED BY <1>4, <1>5, <1>6

(* Ends of an item, or of a pass, that nobody wanted. *)
LEMMA FaultKeeps ==
    ASSUME Inv, NEW w \in Workers,
           \/ FetchFailed(w) \/ WorkerCrash(w) \/ DeadlockAbort(w)
           \/ \E e \in Exceptions : ApplyRefused(w, e)
    PROVE  Inv'
<1>0. MaxFaults \in Nat /\ faults \in 0 .. MaxFaults
  BY BoundsAssumption DEF Inv, TypeOK
<1>1. CASE FetchFailed(w)
  <2>1. wk[w].item # Nothing
    BY <1>1, WorkerType DEF FetchFailed, Asks, Inv
  <2>2. UNCHANGED << over, db, aged, delayed, hand >> /\ faults' \in 0 .. MaxFaults
    BY <1>0, <1>1 DEF FetchFailed
  <2>3. wk' = [wk EXCEPT ![w] = GaveUp(@, w)]
    BY <1>1 DEF FetchFailed
  <2> QED BY <2>1, <2>2, <2>3, GivesUp
<1>2. CASE WorkerCrash(w)
  <2>1. wk' = [wk EXCEPT ![w] = IdleWorker] /\ UNCHANGED << over, db, aged, delayed, hand >>
    BY <1>2 DEF WorkerCrash
  <2>2. faults' \in 0 .. MaxFaults
    BY <1>0, <1>2 DEF WorkerCrash
  <2> QED BY <2>1, <2>2, Idles
<1>3. CASE DeadlockAbort(w)
  BY <1>0, <1>3, Idles DEF DeadlockAbort, outside
<1>4. CASE \E e \in Exceptions : ApplyRefused(w, e)
  <2>1. wk[w].item # Nothing
    BY <1>4, WorkerType DEF ApplyRefused, Refuses, Inv
  <2>2. UNCHANGED << over, db, aged, delayed, hand >> /\ faults' \in 0 .. MaxFaults
    BY <1>0, <1>4 DEF ApplyRefused, outside
  <2>3. wk' = [wk EXCEPT ![w] = GaveUp(@, w)]
    BY <1>4 DEF ApplyRefused
  <2> QED BY <2>1, <2>2, <2>3, GivesUp
<1> QED BY <1>1, <1>2, <1>3, <1>4

-----------------------------------------------------------------------------
LEMMA Frame ==
    ASSUME Inv, UNCHANGED outside
    PROVE  /\ UNCHANGED << over, db, aged, delayed, hand >>
           /\ UNCHANGED << status, place, msg >>
           /\ faults' \in 0 .. MaxFaults
  BY DEF outside, db, Inv, TypeOK

(* What a worker means to write to a row: a result only of the call in hand,  *)
(* once that is over, and only where it saw none.                            *)
LEMMA NewPlaceMeans ==
    ASSUME Inv, NEW w \in Workers, NEW e \in Exceptions, NewPlace(w, e) # Nothing
    PROVE  /\ NewPlace(w, e) \in Places /\ place[e] \notin Settled
           /\ NewPlace(w, e) \in Settled =>
                wk[w].pc = "apply" /\ NewPlace(w, e) = over[CallInHand(w)]
           /\ wk[w].pc \in {"fetch", "return", "apply"}
<1>1. wk[w].pc \in {"fetch", "return", "apply"}
  BY DEF NewPlace
<1>2. PlaceSeen(w, e) \in {"CALLING", "RECONCILING"}
  BY DEF NewPlace
<1>3. place[e] \notin Settled
  BY <1>2 DEF PlaceSeen, Inv, OwnInv, UnsettledInv, Settled
<1>4. CASE wk[w].pc = "apply"
  <2>1. NewPlace(w, e) = over[CallInHand(w)]
    BY <1>4 DEF NewPlace
  <2>2. CallInHand(w) \in Calls /\ over[CallInHand(w)] # "running"
    BY <1>4, WorkerType DEF Inv, OwnInv, ItemInv
  <2>3. over[CallInHand(w)] \in Places
    BY <2>2 DEF Inv, TypeOK, Places
  <2> QED BY <1>1, <1>3, <1>4, <2>1, <2>3
<1>5. CASE wk[w].pc # "apply"
  <2>1. NewPlace(w, e) \in {"CALLING", "RECONCILING"}
    BY <1>5 DEF NewPlace
  <2> QED BY <1>1, <1>3, <2>1 DEF Places, Settled
<1> QED BY <1>4, <1>5

(* Rows that are passed by or waited for. *)
LEMMA ReadKeeps ==
    ASSUME Inv, NEW w \in Workers, NEW e \in Exceptions,
           PassBy(w, e) \/ AwaitRow(w, e)
    PROVE  Inv'
<1>1. /\ wk[w] \in WorkerRecord(Items(w)) /\ wk[w].wants = Nothing /\ e \in wk[w].left
      /\ wk[w].item = Nothing <=> wk[w].pc \in {"idle", "next"}
      /\ UNCHANGED outside
  BY WorkerType DEF PassBy, AwaitRow, Writes, Inv
<1>2. ItemInv(w) /\ DraftInv(w) /\ UnsettledInv(w) /\ ClaimInv(w)
  BY DEF Inv, OwnInv
<1>3. CASE PassBy(w, e)
  <2>1. /\ DOMAIN wk' = Workers /\ \A x \in Workers \ {w} : wk'[x] = wk[x]
        /\ wk'[w] = [wk[w] EXCEPT !.left = @ \ {e}]
    BY <1>3 DEF PassBy, Inv, TypeOK
  <2>2. wk'[w] \in WorkerRecord(Items(w))
    BY <1>1, <2>1 DEF WorkerRecord
  <2>3. /\ wk'[w].draft = wk[w].draft /\ wk'[w].closes = wk[w].closes
        /\ wk'[w].wants = wk[w].wants /\ wk'[w].item = wk[w].item /\ wk'[w].pc = wk[w].pc
        /\ wk'[w].todo = wk[w].todo /\ wk'[w].done = wk[w].done
        /\ wk'[w].failed = wk[w].failed /\ wk'[w].left = wk[w].left \ {e}
    BY <1>1, <2>1 DEF WorkerRecord
  <2>4. CallInHand(w)' = CallInHand(w) /\ Claimed(w)' = Claimed(w)
    BY <2>3 DEF CallInHand, Claimed
  <2>5. ItemInv(w)'
    BY <1>1, <1>2, <2>3, <2>4, Frame, NamesDiffer DEF ItemInv
  <2> QED BY <1>1, <2>1, <2>2, <2>3, <2>4, <2>5, Frame, NamesDiffer, KeepsDraft
<1>4. CASE AwaitRow(w, e)
  <2>0. NewPlace(w, e) # Nothing
    BY <1>4 DEF AwaitRow
  <2>1. /\ DOMAIN wk' = Workers /\ \A x \in Workers \ {w} : wk'[x] = wk[x]
        /\ wk'[w] = [wk[w] EXCEPT !.wants = e, !.value = NewPlace(w, e)]
    BY <1>4 DEF AwaitRow, Inv, TypeOK
  <2>2. wk'[w] \in WorkerRecord(Items(w))
    <3>1. NewPlace(w, e) \in Places
      BY <2>0, NewPlaceMeans
    <3> QED BY <1>1, <2>1, <3>1 DEF WorkerRecord
  <2>3. /\ wk'[w].draft = wk[w].draft /\ wk'[w].closes = wk[w].closes
        /\ wk'[w].wants = e /\ wk'[w].value = NewPlace(w, e)
        /\ wk'[w].item = wk[w].item /\ wk'[w].pc = wk[w].pc /\ wk'[w].left = wk[w].left
        /\ wk'[w].todo = wk[w].todo /\ wk'[w].done = wk[w].done
        /\ wk'[w].failed = wk[w].failed
    BY <1>1, <2>1 DEF WorkerRecord
  <2>4. CallInHand(w)' = CallInHand(w) /\ Claimed(w)' = Claimed(w)
    BY <2>3 DEF CallInHand, Claimed
  <2>5. ItemInv(w)'
    BY <1>1, <1>2, <2>0, <2>3, <2>4, Frame, NewPlaceMeans DEF ItemInv
  <2>6. DraftInv(w)'
    BY <1>1, <1>2, <2>3, Frame DEF DraftInv
  <2>7. UnsettledInv(w)'
    BY <1>1, <1>2, <2>0, <2>3, Frame, NewPlaceMeans DEF UnsettledInv
  <2>8. ClaimInv(w)'
    BY <1>1, <1>2, <2>3, <2>4, Frame DEF ClaimInv
  <2> QED BY <1>1, <2>1, <2>2, <2>3, <2>5, <2>6, <2>7, <2>8, Frame, OneWorkerMoves
<1> QED BY <1>3, <1>4

(* Writing a row that is free, with something that may be written there. *)
LEMMA WritesRow ==
    ASSUME Inv, NEW w \in Workers, NEW e \in Exceptions, NEW p \in Places \cup {Nothing},
           e \in wk[w].left, place[e] \notin Settled,
           p \in Settled => wk[w].pc = "apply" /\ p = over[CallInHand(w)],
           wk[w].draft[e] # Nothing \/ ~LockedByOther(w, e),
           \/ /\ wk[w].wants = Nothing
              /\ wk' = [wk EXCEPT ![w].left = @ \ {e}, ![w].draft[e] = p]
           \/ wk' = [wk EXCEPT ![w].wants = Nothing, ![w].value = Nothing,
                               ![w].left = @ \ {e}, ![w].draft[e] = p],
           UNCHANGED outside
    PROVE  Inv'
<1>1. /\ wk[w] \in WorkerRecord(Items(w))
      /\ wk[w].item = Nothing <=> wk[w].pc \in {"idle", "next"}
  BY WorkerType DEF Inv
<1>2. ItemInv(w) /\ DraftInv(w) /\ UnsettledInv(w) /\ ClaimInv(w)
  BY DEF Inv, OwnInv
<1>3. /\ DOMAIN wk' = Workers /\ \A x \in Workers \ {w} : wk'[x] = wk[x]
      /\ wk'[w] \in WorkerRecord(Items(w)) /\ wk'[w].wants = Nothing
      /\ wk'[w].draft = [wk[w].draft EXCEPT ![e] = p] /\ wk'[w].closes = wk[w].closes
      /\ wk'[w].item = wk[w].item /\ wk'[w].pc = wk[w].pc /\ wk'[w].left = wk[w].left \ {e}
      /\ wk'[w].todo = wk[w].todo /\ wk'[w].done = wk[w].done
      /\ wk'[w].failed = wk[w].failed
  <2>1. DOMAIN wk = Workers
    BY DEF Inv, TypeOK
  <2>2. [wk[w].draft EXCEPT ![e] = p] \in [Exceptions -> Places \cup {Nothing}]
    BY <1>1 DEF WorkerRecord
  <2>3. CASE /\ wk[w].wants = Nothing
             /\ wk' = [wk EXCEPT ![w].left = @ \ {e}, ![w].draft[e] = p]
    <3>1. /\ \A x \in Workers \ {w} : wk'[x] = wk[x]
          /\ wk'[w] = [wk[w] EXCEPT !.left = @ \ {e}, !.draft = [@ EXCEPT ![e] = p]]
      BY <2>1, <2>3
    <3> QED BY <1>1, <2>1, <2>2, <2>3, <3>1 DEF WorkerRecord
  <2>4. CASE wk' = [wk EXCEPT ![w].wants = Nothing, ![w].value = Nothing,
                              ![w].left = @ \ {e}, ![w].draft[e] = p]
    <3>1. /\ \A x \in Workers \ {w} : wk'[x] = wk[x]
          /\ wk'[w] = [wk[w] EXCEPT !.wants = Nothing, !.value = Nothing,
                                    !.left = @ \ {e}, !.draft = [@ EXCEPT ![e] = p]]
      BY <2>1, <2>4
    <3> QED BY <1>1, <2>1, <2>2, <2>4, <3>1 DEF WorkerRecord
  <2> QED BY <2>3, <2>4
<1>4. CallInHand(w)' = CallInHand(w) /\ Claimed(w)' = Claimed(w)
  BY <1>3 DEF CallInHand, Claimed
<1>5. wk[w].draft \in [Exceptions -> Places \cup {Nothing}]
  BY <1>1 DEF WorkerRecord
<1>6. ItemInv(w)'
  BY <1>2, <1>3, <1>4, Frame, NamesDiffer DEF ItemInv
<1>7. DraftInv(w)'
  <2> SUFFICES ASSUME NEW f \in Exceptions, wk'[w].draft[f] \in Settled
               PROVE  \E c \in wk'[w].closes : f \in Members[c] /\ over'[c] = wk'[w].draft[f]
    BY DEF DraftInv
  <2>1. CASE f = e
    BY <1>2, <1>3, <1>5, <2>1, Frame DEF ItemInv
  <2>2. CASE f # e
    BY <1>2, <1>3, <1>5, <2>2, Frame DEF DraftInv
  <2> QED BY <2>1, <2>2
<1>8. UnsettledInv(w)'
  BY <1>2, <1>3, <1>5, Frame, NamesDiffer DEF UnsettledInv
<1>9. ClaimInv(w)'
  BY <1>2, <1>3, <1>4, Frame DEF ClaimInv
<1>10. \A f \in Exceptions :
         wk'[w].draft[f] # Nothing => wk[w].draft[f] # Nothing \/ ~LockedByOther(w, f)
  BY <1>3, <1>5
<1> QED BY <1>1, <1>3, <1>6, <1>7, <1>8, <1>9, <1>10, Frame, OneWorkerMoves

LEMMA WriteKeeps ==
    ASSUME Inv, NEW w \in Workers,
           (\E e \in Exceptions : WriteRow(w, e)) \/ WriteAwaited(w)
    PROVE  Inv'
<1>1. wk[w] \in WorkerRecord(Items(w)) /\ ItemInv(w) /\ UnsettledInv(w)
  BY WorkerType DEF Inv, OwnInv
<1>2. CASE \E e \in Exceptions : WriteRow(w, e)
  <2>1. PICK e \in Exceptions : WriteRow(w, e)
    BY <1>2
  <2>2. wk[w].draft[e] # Nothing \/ ~LockedByOther(w, e)
    <3>1. e \notin wk[w].closes
      BY <1>1, NamesDiffer DEF WorkerRecord
    <3> QED BY <2>1, <3>1 DEF WriteRow, Holds, TakenByOther
  <2>3. NewPlace(w, e) # Nothing
    BY <2>1 DEF WriteRow
  <2>4. NewPlace(w, e) \in Places \cup {Nothing}
    BY <2>3, NewPlaceMeans
  <2>5. /\ e \in wk[w].left /\ place[e] \notin Settled /\ wk[w].wants = Nothing
        /\ NewPlace(w, e) \in Settled =>
             wk[w].pc = "apply" /\ NewPlace(w, e) = over[CallInHand(w)]
    BY <2>1, <2>3, NewPlaceMeans DEF WriteRow, Writes
  <2>6. /\ wk' = [wk EXCEPT ![w].left = @ \ {e}, ![w].draft[e] = NewPlace(w, e)]
        /\ UNCHANGED outside
    BY <2>1 DEF WriteRow
  <2> QED BY <2>2, <2>4, <2>5, <2>6, WritesRow
<1>3. CASE WriteAwaited(w)
  <2> DEFINE e == wk[w].wants
  <2> DEFINE p == wk[w].value
  <2>1. /\ e \in Exceptions /\ ~LockedByOther(w, e) /\ ~wk[w].outdated /\ UNCHANGED outside
        /\ wk' = [wk EXCEPT ![w].wants = Nothing, ![w].value = Nothing,
                            ![w].left = @ \ {e}, ![w].draft[e] = p]
    BY <1>3 DEF WriteAwaited
  <2>2. p \in Places \cup {Nothing}
    BY <1>1 DEF WorkerRecord
  <2>3. /\ e \in wk[w].left /\ place[e] \notin Settled
        /\ p \in Settled => wk[w].pc = "apply" /\ p = over[CallInHand(w)]
    BY <1>1, <2>1 DEF ItemInv, UnsettledInv
  <2> HIDE DEF e, p
  <2> QED BY <2>1, <2>2, <2>3, WritesRow
<1> QED BY <1>2, <1>3

(* A conflict over a version that was waited for. *)
LEMMA ConflictKeeps ==
    ASSUME Inv, NEW w \in Workers, Conflict(w)
    PROVE  Inv'
<1>1. wk[w] \in WorkerRecord(Items(w)) /\ ItemInv(w) /\ UNCHANGED outside
  BY WorkerType DEF Inv, OwnInv, Conflict
<1>2. CASE wk[w].pc = "apply"
  <2> DEFINE e == wk[w].wants
  <2>1. /\ wk' = [wk EXCEPT ![w].wants = Nothing, ![w].value = Nothing,
                            ![w].outdated = FALSE, ![w].left = @ \ {e}]
        /\ DOMAIN wk = Workers
    BY <1>2 DEF Conflict, Inv, TypeOK
  <2> HIDE DEF e
  <2>2. /\ DOMAIN wk' = Workers /\ \A x \in Workers \ {w} : wk'[x] = wk[x]
        /\ wk'[w] = [wk[w] EXCEPT !.wants = Nothing, !.value = Nothing,
                                  !.outdated = FALSE, !.left = @ \ {e}]
    BY <2>1
  <2>3. wk'[w] \in WorkerRecord(Items(w))
    BY <1>1, <2>2 DEF WorkerRecord
  <2>4. /\ wk'[w].draft = wk[w].draft /\ wk'[w].closes = wk[w].closes
        /\ wk'[w].wants = Nothing /\ wk'[w].item = wk[w].item /\ wk'[w].pc = "apply"
        /\ wk'[w].todo = wk[w].todo /\ wk'[w].done = wk[w].done
        /\ wk'[w].failed = wk[w].failed /\ wk'[w].left = wk[w].left \ {e}
    BY <1>1, <1>2, <2>2 DEF WorkerRecord
  <2>5. CallInHand(w)' = CallInHand(w) /\ Claimed(w)' = Claimed(w)
    BY <2>4 DEF CallInHand, Claimed
  <2>6. ItemInv(w)'
    BY <1>1, <1>2, <2>4, <2>5, Frame, NamesDiffer DEF ItemInv
  <2>7. wk'[w].item # Nothing
    BY <1>2, <2>4, WorkerType DEF Inv
  <2> QED BY <1>1, <2>2, <2>3, <2>4, <2>5, <2>6, <2>7, Frame, NamesDiffer, KeepsDraft
<1>3. CASE wk[w].pc = "return"
  <2>1. wk' = [wk EXCEPT ![w] = GaveUp(@, w)]
    BY <1>3 DEF Conflict
  <2>2. wk[w].item # Nothing
    BY <1>3, WorkerType DEF Inv
  <2> QED BY <1>1, <2>1, <2>2, Frame, GivesUp
<1>4. CASE wk[w].pc \notin {"apply", "return"}
  <2>1. wk' = [wk EXCEPT ![w] = IdleWorker]
    BY <1>4 DEF Conflict
  <2> QED BY <1>1, <2>1, Frame, Idles
<1> QED BY <1>2, <1>3, <1>4

(* The batch's row is written, or waited for. *)
LEMMA CloseKeeps ==
    ASSUME Inv, NEW w \in Workers, CloseBatch(w) \/ AwaitBatch(w)
    PROVE  Inv'
<1> DEFINE c == CallInHand(w)
<1>1. /\ wk[w] \in WorkerRecord(Items(w)) /\ wk[w].pc = "close" /\ wk[w].item # Nothing
      /\ c \in Calls /\ UNCHANGED outside
  BY WorkerType DEF Inv, CloseBatch, AwaitBatch
<1>2. ItemInv(w) /\ DraftInv(w) /\ UnsettledInv(w) /\ ClaimInv(w)
  BY DEF Inv, OwnInv
<1>3. over[c] # "running"
  BY <1>1, <1>2 DEF ItemInv
<1>4. CASE CloseBatch(w)
  <2>1. /\ wk' = [wk EXCEPT ![w].pc = "apply", ![w].closes = @ \cup {c},
                            ![w].wants = Nothing, ![w].left = Members[c]]
        /\ DOMAIN wk = Workers
    BY <1>4 DEF CloseBatch, Inv, TypeOK
  <2>2. Members[c] \in SUBSET Exceptions
    BY <1>1, MembersAssumption
  <2> HIDE DEF c
  <2>3. /\ DOMAIN wk' = Workers /\ \A x \in Workers \ {w} : wk'[x] = wk[x]
        /\ wk'[w] = [wk[w] EXCEPT !.pc = "apply", !.closes = @ \cup {c},
                                  !.wants = Nothing, !.left = Members[c]]
    BY <2>1
  <2>4. wk'[w] \in WorkerRecord(Items(w))
    <3>1. wk[w].closes \cup {c} \in SUBSET Calls
      BY <1>1 DEF WorkerRecord
    <3> QED BY <1>1, <2>2, <2>3, <3>1 DEF WorkerRecord
  <2>5. /\ wk'[w].draft = wk[w].draft /\ wk'[w].closes = wk[w].closes \cup {c}
        /\ wk'[w].wants = Nothing /\ wk'[w].item = wk[w].item /\ wk'[w].pc = "apply"
        /\ wk'[w].todo = wk[w].todo /\ wk'[w].done = wk[w].done
        /\ wk'[w].failed = wk[w].failed /\ wk'[w].left = Members[c]
    BY <1>1, <2>3 DEF WorkerRecord
  <2>6. CallInHand(w)' = c /\ Claimed(w)' = Claimed(w)
    BY <2>5 DEF CallInHand, Claimed, c
  <2>7. ItemInv(w)'
    BY <1>1, <1>3, <2>5, <2>6, Frame, NamesDiffer DEF ItemInv
  <2>8. DraftInv(w)'
    BY <1>1, <1>2, <2>5, Frame DEF DraftInv
  <2>9. UnsettledInv(w)' /\ ClaimInv(w)'
    BY <1>1, <1>2, <2>5, <2>6, Frame, NamesDiffer DEF UnsettledInv, ClaimInv
  <2> QED BY <1>1, <2>3, <2>4, <2>5, <2>7, <2>8, <2>9, Frame, OneWorkerMoves
<1>5. CASE AwaitBatch(w)
  <2>1. wk' = [wk EXCEPT ![w].wants = c] /\ DOMAIN wk = Workers
    BY <1>5 DEF AwaitBatch, Inv, TypeOK
  <2> HIDE DEF c
  <2>2. /\ DOMAIN wk' = Workers /\ \A x \in Workers \ {w} : wk'[x] = wk[x]
        /\ wk'[w] = [wk[w] EXCEPT !.wants = c]
    BY <2>1
  <2>3. wk'[w] \in WorkerRecord(Items(w))
    BY <1>1, <2>2 DEF WorkerRecord
  <2>4. /\ wk'[w].draft = wk[w].draft /\ wk'[w].closes = wk[w].closes
        /\ wk'[w].wants = c /\ wk'[w].item = wk[w].item /\ wk'[w].pc = "close"
        /\ wk'[w].todo = wk[w].todo /\ wk'[w].done = wk[w].done
        /\ wk'[w].failed = wk[w].failed
    BY <1>1, <2>2 DEF WorkerRecord
  <2>5. CallInHand(w)' = c /\ Claimed(w)' = Claimed(w) /\ c \notin Exceptions
    BY <1>1, <2>4, NamesDiffer DEF CallInHand, Claimed, c
  <2>6. ItemInv(w)'
    BY <1>1, <1>3, <2>4, <2>5, Frame DEF ItemInv
  <2> QED BY <1>1, <2>2, <2>3, <2>4, <2>5, <2>6, Frame, KeepsDraft
<1> QED BY <1>4, <1>5

(* A commit: the results it publishes come with their batches, and those who  *)
(* wait for its rows learn of it.                                            *)
LEMMA CommitKeeps ==
    ASSUME Inv, NEW w \in Workers, Commit(w)
    PROVE  Inv'
<1> USE DEF Inv
<1>1. wk[w] \in WorkerRecord(Items(w)) /\ DOMAIN wk = Workers
  BY WorkerType DEF TypeOK
<1>2. ItemInv(w) /\ DraftInv(w) /\ UnsettledInv(w) /\ ClaimInv(w)
  BY DEF OwnInv
<1>3. /\ DOMAIN wk' = Workers /\ wk'[w] = IdleWorker /\ UNCHANGED << over, aged, hand, faults >>
      /\ \A x \in Workers \ {w} :
           \/ wk[x].wants \in Exceptions
              /\ wk'[x] = [wk[x] EXCEPT !.outdated = OutdatedAfter(w, x)]
           \/ wk[x].wants \notin Exceptions /\ wk'[x] = wk[x]
  BY DEF Commit
<1>4. \A x \in Workers \ {w} :
        /\ wk'[x] \in WorkerRecord(Items(x))
        /\ wk'[x].pc = wk[x].pc /\ wk'[x].item = wk[x].item /\ wk'[x].todo = wk[x].todo
        /\ wk'[x].left = wk[x].left /\ wk'[x].wants = wk[x].wants
        /\ wk'[x].value = wk[x].value /\ wk'[x].draft = wk[x].draft
        /\ wk'[x].closes = wk[x].closes /\ wk'[x].done = wk[x].done
        /\ wk'[x].failed = wk[x].failed
        /\ wk[x].wants \in Exceptions => wk'[x].outdated = OutdatedAfter(w, x)
  <2> TAKE x \in Workers \ {w}
  <2>1. wk[x] \in WorkerRecord(Items(x))
    BY WorkerType
  <2>2. OutdatedAfter(w, x) \in BOOLEAN
    BY <2>1 DEF OutdatedAfter, WorkerRecord
  <2>3. CASE wk[x].wants \notin Exceptions
    BY <1>3, <2>1, <2>3
  <2>4. CASE wk[x].wants \in Exceptions
    <3>1. wk'[x] = [wk[x] EXCEPT !.outdated = OutdatedAfter(w, x)]
      BY <1>3, <2>4
    <3> HIDE DEF OutdatedAfter
    <3> QED BY <2>1, <2>2, <3>1 DEF WorkerRecord
  <2> QED BY <2>3, <2>4
<1>5. wk[w].draft \in [Exceptions -> Places \cup {Nothing}] /\ wk[w].closes \subseteq Calls
      /\ wk[w].done \subseteq Events /\ wk[w].failed \subseteq Events
  BY <1>1 DEF WorkerRecord
<1>6. \A e \in Exceptions :
        place'[e] = IF wk[w].draft[e] # Nothing THEN wk[w].draft[e] ELSE place[e]
  BY DEF Commit, PlaceSeen
<1>7. \A c \in Calls : status'[c] = IF c \in wk[w].closes THEN "CLOSED" ELSE status[c]
  BY DEF Commit, StatusAfter
<1>8. \A v \in Events : msg'[v] = IF v \in wk[w].done THEN "DELIVERED" ELSE msg[v]
  BY DEF Commit, MessageAfter
<1>9. TypeOK'
  <2>1. \A x \in Workers : /\ wk'[x] \in WorkerRecord(Items(x))
                           /\ wk'[x].item = Nothing <=> wk'[x].pc \in {"idle", "next"}
    <3>1. IdleWorker \in WorkerRecord(Items(w))
      BY DEF IdleWorker, WorkerRecord
    <3>2. IdleWorker.item = Nothing /\ IdleWorker.pc \in {"idle", "next"}
      BY DEF IdleWorker
    <3> TAKE x \in Workers
    <3>3. CASE x = w
      BY <1>3, <3>1, <3>2, <3>3
    <3>4. CASE x # w
      BY <1>4, <3>4, WorkerType
    <3> QED BY <3>3, <3>4
  <2>2. \A x \in Drainers : wk'[x] \in WorkerRecord(Events)
    BY <2>1 DEF Items, Workers
  <2>3. \A x \in Sweepers : wk'[x] \in WorkerRecord(Calls)
    BY <2>1, WorkersAssumption DEF Items, Workers
  <2>4. place' \in [Exceptions -> Places]
    BY <1>5, <1>6 DEF Commit, TypeOK
  <2>5. status' \in [Calls -> {"UNKNOWN", "DISPATCHED", "CLOSED"}]
    BY <1>7 DEF Commit, TypeOK
  <2>6. msg' \in [Events -> {"NONE", "PENDING", "DELIVERED"}]
    BY <1>8 DEF Commit, TypeOK
  <2>7. delayed' \subseteq Events
    BY <1>5 DEF Commit, TypeOK
  <2> QED BY <1>3, <2>1, <2>2, <2>3, <2>4, <2>5, <2>6, <2>7 DEF TypeOK
<1>10. OwnInv'
  <2> SUFFICES ASSUME NEW x \in Workers
               PROVE  ItemInv(x)' /\ DraftInv(x)' /\ UnsettledInv(x)' /\ ClaimInv(x)'
    BY DEF OwnInv
  <2>1. CASE x = w
    BY <1>3, <2>1, NamesDiffer DEF IdleWorker, ItemInv, DraftInv, UnsettledInv, ClaimInv,
       Claimed, Settled, Nothing
  <2>2. CASE x # w
    <3>1. ItemInv(x) /\ DraftInv(x) /\ UnsettledInv(x) /\ ClaimInv(x)
      BY DEF OwnInv
    <3>2. CallInHand(x)' = CallInHand(x) /\ Claimed(x)' = Claimed(x)
      BY <1>4, <2>2 DEF CallInHand, Claimed
    <3>3. ItemInv(x)' /\ DraftInv(x)'
      BY <1>3, <1>4, <2>2, <3>1, <3>2 DEF ItemInv, DraftInv
    <3>4. UnsettledInv(x)'
      <4>1. \A e \in Exceptions : wk'[x].draft[e] # Nothing => place'[e] \notin Settled
        BY <1>4, <1>6, <2>2, <3>1 DEF OneWriter, UnsettledInv
      <4>2. wk'[x].wants \in Exceptions /\ ~wk'[x].outdated =>
              place'[wk'[x].wants] \notin Settled
        BY <1>4, <1>6, <2>2, <3>1 DEF UnsettledInv, OutdatedAfter
      <4> QED BY <4>1, <4>2 DEF UnsettledInv
    <3>5. ClaimInv(x)'
      <4>1. Claimed(x) \subseteq Events
        <5>1. x \in Drainers => wk[x] \in WorkerRecord(Events)
          BY DEF TypeOK
        <5> QED BY <5>1 DEF Claimed, WorkerRecord
      <4> QED BY <1>4, <1>8, <2>2, <3>1, <3>2, <4>1 DEF ClaimInv
    <3> QED BY <3>3, <3>4, <3>5
  <2> QED BY <2>1, <2>2
<1>11. OneWriter'
  BY <1>3, <1>4 DEF OneWriter, IdleWorker
<1>12. HandlerInv'
  <2>1. \A v \in Events : msg[v] = "NONE" => msg'[v] = "NONE"
    BY <1>2, <1>8 DEF ClaimInv, Claimed
  <2>2. \A h \in Handlers : hand[h].pc = "commit" => hand[h].event \in Events
    BY DEF TypeOK, HandlerRecord
  <2> QED BY <1>3, <2>1, <2>2 DEF HandlerInv
<1>13. ResultsComeWithTheirBatch'
  <2> SUFFICES ASSUME NEW e \in Exceptions, place'[e] \in Settled
               PROVE  \E c \in Calls :
                        e \in Members[c] /\ status'[c] = "CLOSED" /\ over[c] = place'[e]
    BY <1>3 DEF ResultsComeWithTheirBatch
  <2>1. CASE wk[w].draft[e] # Nothing
    BY <1>2, <1>5, <1>6, <1>7, <2>1 DEF DraftInv
  <2>2. CASE wk[w].draft[e] = Nothing
    BY <1>6, <1>7, <2>2 DEF ResultsComeWithTheirBatch
  <2> QED BY <2>1, <2>2
<1> QED BY <1>9, <1>10, <1>11, <1>12, <1>13

-----------------------------------------------------------------------------
(* The provider, the dispatcher and time change nothing a result rests on: a  *)
(* call that ended does not end again, and only planned rows are dispatched. *)
LEMMA SurroundingsKeep ==
    ASSUME Inv, Surroundings
    PROVE  Inv'
<1> USE DEF Inv
<1>1. UNCHANGED << msg, hand, wk, faults >>
  BY DEF Surroundings, EndCall, Dispatch, Age, BackoffElapses, db
<1>2. /\ over' \in [Calls -> {"running", "TERMINAL", "RETRY_PENDING"}]
      /\ \A c \in Calls : over[c] # "running" => over'[c] = over[c]
  <2>1. CASE \E c \in Calls : EndCall(c)
    <3>1. PICK c \in Calls : EndCall(c)
      BY <2>1
    <3>2. PICK result \in Results[c] : over' = [over EXCEPT ![c] = result]
      BY <3>1 DEF EndCall
    <3>3. result \in {"TERMINAL", "RETRY_PENDING"}
      BY <3>2, MembersAssumption
    <3>4. over[c] = "running"
      BY <3>1 DEF EndCall
    <3> QED BY <3>2, <3>3, <3>4 DEF TypeOK
  <2>2. CASE UNCHANGED over
    BY <2>2 DEF TypeOK
  <2> QED BY <2>1, <2>2 DEF Surroundings, Dispatch, Age, BackoffElapses
<1>3. /\ status' \in [Calls -> {"UNKNOWN", "DISPATCHED", "CLOSED"}]
      /\ place' \in [Exceptions -> Places]
      /\ \A c \in Calls : status[c] = "CLOSED" => status'[c] = "CLOSED"
      /\ \A e \in Exceptions : place'[e] \in Settled <=> place[e] \in Settled
      /\ \A e \in Exceptions : place[e] \in Settled => place'[e] = place[e]
  <2>1. CASE \E c \in Calls : Dispatch(c)
    BY <2>1 DEF Dispatch, TypeOK, Places, Settled
  <2>2. CASE UNCHANGED << status, place >>
    BY <2>2 DEF TypeOK
  <2> QED BY <2>1, <2>2 DEF Surroundings, EndCall, Age, BackoffElapses, db
<1>4. aged' \subseteq Calls /\ delayed' \subseteq Events
  BY DEF Surroundings, EndCall, Dispatch, Age, BackoffElapses, TypeOK
<1>5. TypeOK'
  BY <1>1, <1>2, <1>3, <1>4 DEF TypeOK
<1>6. OwnInv'
  <2> SUFFICES ASSUME NEW w \in Workers
               PROVE  ItemInv(w)' /\ DraftInv(w)' /\ UnsettledInv(w)' /\ ClaimInv(w)'
    BY DEF OwnInv
  <2>1. /\ ItemInv(w) /\ DraftInv(w) /\ UnsettledInv(w) /\ ClaimInv(w)
        /\ wk[w] \in WorkerRecord(Items(w))
    BY WorkerType DEF OwnInv
  <2>2. wk[w].pc \in {"close", "apply"} => CallInHand(w) \in Calls
    BY WorkerType
  <2>3. CallInHand(w)' = CallInHand(w) /\ Claimed(w)' = Claimed(w)
    BY <1>1 DEF CallInHand, Claimed
  <2>4. ItemInv(w)'
    BY <1>1, <1>2, <2>1, <2>2, <2>3 DEF ItemInv
  <2>5. DraftInv(w)'
    <3>1. wk[w].closes \subseteq Calls
      BY <2>1 DEF WorkerRecord
    <3>2. "running" \notin Settled
      BY DEF Settled
    <3> QED BY <1>1, <1>2, <2>1, <3>1, <3>2 DEF DraftInv
  <2>6. UnsettledInv(w)' /\ ClaimInv(w)'
    BY <1>1, <1>3, <2>1, <2>3 DEF UnsettledInv, ClaimInv
  <2> QED BY <2>4, <2>5, <2>6
<1>7. OneWriter' /\ HandlerInv'
  BY <1>1 DEF OneWriter, HandlerInv
<1>8. ResultsComeWithTheirBatch'
  <2>1. "running" \notin Settled
    BY DEF Settled
  <2> QED BY <1>2, <1>3, <2>1 DEF ResultsComeWithTheirBatch
<1> QED BY <1>5, <1>6, <1>7, <1>8

(* The receiver only adds events that are not there. *)
LEMMA HandlersKeep ==
    ASSUME Inv, NEW h \in Handlers, HandlerStep(h)
    PROVE  Inv'
<1> USE DEF Inv
<1>1. UNCHANGED << over, status, place, aged, delayed, wk, faults >>
  BY DEF HandlerStep, Receive, Insert, InsertRefused, CommitEvent, HandlerCrash, db
<1>2. \A g \in Handlers : hand[g] \in HandlerRecord
  BY DEF TypeOK
<1>3. IdleHandler \in HandlerRecord
  BY DEF IdleHandler, HandlerRecord
<1>4. hand' \in [Handlers -> HandlerRecord] /\ \A g \in Handlers \ {h} : hand'[g] = hand[g]
  <2>1. CASE \E v \in Events : Receive(h, v)
    BY <2>1 DEF Receive, TypeOK, HandlerRecord
  <2>2. CASE Insert(h)
    <3>1. [hand[h] EXCEPT !.pc = "commit"] \in HandlerRecord
      BY <1>2, <2>2 DEF Insert, HandlerRecord
    <3>2. hand' = [hand EXCEPT ![h] = [hand[h] EXCEPT !.pc = "commit"]]
      BY <2>2 DEF Insert, TypeOK
    <3> QED BY <3>1, <3>2 DEF TypeOK
  <2>3. CASE InsertRefused(h) \/ CommitEvent(h) \/ HandlerCrash(h)
    BY <1>3, <2>3 DEF InsertRefused, CommitEvent, HandlerCrash, TypeOK
  <2> QED BY <2>1, <2>2, <2>3 DEF HandlerStep
<1>5. /\ msg' \in [Events -> {"NONE", "PENDING", "DELIVERED"}]
      /\ \A v \in Events : msg[v] # "NONE" => msg'[v] # "NONE"
  <2>1. CASE CommitEvent(h)
    BY <2>1 DEF CommitEvent, TypeOK
  <2>2. CASE UNCHANGED msg
    BY <2>2 DEF TypeOK
  <2> QED BY <2>1, <2>2 DEF HandlerStep, Receive, Insert, InsertRefused, HandlerCrash, db
<1>6. TypeOK'
  BY <1>1, <1>4, <1>5 DEF TypeOK
<1>7. OwnInv'
  <2> SUFFICES ASSUME NEW w \in Workers
               PROVE  ItemInv(w)' /\ DraftInv(w)' /\ UnsettledInv(w)' /\ ClaimInv(w)'
    BY DEF OwnInv
  <2>1. ItemInv(w) /\ DraftInv(w) /\ UnsettledInv(w) /\ ClaimInv(w)
    BY DEF OwnInv
  <2>2. CallInHand(w)' = CallInHand(w) /\ Claimed(w)' = Claimed(w)
    BY <1>1 DEF CallInHand, Claimed
  <2>3. ItemInv(w)' /\ DraftInv(w)' /\ UnsettledInv(w)'
    BY <1>1, <2>1, <2>2 DEF ItemInv, DraftInv, UnsettledInv
  <2>4. Claimed(w) \subseteq Events
    <3>1. w \in Drainers => wk[w] \in WorkerRecord(Events)
      BY DEF TypeOK
    <3> QED BY <3>1 DEF Claimed, WorkerRecord
  <2>5. ClaimInv(w)'
    BY <1>1, <1>5, <2>1, <2>2, <2>4 DEF ClaimInv
  <2> QED BY <2>3, <2>5
<1>8. OneWriter' /\ ResultsComeWithTheirBatch'
  BY <1>1 DEF OneWriter, ResultsComeWithTheirBatch
<1>9. HandlerInv'
  <2>1. CASE \E v \in Events : Receive(h, v)
    <3>1. hand'[h].pc # "commit" /\ UNCHANGED msg
      BY <2>1 DEF Receive, TypeOK, db
    <3> QED BY <1>4, <3>1 DEF HandlerInv
  <2>2. CASE Insert(h)
    <3>1. /\ hand'[h] = [hand[h] EXCEPT !.pc = "commit"] /\ UNCHANGED msg
          /\ msg[hand[h].event] = "NONE" /\ ~InsertedByOther(h, hand[h].event)
      BY <2>2 DEF Insert, Insertable, TypeOK, db
    <3>2. hand'[h].event = hand[h].event
      BY <1>2, <3>1 DEF HandlerRecord
    <3>3. \A g \in Handlers \ {h} :
            ~(hand[g].pc = "commit" /\ hand[g].event = hand[h].event)
      <4> SUFFICES ASSUME NEW g \in Handlers \ {h}, hand[g].pc = "commit",
                          hand[g].event = hand[h].event
                   PROVE  FALSE
        OBVIOUS
      <4>1. hand[g] = [pc |-> "commit", event |-> hand[h].event]
        BY <1>2 DEF HandlerRecord
      <4> QED BY <3>1, <4>1 DEF InsertedByOther
    <3>4. \A k \in Handlers : hand'[k].pc = "commit" => msg'[hand'[k].event] = "NONE"
      <4> TAKE k \in Handlers
      <4>1. CASE k = h
        BY <3>1, <3>2, <4>1
      <4>2. CASE k # h
        BY <1>4, <3>1, <4>2 DEF HandlerInv
      <4> QED BY <4>1, <4>2
    <3>5. \A k, g \in Handlers :
            /\ hand'[k].pc = "commit" /\ hand'[g].pc = "commit"
            /\ hand'[g].event = hand'[k].event
            => g = k
      <4> TAKE k, g \in Handlers
      <4>1. CASE k # h /\ g # h
        BY <1>4, <4>1 DEF HandlerInv
      <4>2. CASE k = h \/ g = h
        BY <1>4, <3>2, <3>3, <4>2
      <4> QED BY <4>1, <4>2
    <3> QED BY <3>4, <3>5 DEF HandlerInv
  <2>3. CASE CommitEvent(h)
    <3>1. hand'[h].pc # "commit" /\ hand[h].pc = "commit"
      BY <2>3 DEF CommitEvent, IdleHandler, TypeOK
    <3>2. \A g \in Handlers \ {h} : hand[g].pc = "commit" =>
            hand[g].event # hand[h].event /\ msg[hand[g].event] = "NONE"
      BY <3>1 DEF HandlerInv
    <3>3. \A g \in Handlers \ {h} : hand[g].pc = "commit" => msg'[hand[g].event] = "NONE"
      BY <1>2, <2>3, <3>2 DEF CommitEvent, TypeOK, HandlerRecord
    <3> QED BY <1>4, <3>1, <3>3 DEF HandlerInv
  <2>4. CASE InsertRefused(h) \/ HandlerCrash(h)
    <3>1. hand'[h].pc # "commit" /\ UNCHANGED msg
      BY <2>4 DEF InsertRefused, HandlerCrash, IdleHandler, TypeOK, db
    <3> QED BY <1>4, <3>1 DEF HandlerInv
  <2> QED BY <2>1, <2>2, <2>3, <2>4 DEF HandlerStep
<1> QED BY <1>6, <1>7, <1>8, <1>9

LEMMA InitInv == Init => Inv
<1> SUFFICES ASSUME Init PROVE Inv
  OBVIOUS
<1>1. IdleHandler \in HandlerRecord /\ IdleHandler.pc = "idle"
  BY DEF IdleHandler, HandlerRecord
<1>2. /\ IdleWorker \in WorkerRecord(Events) /\ IdleWorker \in WorkerRecord(Calls)
      /\ IdleWorker.item = Nothing /\ IdleWorker.pc = "idle" /\ IdleWorker.wants = Nothing
      /\ IdleWorker.left = {} /\ IdleWorker.done = {} /\ IdleWorker.failed = {}
      /\ IdleWorker.todo = {} /\ \A e \in Exceptions : IdleWorker.draft[e] = Nothing
  BY DEF IdleWorker, WorkerRecord
<1>3. \A w \in Workers : wk[w] = IdleWorker
  BY DEF Init
<1>4. TypeOK
  <2>1. hand \in [Handlers -> HandlerRecord]
    BY <1>1 DEF Init
  <2>2. DOMAIN wk = Workers /\ \A w \in Workers : wk[w].item = Nothing /\ wk[w].pc = "idle"
    BY <1>2, <1>3 DEF Init
  <2>3. /\ \A w \in Drainers : wk[w] \in WorkerRecord(Events)
        /\ \A w \in Sweepers : wk[w] \in WorkerRecord(Calls)
    BY <1>2, <1>3 DEF Workers
  <2>4. faults \in 0 .. MaxFaults
    BY BoundsAssumption DEF Init
  <2> QED BY <2>1, <2>2, <2>3, <2>4 DEF Init, TypeOK, Places
<1>5. OwnInv
  BY <1>2, <1>3, NamesDiffer DEF OwnInv, ItemInv, DraftInv, UnsettledInv, ClaimInv, Claimed,
     Settled, Nothing
<1>6. OneWriter
  BY <1>2, <1>3 DEF OneWriter
<1>7. HandlerInv /\ ResultsComeWithTheirBatch
  BY <1>1 DEF Init, HandlerInv, ResultsComeWithTheirBatch, Settled
<1> QED BY <1>4, <1>5, <1>6, <1>7 DEF Inv

LEMMA WorkersKeep ==
    ASSUME Inv, NEW w \in Workers,
           Progress(w) \/ FetchFailed(w) \/ WorkerCrash(w) \/ DeadlockAbort(w)
    PROVE  Inv'
<1>1. CASE Claim(w) \/ Sweep(w)
  BY <1>1, PassKeeps
<1>2. CASE (\E c \in Calls : TakeBatch(w, c)) \/ (\E v \in Events : TakeMessage(w, v))
  BY <1>2, TakeKeeps
<1>3. CASE \E e \in Exceptions : RowStep(w, e)
  BY <1>3, ReadKeeps, WriteKeeps, FaultKeeps DEF RowStep
<1>4. CASE WriteAwaited(w) \/ Conflict(w)
  BY <1>4, WriteKeeps, ConflictKeeps
<1>5. CASE FetchEnded(w) \/ FetchRunning(w) \/ ItemDone(w)
  BY <1>5, ItemKeeps
<1>6. CASE CloseBatch(w) \/ AwaitBatch(w) \/ Commit(w)
  BY <1>6, CloseKeeps, CommitKeeps
<1>7. CASE FetchFailed(w) \/ WorkerCrash(w) \/ DeadlockAbort(w)
  BY <1>7, FaultKeeps
<1> QED BY <1>1, <1>2, <1>3, <1>4, <1>5, <1>6, <1>7 DEF Progress

LEMMA NextInv ==
    ASSUME Inv, [Next]_vars
    PROVE  Inv'
<1>1. CASE UNCHANGED vars
  BY <1>1 DEF vars, outside, db, Inv, TypeOK, OwnInv, ItemInv, DraftInv, UnsettledInv,
     ClaimInv, Claimed, CallInHand, OneWriter, HandlerInv, ResultsComeWithTheirBatch
<1> QED BY <1>1, SurroundingsKeep, HandlersKeep, WorkersKeep DEF Next

LEMMA InvHolds == Spec => []Inv
<1> QED BY InitInv, NextInv, PTL DEF Spec

-----------------------------------------------------------------------------
(***************************************************************************)
(* The theorems.                                                           *)
(***************************************************************************)

(* Every row and every open transaction holds what it can hold; in particular *)
(* no worker writes the outcome of a call that is still running, and none has *)
(* an item in hand except while it works on it (workers/runner.py 73).        *)
THEOREM TypeCorrect == Spec => []TypeOK
<1>1. Inv => TypeOK
  BY DEF Inv
<1> QED BY <1>1, InvHolds, PTL

(* Whatever a pass wrote before one of its items failed, conflicted or was     *)
(* refused, and whatever is rolled back: a result is never in the database     *)
(* without the closed batch of the call that gave it (process_terminal_call). *)
THEOREM ResultsHaveTheirBatch == Spec => []ResultsComeWithTheirBatch
<1>1. Inv => ResultsComeWithTheirBatch
  BY DEF Inv
<1> QED BY <1>1, InvHolds, PTL

(* Only a commit changes the state of a delivered message, and that to the same; *)
(* an event that is being recorded has no message yet.                        *)
LEMMA DeliveredStays ==
    ASSUME Inv, [Next]_vars, NEW v \in Events, msg[v] = "DELIVERED"
    PROVE  msg'[v] = "DELIVERED"
<1>1. CASE UNCHANGED msg
  BY <1>1
<1>2. ASSUME NEW h \in Handlers, CommitEvent(h) PROVE msg'[v] = "DELIVERED"
  <2>1. msg[hand[h].event] = "NONE"
    BY <1>2 DEF CommitEvent, Inv, HandlerInv
  <2> QED BY <1>2, <2>1 DEF CommitEvent, Inv, TypeOK
<1>3. ASSUME NEW w \in Workers, Commit(w) PROVE msg'[v] = "DELIVERED"
  BY <1>3 DEF Commit, MessageAfter
<1>4. ASSUME NEW h \in Handlers, HandlerStep(h), ~CommitEvent(h) PROVE UNCHANGED msg
  BY <1>4 DEF HandlerStep, Receive, Insert, InsertRefused, HandlerCrash, db
<1>5. ASSUME Surroundings PROVE UNCHANGED msg
  BY <1>5 DEF Surroundings, EndCall, Dispatch, Age, BackoffElapses, db
<1>6. ASSUME NEW w \in Workers, ~Commit(w),
             Progress(w) \/ FetchFailed(w) \/ WorkerCrash(w) \/ DeadlockAbort(w)
      PROVE UNCHANGED msg
  BY <1>6 DEF Progress, Claim, Sweep, TakeBatch, TakeMessage, RowStep, PassBy, WriteRow, AwaitRow,
     ApplyRefused, WriteAwaited, Conflict, FetchEnded, FetchRunning, CloseBatch, AwaitBatch,
     ItemDone, FetchFailed, WorkerCrash, DeadlockAbort, outside, db
<1>7. CASE UNCHANGED vars
  BY <1>7 DEF vars, outside, db
<1> QED BY <1>1, <1>2, <1>3, <1>4, <1>5, <1>6, <1>7 DEF Next

(* The unique index, the deduplication on the event id and the claims' locks   *)
(* leave an event no second processing (register_webhook_event, enqueue).    *)
THEOREM EventsAreProcessedOnce == Spec => EventIsProcessedOnce
<1>1. Inv /\ [Next]_vars =>
        [\A v \in Events : msg[v] = "DELIVERED" => msg'[v] = "DELIVERED"]_vars
  BY DeliveredStays
<1> QED BY <1>1, InvHolds, PTL DEF Spec, EventIsProcessedOnce

(* A committed row was read unsettled on a version that still held, so a       *)
(* settled one is in nobody's draft.                                         *)
LEMMA SettledStays ==
    ASSUME Inv, [Next]_vars, NEW e \in Exceptions, place[e] \in Settled
    PROVE  place'[e] = place[e]
<1>1. ASSUME NEW w \in Workers, Commit(w) PROVE place'[e] = place[e]
  <2>1. wk[w].draft[e] = Nothing
    BY DEF Inv, OwnInv, UnsettledInv
  <2> QED BY <1>1, <2>1 DEF Commit, PlaceSeen
<1>2. ASSUME Surroundings PROVE place'[e] = place[e]
  <2>1. ASSUME NEW c \in Calls, Dispatch(c) PROVE place'[e] = place[e]
    BY <2>1 DEF Dispatch, Settled
  <2> QED BY <1>2, <2>1 DEF Surroundings, EndCall, Age, BackoffElapses, db
<1>3. ASSUME NEW h \in Handlers, HandlerStep(h) PROVE UNCHANGED place
  BY <1>3 DEF HandlerStep, Receive, Insert, InsertRefused, CommitEvent, HandlerCrash, db
<1>4. ASSUME NEW w \in Workers, ~Commit(w),
             Progress(w) \/ FetchFailed(w) \/ WorkerCrash(w) \/ DeadlockAbort(w)
      PROVE UNCHANGED place
  BY <1>4 DEF Progress, Claim, Sweep, TakeBatch, TakeMessage, RowStep, PassBy, WriteRow, AwaitRow,
     ApplyRefused, WriteAwaited, Conflict, FetchEnded, FetchRunning, CloseBatch, AwaitBatch,
     ItemDone, FetchFailed, WorkerCrash, DeadlockAbort, outside, db
<1>5. CASE UNCHANGED vars
  BY <1>5 DEF vars, outside, db
<1> QED BY <1>1, <1>2, <1>3, <1>4, <1>5 DEF Next

(* Row locks and compared versions keep a result that is committed, however    *)
(* many workers waited to write another over it (transition_exception).      *)
THEOREM SettledIsFinalAlways == Spec => SettledIsFinal
<1>1. Inv /\ [Next]_vars =>
        [\A e \in Exceptions : place[e] \in Settled => place'[e] = place[e]]_vars
  BY SettledStays
<1> QED BY <1>1, InvHolds, PTL DEF Spec, SettledIsFinal
=============================================================================
