--------------------------- MODULE ProviderClient ---------------------------
(***************************************************************************)
(* How one batch becomes one call at the provider: the choice between the  *)
(* simulator and the live transports (services/provider.py), the create    *)
(* request with its retries under one idempotency key (client.py and       *)
(* sdk_client.py), the commit that records the answer (dispatch_batch), and *)
(* the later choice of whom to ask about the call (_provider_for).         *)
(*                                                                         *)
(* The API and the worker are separate processes: each has its own settings *)
(* and its own in-memory simulator, and a restart loses the second and may  *)
(* change the first.  A request whose answer was given up on stays in       *)
(* `flying` and may reach the provider at any later time.                  *)
(***************************************************************************)
EXTENDS Integers, FiniteSets

CONSTANTS
    Processes,          \* the processes that dispatch and reconcile
    Batches,            \* the batches planned, one logical call each
    Listed,             \* those whose numbers are all on the allowlist
    Settings,           \* the settings a process can be deployed with
    MaxCreateAttempts,  \* client.py MAX_CREATE_ATTEMPTS
    MaxRestarts,        \* bound: restarts over a behaviour
    None                \* no batch, no reconciliation

ASSUME ClientAssumption ==
    /\ Listed \subseteq Batches
    /\ Settings \subseteq [live : BOOLEAN, key : BOOLEAN, sdk : BOOLEAN]
    /\ MaxCreateAttempts \in Nat \ {0}
    /\ MaxRestarts \in Nat
    /\ None \notin Batches

VARIABLES
    settings,   \* [Processes -> Settings], what each process was started with
    batch,      \* the CallBatch rows
    work,       \* the create each process is in the middle of
    flying,     \* live requests that left a process and are not yet delivered
    placed,     \* the requests the live provider turned into calls
    mocked,     \* the calls each process's in-memory simulator holds
    asked,      \* the last reconciliation: of which batch, whom, what it knew
    restarts    \* restarts so far

vars == <<settings, batch, work, flying, placed, mocked, asked, restarts>>

-----------------------------------------------------------------------------
(* What the provider's side can answer to one create request. *)

Transient == {"rate_limited", "server_error", "timeout"}
Definite  == {"unauthorised", "conflict", "rejected", "garbled"}
Answers   == {"created"} \union Transient \union Definite

\* The mutant derives a new key for every try.
RequestPerTry(b, try) == [batch |-> b, key |-> try]

(* A request: the batch it is for and the idempotency key it carries, as a   *)
(* number that tells apart the keys used for one batch.  The key is derived *)
(* from the batch's members once, before the first try.                     *)
Request(b, try) == [batch |-> b, key |-> 0]

BatchRows == [status : {"new", "PENDING", "DISPATCHED", "FAILED"},
              isLive : BOOLEAN, stored : BOOLEAN]

Idle == [stage |-> "idle", batch |-> None, tries |-> 0, heard |-> "none"]

LiveCallsEnabled(s) == s.live /\ s.key

\* The mutant forgets the allowlist.
GoesLiveUnlisted(s, b) == LiveCallsEnabled(s)

(* The interlock: a live call needs both switches and a listed number. *)
GoesLive(s, b) == LiveCallsEnabled(s) /\ b \in Listed

\* The mutant stores the deployment's switch instead of the choice made.
MarkedBySwitch(s, b) == LiveCallsEnabled(s)

\* What the row keeps of that choice.
MarkedLive(s, b) == GoesLive(s, b)

\* The mutant retries every ProviderError.
RetriedOnAnyError(s, answer) ==
    ~s.sdk /\ answer \in {"rate_limited", "server_error"} \union Definite

(* The errors create_call sends again after: only the raw HTTP client loops, *)
(* and a post that times out raises before _unwrap can classify it.          *)
Retried(s, answer) == ~s.sdk /\ answer \in {"rate_limited", "server_error"}

\* The mutant allows one try too many.
TriesLeftOffByOne(tries) == tries <= MaxCreateAttempts

TriesLeft(tries) == tries < MaxCreateAttempts

(* The raw client's timeout is no ResolveEError: dispatch_batch does not     *)
(* catch it, and the batch stays PENDING.                                   *)
Escapes(s, answer) == ~s.sdk /\ answer = "timeout"

-----------------------------------------------------------------------------
Init ==
    /\ settings \in [Processes -> Settings]
    /\ batch = [b \in Batches |-> [status |-> "new", isLive |-> FALSE,
                                   stored |-> FALSE]]
    /\ work = [p \in Processes |-> Idle]
    /\ flying = {}
    /\ placed = {}
    /\ mocked = [p \in Processes |-> {}]
    /\ asked = None
    /\ restarts = 0

(* dispatch_batch up to its first commit: the row and its is_live are stored *)
(* before the provider is touched.                                           *)
Begin(p, b) ==
    /\ work[p].stage = "idle"
    /\ batch[b].status = "new"
    /\ batch' = [batch EXCEPT
           ![b] = [status |-> "PENDING",
                   isLive |-> MarkedLive(settings[p], b),
                   stored |-> FALSE]]
    /\ work' = [work EXCEPT
           ![p] = [stage |-> IF GoesLive(settings[p], b) THEN "posting"
                             ELSE "simulating",
                   batch |-> b, tries |-> 0, heard |-> "none"]]
    /\ UNCHANGED <<settings, flying, placed, mocked, asked, restarts>>

\* MockCalleProvider.create_call: the call is in this process's memory.
Simulate(p) ==
    /\ work[p].stage = "simulating"
    /\ mocked' = [mocked EXCEPT ![p] = @ \union {work[p].batch}]
    /\ work' = [work EXCEPT ![p].stage = "created"]
    /\ UNCHANGED <<settings, batch, flying, placed, asked, restarts>>

\* One POST /v1/calls.
Post(p) ==
    /\ work[p].stage = "posting"
    /\ flying' = flying \union {Request(work[p].batch, work[p].tries)}
    /\ work' = [work EXCEPT
           ![p] = [stage |-> "waiting", batch |-> @.batch,
                   tries |-> @.tries + 1, heard |-> "none"]]
    /\ UNCHANGED <<settings, batch, placed, mocked, asked, restarts>>

(* The provider receives a request, possibly long after its sender gave up,  *)
(* and creates the call unless it already holds one for that key.           *)
Deliver(r) ==
    /\ r \in flying
    /\ flying' = flying \ {r}
    /\ placed' = placed \union {r}
    /\ UNCHANGED <<settings, batch, work, mocked, asked, restarts>>

(* An answer reaches a waiting create.  A success needs the call to exist;   *)
(* an error may come with or without the request having had its effect.     *)
Answer(p, answer) ==
    /\ work[p].stage = "waiting"
    /\ answer \in {"created", "garbled"} =>
           \E r \in placed : r.batch = work[p].batch
    /\ answer = "garbled" => ~settings[p].sdk
    /\ LET again == Retried(settings[p], answer) /\ TriesLeft(work[p].tries)
           next  == IF answer = "created" THEN "created"
                    ELSE IF again THEN "posting"
                    ELSE IF Escapes(settings[p], answer) THEN "idle"
                    ELSE "failing"
       IN  work' = [work EXCEPT
               ![p] = [stage |-> next, batch |-> @.batch,
                       tries |-> @.tries, heard |-> answer]]
    /\ UNCHANGED <<settings, batch, flying, placed, mocked, asked, restarts>>

\* The second commit, when the create raised a classified error.
RecordFailure(p) ==
    /\ work[p].stage = "failing"
    /\ batch' = [batch EXCEPT ![work[p].batch].status = "FAILED"]
    /\ work' = [work EXCEPT ![p].stage = "idle"]
    /\ UNCHANGED <<settings, flying, placed, mocked, asked, restarts>>

\* The mutant leaves the simulated call in this process's memory only.
SnapshotForgotten(row) == FALSE

\* What dispatch_batch stores for other processes: a simulated call's payload.
Snapshot(row) == ~row.isLive

\* The second commit, when the create returned a handle.
RecordCall(p) ==
    /\ work[p].stage = "created"
    /\ LET b == work[p].batch
       IN  batch' = [batch EXCEPT
               ![b] = [status |-> "DISPATCHED", isLive |-> @.isLive,
                       stored |-> Snapshot(@)]]
    /\ work' = [work EXCEPT ![p].stage = "idle"]
    /\ UNCHANGED <<settings, flying, placed, mocked, asked, restarts>>

\* The mutant asks whoever the process would dispatch to today.
ProviderForToday(p, b) ==
    IF LiveCallsEnabled(settings[p])
    THEN "calle"
    ELSE IF b \notin mocked[p] /\ batch[b].stored THEN "stored" ELSE "mock"

(* Whom a process asks about a batch: the simulator in memory, the payload   *)
(* stored on the row, or the live provider, which needs a key to be built.  *)
ProviderFor(p, b) ==
    IF batch[b].isLive
    THEN IF settings[p].key THEN "calle" ELSE "unconfigured"
    ELSE IF b \notin mocked[p] /\ batch[b].stored THEN "stored" ELSE "mock"

Knows(p, whom, b) ==
    \/ whom = "calle" /\ \E r \in placed : r.batch = b
    \/ whom = "mock" /\ b \in mocked[p]
    \/ whom = "stored" /\ batch[b].stored

(* reconcile_call: only a batch with a provider_call_id is ever reconciled.  *)
(* Its refresh of the stored payload stores what is there already.          *)
Reconcile(p, b) ==
    /\ work[p].stage = "idle"
    /\ batch[b].status = "DISPATCHED"
    /\ LET whom == ProviderFor(p, b)
       IN  asked' = [batch |-> b, whom |-> whom, knew |-> Knows(p, whom, b)]
    /\ UNCHANGED <<settings, batch, work, flying, placed, mocked, restarts>>

(* A process dies, in the middle of a create or not, and comes back with the *)
(* settings of the day; what was committed stays, the simulator is empty.   *)
Restart(p, s) ==
    /\ restarts < MaxRestarts
    /\ restarts' = restarts + 1
    /\ settings' = [settings EXCEPT ![p] = s]
    /\ work' = [work EXCEPT ![p] = Idle]
    /\ mocked' = [mocked EXCEPT ![p] = {}]
    /\ UNCHANGED <<batch, flying, placed, asked>>

ProcessStep(p) ==
    \/ \E b \in Batches : Begin(p, b) \/ Reconcile(p, b)
    \/ Simulate(p)
    \/ Post(p)
    \/ \E answer \in Answers : Answer(p, answer)
    \/ RecordFailure(p)
    \/ RecordCall(p)
    \/ \E s \in Settings : Restart(p, s)

Next ==
    \/ \E p \in Processes : ProcessStep(p)
    \/ \E r \in flying : Deliver(r)

Spec == Init /\ [][Next]_vars

-----------------------------------------------------------------------------
(* The type invariant: in particular a create never makes more than         *)
(* MaxCreateAttempts requests (client.py's loop).                           *)
TypeOK ==
    /\ settings \in [Processes -> Settings]
    /\ batch \in [Batches -> BatchRows]
    /\ work \in [Processes ->
           [stage : {"idle", "simulating", "posting", "waiting", "created",
                     "failing"},
            batch : Batches \union {None},
            tries : 0 .. MaxCreateAttempts,
            heard : Answers \union {"none"}]]
    /\ \A r \in flying \union placed : r.batch \in Batches
    /\ mocked \in [Processes -> SUBSET Batches]
    /\ asked = None \/ asked \in
           [batch : Batches, knew : BOOLEAN,
            whom : {"calle", "unconfigured", "mock", "stored"}]
    /\ restarts \in 0 .. MaxRestarts

(* However often a create is retried, given up on, or delivered late, the    *)
(* provider ends up with at most one call per batch: the key the raw client  *)
(* sends is the same on every try (client.py create_call).                   *)
OneCallPerBatch ==
    \A r1, r2 \in placed : r1.batch = r2.batch => r1 = r2

(* The is_live flag the operator sees tells the truth whatever happened in   *)
(* between: nothing dialled is shown as simulated, and what is shown as a    *)
(* dispatched live call exists at the provider (provider.py select_provider: *)
(* "a mocked call can never be mistaken for a real one").                    *)
IsLiveIsTruthful ==
    /\ \A r \in flying \union placed : batch[r.batch].isLive
    /\ \A b \in Batches :
           batch[b].isLive /\ batch[b].status = "DISPATCHED" =>
               \E r \in placed : r.batch = b

(* No number outside the allowlist is ever dialled or on its way to be,      *)
(* whatever settings the processes were restarted with since (provider.py    *)
(* assert_numbers_allowed).                                                  *)
OnlyListedIsDialled == \A r \in flying \union placed : r.batch \in Listed

(* Whichever process reconciles a call, after whatever restarts and switches *)
(* of settings, it asks somebody who holds that call; the one exception is a *)
(* live call looked up by a process deployed without a key (_provider_for).  *)
OwnerIsAsked ==
    asked # None =>
        /\ asked.whom # "unconfigured" => asked.knew
        /\ asked.whom \in {"calle", "unconfigured"} <=> batch[asked.batch].isLive

(* A refusal that a repetition cannot change is not repeated: after bad      *)
(* credentials, a key conflict, a rejected request or an unreadable success, *)
(* no step of that process posts the create again (_unwrap and the except    *)
(* clause of create_call).                                                   *)
DefiniteErrorsEndTheCreate ==
    [][\A p \in Processes :
           work[p].stage = "waiting" /\ work'[p].heard \in Definite =>
               work'[p].stage # "posting"]_vars

(* What the documents promise of a create that times out: it is sent again   *)
(* with the same key while tries remain (docs/reliability-and-failure.md     *)
(* section 4, the docstring of client.py create_call, and the row "Create    *)
(* times out after CALL-E received it" of README's reliability table).       *)
TimedOutCreatesAreRetried ==
    [][\A p \in Processes :
           /\ work[p].stage = "waiting"
           /\ work[p].tries < MaxCreateAttempts
           /\ work'[p].heard = "timeout"
           => work'[p].stage = "posting"]_vars
=============================================================================
