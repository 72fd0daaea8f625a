------------------------------ MODULE Sandbox -------------------------------
(***************************************************************************)
(* The runtime of one scope: the sandbox provisioner that owns its         *)
(* container, the ProvisionerSandboxProvider of each client process, and   *)
(* the requests that use the container through the provisioner's proxy.    *)
(*                                                                         *)
(* The provisioner is one process whose pins, quiescence gate and activity *)
(* map live in memory.  Docker backend: a generation is a container id,    *)
(* numbered in the order of creation, and the sandbox lock makes create    *)
(* and delete of a container one step each.  A provider call holds the     *)
(* scope lock of its process, so a client is in one call at a time; the    *)
(* HTTP calls inside it, and what the provisioner does for each, are its   *)
(* steps.  Workdir identity and URLs never change here and are left out.   *)
(*                                                                         *)
(* A proxied request can be cancelled at every await.  The code gives its  *)
(* pin back in two of the four places; the pins that it leaves behind in   *)
(* the others are "leaked": they have no holder any more.                  *)
(***************************************************************************)
EXTENDS Naturals, FiniteSets

CONSTANTS
    Client,      \* processes with a provider: workers release, the API shuts down
    Proxy,       \* requests through the provisioner's proxy
    Reaper,      \* the idle reaper thread
    Quiesce,     \* the handler that empties the provisioner for a migration
    PoolSize,    \* threads of the event loop's default executor
    MaxGen,      \* bound: containers created in a behaviour
    MaxFaults    \* bound: restarts, backend errors, client timeouts, cancelled requests

Deleter == Client \cup {Reaper, Quiesce}
Gen     == 0..MaxGen            \* 0: no container

ASSUME HoldersDistinct ==
    /\ Client \cap Proxy = {}
    /\ Reaper # Quiesce /\ {Reaper, Quiesce} \cap (Client \cup Proxy) = {}
ASSUME BoundsAreCounts == MaxGen \in Nat /\ MaxFaults \in Nat /\ PoolSize \in Nat \ {0}

VARIABLES
    container,   \* the generation that exists
    newest,      \* the last generation created
    pins,        \* SandboxOperationPins._active: who holds a pin
    leaked,      \* ... and whether _active counts pins that nobody will give back
    deleting,    \* SandboxOperationPins._deleting holds the sandbox
    gate,        \* SandboxQuiescenceGate, and whether quiesce has succeeded
    creating,    \* creates the gate has let in
    activity,    \* SandboxIdleReaper._last_activity_at: generation and freshness
    del, want,   \* delete handlers: where they are, and the generation they expect
    cache,       \* provider _connections: the cached generation
    pc, seen,    \* where a provider call is, and the record it received
    cleaning,    \* the client owes a release (runtime_cleanup_pending)
    known,       \* history: the newest container when c read the generation that its
                 \* cache, its call and its delete handler name, 0 when they name none
    proxy,       \* where a proxy request is
    faults       \* faults so far

serverVars == <<container, newest, pins, leaked, deleting, gate, creating, activity, del, want>>
clientVars == <<cache, pc, seen, cleaning, known>>
vars == <<container, newest, pins, leaked, deleting, gate, creating, activity, del, want, cache,
          pc, seen, cleaning, known, proxy, faults>>

Untracked == [gen |-> 0, fresh |-> FALSE]

(* Where a provider call is:                                               *)
(*   look, looked      discover (and touch), before and after its read     *)
(*   enter, gated, creating, created   create: gate, pin, backend, touch   *)
(*   delete, deleting  about to call delete, waiting for its answer        *)
TypeOK ==
    /\ container \in Gen /\ newest \in Gen
    /\ pins     \in SUBSET (Client \cup Proxy)
    /\ leaked   \in BOOLEAN
    /\ deleting \in BOOLEAN
    /\ gate     \in {"open", "closing", "empty"}
    /\ creating = {c \in Client : pc[c] \in {"gated", "creating"}}
    /\ activity \in [gen : Gen, fresh : BOOLEAN]
    /\ del      \in [Deleter -> {"none", "waiting", "drained", "deleted", "failed"}]
    /\ want     \in [Deleter -> Gen]
    /\ cache    \in [Client -> Gen]
    /\ pc       \in [Client -> {"idle", "look", "looked", "enter", "gated", "creating",
                                "created", "delete", "deleting"}]
    /\ seen     \in [Client -> Gen]
    /\ cleaning \in [Client -> BOOLEAN]
    /\ known    \in [Client -> [cache : Gen, call : Gen, delete : Gen]]
    /\ proxy    \in [Proxy -> {"none", "queued", "acquiring", "orphaned", "pinned", "streaming"}]
    /\ faults   \in 0..MaxFaults

Init ==
    /\ container = 0 /\ newest = 0
    /\ pins     = {}
    /\ leaked   = FALSE
    /\ deleting = FALSE
    /\ gate     = "open"
    /\ creating = {}
    /\ activity = Untracked
    /\ del      = [d \in Deleter |-> "none"]
    /\ want     = [d \in Deleter |-> 0]
    /\ cache    = [c \in Client |-> 0]
    /\ pc       = [c \in Client |-> "idle"]
    /\ seen     = [c \in Client |-> 0]
    /\ cleaning = [c \in Client |-> FALSE]
    /\ known    = [c \in Client |-> [cache |-> 0, call |-> 0, delete |-> 0]]
    /\ proxy    = [p \in Proxy |-> "none"]
    /\ faults   = 0

-----------------------------------------------------------------------------
(* Shared operations of the provisioner.                                   *)

Fault == faults < MaxFaults /\ faults' = faults + 1

\* Mutant: a request passes through a deletion.
MayPinAlways == TRUE

\* SandboxOperationPins.acquire returns.
MayPin == ~deleting

\* begin_delete returns.
Drained == pins = {} /\ ~leaked

\* SandboxIdleReaper.touch.
Touch(g) == activity' = [gen |-> g, fresh |-> TRUE]

\* SandboxIdleReaper.forget with the expected generation.
Forget(g) == activity' = IF g = 0 \/ activity.gen = g THEN Untracked ELSE activity

\* begin_delete marks the sandbox and starts to wait.
BeginDelete(d, g) ==
    /\ del' = [del EXCEPT ![d] = "waiting"]
    /\ want' = [want EXCEPT ![d] = g]
    /\ deleting' = TRUE

Drain(d) ==
    /\ del[d] = "waiting"
    /\ Drained
    /\ del' = [del EXCEPT ![d] = "drained"]
    /\ UNCHANGED <<container, newest, pins, leaked, deleting, gate, creating, activity, want,
                   clientVars, proxy, faults>>

\* Mutant: the expected generation is not compared.
HitsAnything(d) == TRUE

\* backend.delete removes the container or finds none: no mismatch.
Hits(d) == want[d] = 0 \/ container \in {0, want[d]}

\* Mutant: end_delete is skipped when the delete raises.
EndDeleteOnSuccess(d) == deleting' = (del'[d] = "failed")

\* end_delete of d takes the sandbox out of _deleting, whoever else still deletes it.
EndDelete(d) == deleting' = FALSE

\* backend.delete of handler d; a backend error leaves the container.
Execute(d) ==
    \/ /\ Hits(d)
       /\ container' = 0
       /\ del' = [del EXCEPT ![d] = "deleted"]
       /\ UNCHANGED faults
    \/ /\ ~Hits(d)
       /\ del' = [del EXCEPT ![d] = "failed"]
       /\ UNCHANGED <<container, faults>>
    \/ /\ Fault
       /\ del' = [del EXCEPT ![d] = "failed"]
       /\ UNCHANGED container

-----------------------------------------------------------------------------
(* The provider: get and release.                                          *)

\* get: a cached connection is checked, a missing one created.
StartGet(c) ==
    /\ pc[c] = "idle"
    /\ ~cleaning[c]
    /\ pc' = [pc EXCEPT ![c] = IF cache[c] # 0 THEN "look" ELSE "enter"]
    /\ UNCHANGED <<serverVars, cache, seen, cleaning, known, proxy, faults>>

\* release: the generation comes from the cache, or else from discover.  An owed
\* cleanup is retried until it succeeds.
StartRelease(c) ==
    /\ pc[c] = "idle"
    /\ cleaning' = [cleaning EXCEPT ![c] = TRUE]
    /\ IF cache[c] # 0
       THEN /\ pc' = [pc EXCEPT ![c] = "delete"]
            /\ seen' = [seen EXCEPT ![c] = cache[c]]
            /\ known' = [known EXCEPT ![c].call = known[c].cache]
       ELSE pc' = [pc EXCEPT ![c] = "look"] /\ UNCHANGED <<seen, known>>
    /\ UNCHANGED <<serverVars, cache, proxy, faults>>

\* shutdown: forget the connections and delete what they name.
Shutdown(c) ==
    /\ pc[c] = "idle"
    /\ cache[c] # 0
    /\ cache' = [cache EXCEPT ![c] = 0]
    /\ pc' = [pc EXCEPT ![c] = "delete"]
    /\ seen' = [seen EXCEPT ![c] = cache[c]]
    /\ known' = [known EXCEPT ![c].call = known[c].cache, ![c].cache = 0]
    /\ UNCHANGED <<serverVars, cleaning, proxy, faults>>

\* get_sandbox and touch_sandbox: pin, then discover.  A container that does not
\* become ready in time is reported like a missing one.
Look(c) ==
    /\ pc[c] = "look"
    /\ MayPin
    /\ pins' = pins \cup {c}
    /\ \E record \in {container, 0} :
          /\ seen' = [seen EXCEPT ![c] = record]
          /\ known' = [known EXCEPT ![c].call = IF record # 0 THEN newest ELSE 0]
    /\ pc' = [pc EXCEPT ![c] = "looked"]
    /\ UNCHANGED <<container, newest, leaked, deleting, gate, creating, activity, del, want,
                   cache, cleaning, proxy, faults>>

\* ... touch, unpin and answer.  A release of a missing sandbox is done; a get drops
\* its cache and creates.
Looked(c) ==
    LET g == seen[c] IN
    /\ pc[c] = "looked"
    /\ pins' = pins \ {c}
    /\ IF g # 0 THEN Touch(g) ELSE UNCHANGED activity
    /\ \/ /\ cleaning[c] /\ g # 0
          /\ pc' = [pc EXCEPT ![c] = "delete"]
          /\ UNCHANGED <<cache, cleaning, seen, known>>
       \/ /\ cleaning[c] /\ g = 0
          /\ pc' = [pc EXCEPT ![c] = "idle"]
          /\ cleaning' = [cleaning EXCEPT ![c] = FALSE]
          /\ UNCHANGED <<cache, seen, known>>
       \/ /\ ~cleaning[c]
          /\ cache' = [cache EXCEPT ![c] = g]
          /\ known' = [known EXCEPT ![c].cache = known[c].call, ![c].call = 0]
          /\ seen' = [seen EXCEPT ![c] = 0]
          /\ pc' = [pc EXCEPT ![c] = IF g # 0 THEN "idle" ELSE "enter"]
          /\ UNCHANGED cleaning
    /\ UNCHANGED <<container, newest, leaked, deleting, gate, creating, del, want, proxy, faults>>

\* ... or the backend raises: a get goes on with its cached connection, and a
\* release fails.
LookFails(c) ==
    /\ pc[c] = "looked"
    /\ Fault
    /\ pins' = pins \ {c}
    /\ seen' = [seen EXCEPT ![c] = 0]
    /\ known' = [known EXCEPT ![c].call = 0]
    /\ pc' = [pc EXCEPT ![c] = "idle"]
    /\ UNCHANGED <<container, newest, leaked, deleting, gate, creating, activity, del, want,
                   cache, cleaning, proxy>>

\* create_sandbox: the quiescence gate lets the create in or answers 503.
EnterGate(c) ==
    /\ pc[c] = "enter"
    /\ \/ /\ gate = "open"
          /\ creating' = creating \cup {c}
          /\ pc' = [pc EXCEPT ![c] = "gated"]
       \/ /\ gate # "open"
          /\ pc' = [pc EXCEPT ![c] = "idle"]
          /\ UNCHANGED creating
    /\ UNCHANGED <<container, newest, pins, leaked, deleting, gate, activity, del, want, cache,
                   seen, cleaning, known, proxy, faults>>

PinCreate(c) ==
    /\ pc[c] = "gated"
    /\ MayPin
    /\ pins' = pins \cup {c}
    /\ pc' = [pc EXCEPT ![c] = "creating"]
    /\ UNCHANGED <<container, newest, leaked, deleting, gate, creating, activity, del, want,
                   cache, seen, cleaning, known, proxy, faults>>

\* Mutant: release_create only after a successful create.
LeaveGateOnSuccess(c) == creating' = IF pc'[c] = "created" THEN creating \ {c} ELSE creating

\* SandboxQuiescenceGate.release_create.
LeaveGate(c) == creating' = creating \ {c}

\* backend.create under the sandbox lock: reuse a healthy container, replace a
\* missing or unhealthy one, or fail and clean up.  Then unpin and leave the gate.
Create(c) ==
    /\ pc[c] = "creating"
    /\ \/ /\ container # 0
          /\ seen' = [seen EXCEPT ![c] = container]
          /\ known' = [known EXCEPT ![c].call = newest]
          /\ pc' = [pc EXCEPT ![c] = "created"]
          /\ UNCHANGED <<container, newest>>
       \/ /\ newest < MaxGen
          /\ newest' = newest + 1
          /\ container' = newest + 1
          /\ seen' = [seen EXCEPT ![c] = newest + 1]
          /\ known' = [known EXCEPT ![c].call = newest + 1]
          /\ pc' = [pc EXCEPT ![c] = "created"]
       \/ /\ container' = 0
          /\ pc' = [pc EXCEPT ![c] = "idle"]
          /\ UNCHANGED <<newest, seen, known>>
    /\ pins' = pins \ {c}
    /\ LeaveGate(c)
    /\ UNCHANGED <<leaked, deleting, gate, activity, del, want, cache, cleaning, proxy, faults>>

\* The touch comes after the unpin; then the client caches the record.
Created(c) ==
    /\ pc[c] = "created"
    /\ Touch(seen[c])
    /\ cache' = [cache EXCEPT ![c] = seen[c]]
    /\ known' = [known EXCEPT ![c].cache = known[c].call, ![c].call = 0]
    /\ seen' = [seen EXCEPT ![c] = 0]
    /\ pc' = [pc EXCEPT ![c] = "idle"]
    /\ UNCHANGED <<container, newest, pins, leaked, deleting, gate, creating, del, want, cleaning,
                   proxy, faults>>

\* delete_sandbox begins.  A client has one delete handler at a time.
CallDelete(c) ==
    /\ pc[c] = "delete"
    /\ del[c] = "none"
    /\ BeginDelete(c, seen[c])
    /\ known' = [known EXCEPT ![c].delete = known[c].call, ![c].call = 0]
    /\ seen' = [seen EXCEPT ![c] = 0]
    /\ pc' = [pc EXCEPT ![c] = "deleting"]
    /\ UNCHANGED <<container, newest, pins, leaked, gate, creating, activity, cache, cleaning,
                   proxy, faults>>

Delete(c) ==
    /\ del[c] = "drained"
    /\ Execute(c)
    /\ EndDelete(c)
    /\ UNCHANGED <<newest, pins, leaked, gate, creating, activity, want, clientVars, proxy>>

\* delete_sandbox forgets the activity and answers.  The callers that owe a cleanup
\* pass clear_cache_on_delete_failure, so the connection is dropped either way.
DeleteReturns(c) ==
    /\ del[c] \in {"deleted", "failed"}
    /\ IF del[c] = "deleted" THEN Forget(want[c]) ELSE UNCHANGED activity
    /\ IF pc[c] = "deleting"
       THEN /\ cache' = [cache EXCEPT ![c] = 0]
            /\ known' = [known EXCEPT ![c].cache = 0, ![c].delete = 0]
            /\ cleaning' = [cleaning EXCEPT ![c] = @ /\ del[c] = "failed"]
            /\ pc' = [pc EXCEPT ![c] = "idle"]
       ELSE /\ known' = [known EXCEPT ![c].delete = 0]
            /\ UNCHANGED <<cache, cleaning, pc>>
    /\ del' = [del EXCEPT ![c] = "none"]
    /\ want' = [want EXCEPT ![c] = 0]
    /\ UNCHANGED <<container, newest, pins, leaked, deleting, gate, creating, seen, proxy,
                   faults>>

\* The delete call times out at the client; the handler goes on.
GiveUp(c) ==
    /\ pc[c] = "deleting"
    /\ Fault
    /\ cache' = [cache EXCEPT ![c] = 0]
    /\ known' = [known EXCEPT ![c].cache = 0]
    /\ pc' = [pc EXCEPT ![c] = "idle"]
    /\ UNCHANGED <<serverVars, seen, cleaning, proxy>>

ProviderStep(c) ==
    \/ Look(c) \/ Looked(c)
    \/ EnterGate(c) \/ PinCreate(c) \/ Create(c) \/ Created(c)
    \/ CallDelete(c)

-----------------------------------------------------------------------------
(* The idle reaper.                                                        *)

GoIdle ==
    /\ activity.fresh
    /\ activity' = [activity EXCEPT !.fresh = FALSE]
    /\ UNCHANGED <<container, newest, pins, leaked, deleting, gate, creating, del, want,
                   clientVars, proxy, faults>>

\* _collect_expired_sandboxes, and begin_delete for the one found.
Collect ==
    /\ del[Reaper] = "none"
    /\ activity.gen # 0 /\ ~activity.fresh
    /\ BeginDelete(Reaper, activity.gen)
    /\ UNCHANGED <<container, newest, pins, leaked, gate, creating, activity, clientVars, proxy,
                   faults>>

\* _delete_expired_sandbox after begin_delete: an entry that changed or is fresh
\* again ends the deletion.  This handler forgets the activity before end_delete.
Reap ==
    /\ del[Reaper] = "drained"
    /\ IF activity = [gen |-> want[Reaper], fresh |-> FALSE]
       THEN Execute(Reaper)
       ELSE del' = [del EXCEPT ![Reaper] = "failed"] /\ UNCHANGED <<container, faults>>
    /\ UNCHANGED <<newest, pins, leaked, deleting, gate, creating, activity, want, clientVars,
                   proxy>>

Reaped ==
    /\ del[Reaper] \in {"deleted", "failed"}
    /\ IF del[Reaper] = "deleted" THEN Forget(want[Reaper]) ELSE UNCHANGED activity
    /\ del' = [del EXCEPT ![Reaper] = "none"]
    /\ want' = [want EXCEPT ![Reaper] = 0]
    /\ EndDelete(Reaper)
    /\ UNCHANGED <<container, newest, pins, leaked, gate, creating, clientVars, proxy, faults>>

-----------------------------------------------------------------------------
(* quiesce_sandboxes.                                                      *)

CloseGate ==
    /\ gate = "open"
    /\ gate' = "closing"
    /\ UNCHANGED <<container, newest, pins, leaked, deleting, creating, activity, del, want,
                   clientVars, proxy, faults>>

\* Mutant: the handler does not wait for the creates that passed the gate.
CreatesIgnored == TRUE

\* SandboxQuiescenceGate.begin returns.
CreatesEnded == creating = {}

\* The creates have ended: list, and delete what is listed, until nothing is.
ListForQuiesce ==
    /\ gate = "closing"
    /\ CreatesEnded
    /\ del[Quiesce] = "none"
    /\ IF container = 0
       THEN gate' = "empty" /\ UNCHANGED <<deleting, del, want>>
       ELSE BeginDelete(Quiesce, container) /\ UNCHANGED gate
    /\ UNCHANGED <<container, newest, pins, leaked, creating, activity, clientVars, proxy,
                   faults>>

QuiesceDelete ==
    /\ del[Quiesce] = "drained"
    /\ Execute(Quiesce)
    /\ EndDelete(Quiesce)
    /\ UNCHANGED <<newest, pins, leaked, gate, creating, activity, want, clientVars, proxy>>

\* A mismatch and a success go back to the list; an error ends the request with 500
\* and the caller may ask again: the gate stays closed.
QuiesceDeleted ==
    /\ del[Quiesce] \in {"deleted", "failed"}
    /\ IF del[Quiesce] = "deleted" THEN Forget(want[Quiesce]) ELSE UNCHANGED activity
    /\ del' = [del EXCEPT ![Quiesce] = "none"]
    /\ want' = [want EXCEPT ![Quiesce] = 0]
    /\ UNCHANGED <<container, newest, pins, leaked, deleting, gate, creating, clientVars, proxy,
                   faults>>

-----------------------------------------------------------------------------
(* proxy_sandbox_request.  acquire and discover run in the default executor *)
(* of the event loop; a blocked acquire keeps its thread.                  *)

FreeThread == Cardinality({p \in Proxy : proxy[p] \in {"acquiring", "orphaned"}}) < PoolSize

ProxyGoto(p, step) == proxy' = [proxy EXCEPT ![p] = step]

Arrive(p) ==
    /\ proxy[p] = "none"
    /\ ProxyGoto(p, "queued")
    /\ UNCHANGED <<serverVars, clientVars, faults>>

TakeThread(p) ==
    /\ proxy[p] = "queued"
    /\ FreeThread
    /\ ProxyGoto(p, "acquiring")
    /\ UNCHANGED <<serverVars, clientVars, faults>>

\* The thread takes the pin.  If the request is still there it owns the pin from now
\* on; if it was cancelled meanwhile, nobody gives the pin back.
Acquire(p) ==
    /\ MayPin
    /\ \/ /\ proxy[p] = "acquiring"
          /\ pins' = pins \cup {p}
          /\ ProxyGoto(p, "pinned")
          /\ UNCHANGED leaked
       \/ /\ proxy[p] = "orphaned"
          /\ leaked' = TRUE
          /\ ProxyGoto(p, "none")
          /\ UNCHANGED pins
    /\ UNCHANGED <<container, newest, deleting, gate, creating, activity, del, want, clientVars,
                   faults>>

\* discover in another thread: 404, or the request is sent on, touched when its
\* answer begins.
Discover(p) ==
    /\ proxy[p] = "pinned"
    /\ FreeThread
    /\ \/ /\ container # 0
          /\ Touch(container)
          /\ ProxyGoto(p, "streaming")
          /\ UNCHANGED pins
       \/ /\ ProxyGoto(p, "none")
          /\ pins' = pins \ {p}
          /\ UNCHANGED activity
    /\ UNCHANGED <<container, newest, leaked, deleting, gate, creating, del, want, clientVars,
                   faults>>

\* The body has been streamed, or the client has gone while it was.
EndStream(p) ==
    /\ proxy[p] = "streaming"
    /\ pins' = pins \ {p}
    /\ ProxyGoto(p, "none")
    /\ UNCHANGED <<container, newest, leaked, deleting, gate, creating, activity, del, want,
                   clientVars, faults>>

\* The request is cancelled.  In the queue it leaves no trace.  Awaiting its acquire it
\* leaves the thread behind, which cannot be cancelled: the await is outside the try.
\* At its discover or send it gives the pin back.  A response that is dropped before
\* its body is iterated never reaches the finally of its generator.
Cancelled(p) ==
    /\ Fault
    /\ \/ proxy[p] = "queued" /\ ProxyGoto(p, "none") /\ UNCHANGED <<pins, leaked>>
       \/ proxy[p] = "acquiring" /\ ProxyGoto(p, "orphaned") /\ UNCHANGED <<pins, leaked>>
       \/ /\ proxy[p] = "pinned" /\ ProxyGoto(p, "none")
          /\ pins' = pins \ {p}
          /\ UNCHANGED leaked
       \/ /\ proxy[p] = "streaming" /\ ProxyGoto(p, "none")
          /\ pins' = pins \ {p}
          /\ leaked' = TRUE
    /\ UNCHANGED <<container, newest, deleting, gate, creating, activity, del, want, clientVars>>

ProxyStep(p) == TakeThread(p) \/ Acquire(p) \/ Discover(p) \/ EndStream(p)

-----------------------------------------------------------------------------
\* The provisioner restarts: its memory is lost, pending calls fail, and the reaper
\* tracks what it lists, if the list succeeds.  A get that cannot look at its cached
\* connection goes on with it; a failed release drops its cache.
Restart ==
    /\ Fault
    /\ pins' = {} /\ leaked' = FALSE /\ deleting' = FALSE /\ gate' = "open" /\ creating' = {}
    /\ del'  = [d \in Deleter |-> "none"]
    /\ want' = [d \in Deleter |-> 0]
    /\ activity' \in {[gen |-> container, fresh |-> container # 0], Untracked}
    /\ LET dropped == {c \in Client : pc[c] \in {"delete", "deleting"}} IN
       /\ cache' = [c \in Client |-> IF c \in dropped THEN 0 ELSE cache[c]]
       /\ known' = [c \in Client |-> [cache |-> IF c \in dropped THEN 0 ELSE known[c].cache,
                                      call |-> 0, delete |-> 0]]
    /\ pc'   = [c \in Client |-> "idle"]
    /\ seen' = [c \in Client |-> 0]
    /\ proxy' = [p \in Proxy |-> "none"]
    /\ UNCHANGED <<container, newest, cleaning>>

\* A handler that deletes takes its steps one after the other.
ReleaseHandler(c) == Drain(c) \/ Delete(c) \/ DeleteReturns(c)
ReaperHandler     == Drain(Reaper) \/ Reap \/ Reaped
QuiesceHandler    == Drain(Quiesce) \/ QuiesceDelete \/ QuiesceDeleted

Next ==
    \/ \E c \in Client : StartGet(c)
    \/ \E c \in Client : StartRelease(c)
    \/ \E c \in Client : Shutdown(c)
    \/ \E c \in Client : ProviderStep(c)
    \/ \E c \in Client : LookFails(c)
    \/ \E c \in Client : GiveUp(c)
    \/ \E c \in Client : ReleaseHandler(c)
    \/ GoIdle \/ Collect \/ ReaperHandler
    \/ CloseGate \/ ListForQuiesce \/ QuiesceHandler
    \/ \E p \in Proxy : Arrive(p)
    \/ \E p \in Proxy : ProxyStep(p)
    \/ \E p \in Proxy : Cancelled(p)
    \/ Restart

Spec == Init /\ [][Next]_vars

(* Fairness.  Handlers, provider calls and proxy requests go on, and an owed  *)
(* cleanup is tried again.  A call that waits for a pin or a thread gets it   *)
(* when it is free again and again: the reaper sleeps between two rounds,     *)
(* end_delete wakes every waiter and the executor serves its queue in order.  *)
(* Nothing forces a client to ask for a sandbox.                              *)
Fairness ==
    /\ \A c \in Client :
        /\ WF_vars(ReleaseHandler(c))
        /\ SF_vars(ProviderStep(c))
        /\ WF_vars(cleaning[c] /\ StartRelease(c))
    /\ WF_vars(ReaperHandler) /\ WF_vars(QuiesceHandler)
    /\ \A p \in Proxy : SF_vars(ProxyStep(p))

FairSpec == Spec /\ Fairness

-----------------------------------------------------------------------------
(* Properties.                                                             *)

\* A release or shutdown never destroys a container that was created after its client
\* read the generation that it names, be it in an earlier get whose cache it kept, and
\* whatever other clients, the reaper and a restart have done since, even if the client
\* has given up on a delete that still waits.  Containers are numbered as created.
ReleaseSparesNewer ==
    [][\A c \in Client :
          del[c] = "drained" /\ del'[c] = "deleted" /\ container # 0
             => container <= known[c].delete]_vars

\* After quiesce has answered, no container exists until the provisioner restarts.
QuiescedIsEmpty == gate = "empty" => container = 0

\* The deletion of d waits although another one has ended and lets new requests in:
\* _deleting is a set, not a count, so nothing bounds this wait.
Overtaken(d) == del[d] = "waiting" /\ ~deleting

\* A deletion ends, unless it is overtaken or a cancelled request has leaked a pin: it
\* waits for the requests that have started, and those that come later wait for it.
DeletionEnds ==
    \A d \in Deleter : del[d] = "waiting" ~> del[d] # "waiting" \/ Overtaken(d) \/ leaked

\* An owed cleanup converges, unless its deletion is overtaken or a pin has leaked: failed
\* deletes, mismatches with what other clients created, timeouts, restarts and requests
\* cancelled while the code holds their pin leave nothing that blocks the next try.
ReleaseConverges == \A c \in Client : cleaning[c] ~> ~cleaning[c] \/ Overtaken(c) \/ leaked
=============================================================================
