----------------------------- MODULE SandboxProofs -----------------------------
(* What Sandbox promises, proved for every number of clients and proxied   *)
(* requests and for every bound: the types, the empty provisioner after a  *)
(* quiescence, and that no release destroys a container it does not know.  *)
EXTENDS Sandbox, TLAPS

\* Where a provider call and a delete handler can be.
CallStep == {"idle", "look", "looked", "enter", "gated", "creating", "created", "delete", "deleting"}
\* Where a deletion may be.
DeleteAt == {"none", "waiting", "drained", "deleted", "failed"}

-----------------------------------------------------------------------------
(* Types.                                                                  *)

\* A failed call leaves the faults within their bound.
LEMMA FaultType == ASSUME TypeOK, Fault PROVE faults' \in 0..MaxFaults
BY BoundsAreCounts DEF TypeOK, Fault

\* A delete handler at its backend keeps the types.
LEMMA ExecuteType ==
    ASSUME TypeOK, NEW d \in Deleter, Execute(d)
    PROVE  container' \in Gen /\ del' \in [Deleter -> DeleteAt] /\ faults' \in 0..MaxFaults
BY FaultType, BoundsAreCounts DEF TypeOK, Execute, Gen, DeleteAt

\* Beginning a deletion is well typed.
LEMMA BeginType ==
    ASSUME TypeOK, NEW d \in Deleter, NEW g \in Gen, BeginDelete(d, g)
    PROVE  del' \in [Deleter -> DeleteAt] /\ want' \in [Deleter -> Gen] /\ deleting' \in BOOLEAN
BY DEF TypeOK, BeginDelete, DeleteAt

\* The activity map holds generations.
LEMMA RecordType == ASSUME NEW g \in Gen, NEW b \in BOOLEAN
                    PROVE  [gen |-> g, fresh |-> b] \in [gen : Gen, fresh : BOOLEAN]
OBVIOUS

\* The record of an unknown activity is well typed.
LEMMA UntrackedType == Untracked \in [gen : Gen, fresh : BOOLEAN]
BY BoundsAreCounts, RecordType DEF Untracked, Gen

\* Touching the activity is well typed.
LEMMA ActivityType ==
    ASSUME TypeOK, NEW g \in Gen, Touch(g) \/ Forget(g) \/ UNCHANGED activity
    PROVE  activity' \in [gen : Gen, fresh : BOOLEAN]
<1>1. activity' \in {[gen |-> g, fresh |-> TRUE], Untracked, activity}
  BY DEF Touch, Forget
<1>2. QED
  BY <1>1, RecordType, UntrackedType DEF TypeOK

\* The history notes generations.
Notes == [cache : Gen, call : Gen, delete : Gen]

\* A client may note a generation at any of its three places.
LEMMA NoteType ==
    ASSUME NEW note \in Notes, NEW g \in Gen, NEW h \in Gen
    PROVE  /\ [note EXCEPT !.call = g] \in Notes
           /\ [note EXCEPT !.cache = g] \in Notes
           /\ [note EXCEPT !.delete = g] \in Notes
           /\ [note EXCEPT !.cache = g, !.call = h] \in Notes
           /\ [note EXCEPT !.call = g, !.cache = h] \in Notes
           /\ [note EXCEPT !.delete = g, !.call = h] \in Notes
           /\ [note EXCEPT !.cache = g, !.delete = h] \in Notes
BY DEF Notes

\* What a client has noted is a generation.
LEMMA NotedType ==
    ASSUME TypeOK, NEW c \in Client
    PROVE  known[c].cache \in Gen /\ known[c].call \in Gen /\ known[c].delete \in Gen
BY DEF TypeOK

\* The history stays well typed when one client notes something.
LEMMA KnownType ==
    ASSUME TypeOK, NEW c \in Client, NEW g \in Gen, NEW h \in Gen,
           \/ known' = known
           \/ known' = [known EXCEPT ![c].call = g]
           \/ known' = [known EXCEPT ![c].cache = g]
           \/ known' = [known EXCEPT ![c].delete = g]
           \/ known' = [known EXCEPT ![c].cache = g, ![c].call = h]
           \/ known' = [known EXCEPT ![c].call = g, ![c].cache = h]
           \/ known' = [known EXCEPT ![c].delete = g, ![c].call = h]
           \/ known' = [known EXCEPT ![c].cache = g, ![c].delete = h]
    PROVE  known' \in [Client -> Notes]
<1>1. known \in [Client -> Notes]
  BY DEF TypeOK, Notes
<1>2. QED
  BY <1>1 DEF Notes

\* The creates that the gate has let in follow the steps of their calls.
LEMMA CreatingFollows ==
    ASSUME TypeOK, NEW c \in Client, NEW step \in CallStep, pc' = [pc EXCEPT ![c] = step],
           \/ creating' = creating /\ (pc[c] \in {"gated", "creating"} <=> step \in {"gated", "creating"})
           \/ creating' = creating \cup {c} /\ step \in {"gated", "creating"}
           \/ creating' = creating \ {c} /\ step \notin {"gated", "creating"}
    PROVE  /\ creating' = {x \in Client : pc'[x] \in {"gated", "creating"}}
           /\ pc' \in [Client -> CallStep]
BY DEF TypeOK, CallStep

\* The steps of a provider call are well typed.
LEMMA ProviderType ==
    ASSUME TypeOK, NEW c \in Client,
           \/ StartGet(c) \/ StartRelease(c) \/ Shutdown(c) \/ ProviderStep(c)
           \/ LookFails(c) \/ GiveUp(c)
    PROVE  TypeOK'
<1> USE DEF serverVars, clientVars
<1>0. c \in Deleter /\ 0 \in Gen
  BY BoundsAreCounts DEF Deleter, Gen
<1>1. CASE StartGet(c)
  BY <1>1 DEF StartGet, TypeOK
<1>2. CASE StartRelease(c)
  <2>1. known' \in [Client -> Notes]
    BY <1>0, <1>2, KnownType, NotedType DEF StartRelease
  <2>2. /\ pc' \in [Client -> CallStep]
        /\ creating' = {x \in Client : pc'[x] \in {"gated", "creating"}}
    BY <1>2, CreatingFollows DEF StartRelease, CallStep
  <2>3. cleaning' \in [Client -> BOOLEAN] /\ UNCHANGED <<serverVars, cache, proxy, faults>>
    BY <1>2 DEF StartRelease, TypeOK
  <2>4. seen' = seen \/ seen' = [seen EXCEPT ![c] = cache[c]]
    BY <1>2 DEF StartRelease
  <2>5. seen' \in [Client -> Gen]
    BY <2>4 DEF TypeOK
  <2>6. QED
    BY <2>1, <2>2, <2>3, <2>5 DEF TypeOK, CallStep, Notes
<1>3. CASE Shutdown(c)
  <2>1. known' \in [Client -> Notes]
    BY <1>0, <1>3, KnownType, NotedType DEF Shutdown
  <2>2. QED
    BY <1>0, <1>3, <2>1 DEF Shutdown, TypeOK, Notes
<1>4. CASE Look(c)
  <2>1. \E g \in Gen : known' = [known EXCEPT ![c].call = g]
    BY <1>0, <1>4 DEF Look, TypeOK
  <2>2. known' \in [Client -> Notes]
    BY <1>0, <2>1, KnownType
  <2>3. QED
    BY <1>0, <1>4, <2>2 DEF Look, TypeOK, Notes
<1>5. CASE Looked(c)
  <2>1. activity' \in [gen : Gen, fresh : BOOLEAN]
    BY <1>5, ActivityType DEF Looked, TypeOK
  <2>2. /\ creating' = {x \in Client : pc'[x] \in {"gated", "creating"}}
        /\ pc' \in [Client -> CallStep]
    BY <1>5, CreatingFollows DEF Looked, CallStep
  <2>3. cache' \in [Client -> Gen] /\ seen' \in [Client -> Gen]
    <3>1. \/ UNCHANGED <<cache, seen>>
          \/ cache' = [cache EXCEPT ![c] = seen[c]] /\ seen' = [seen EXCEPT ![c] = 0]
      BY <1>5 DEF Looked
    <3>2. QED
      BY <1>0, <3>1 DEF TypeOK
  <2>4. cleaning' = cleaning \/ cleaning' = [cleaning EXCEPT ![c] = FALSE]
    BY <1>5 DEF Looked
  <2>5. cleaning' \in [Client -> BOOLEAN]
    BY <2>4 DEF TypeOK
  <2>6. pins' \in SUBSET (Client \cup Proxy)
    BY <1>5 DEF Looked, TypeOK
  <2>7. UNCHANGED <<container, newest, leaked, deleting, gate, del, want, proxy, faults>>
    BY <1>5 DEF Looked
  <2>8. known' \in [Client -> Notes]
    <3>1. known' = known \/ known' = [known EXCEPT ![c].cache = known[c].call, ![c].call = 0]
      BY <1>5 DEF Looked
    <3>2. QED
      BY <1>0, <3>1, KnownType, NotedType
  <2>9. QED
    BY <2>1, <2>2, <2>3, <2>5, <2>6, <2>7, <2>8 DEF TypeOK, CallStep, Notes
<1>6. CASE LookFails(c)
  <2>1. faults' \in 0..MaxFaults
    BY <1>6, FaultType DEF LookFails
  <2>2. known' \in [Client -> Notes]
    BY <1>0, <1>6, KnownType DEF LookFails
  <2>3. QED
    BY <1>0, <1>6, <2>1, <2>2 DEF LookFails, TypeOK, Notes
<1>7. CASE EnterGate(c)
  BY <1>7 DEF EnterGate, TypeOK
<1>8. CASE PinCreate(c)
  BY <1>8 DEF PinCreate, TypeOK
<1>9. CASE Create(c)
  <2>1. /\ creating' = {x \in Client : pc'[x] \in {"gated", "creating"}}
        /\ pc' \in [Client -> CallStep]
    BY <1>9, CreatingFollows DEF Create, LeaveGate, CallStep
  <2>2. newest < MaxGen => newest + 1 \in Gen
    BY BoundsAreCounts DEF TypeOK, Gen
  <2>3. container' \in Gen /\ newest' \in Gen /\ seen' \in [Client -> Gen]
    BY <1>0, <1>9, <2>2 DEF Create, TypeOK
  <2>4. known' = known \/ \E g \in Gen : known' = [known EXCEPT ![c].call = g]
    BY <1>9, <2>2 DEF Create, TypeOK
  <2>5. known' \in [Client -> Notes]
    BY <1>0, <2>4, KnownType
  <2>6. pins' \in SUBSET (Client \cup Proxy)
    BY <1>9 DEF Create, TypeOK
  <2>7. UNCHANGED <<leaked, deleting, gate, activity, del, want, cache, cleaning, proxy, faults>>
    BY <1>9 DEF Create
  <2>8. QED
    BY <2>1, <2>3, <2>5, <2>6, <2>7 DEF TypeOK, CallStep, Notes
<1>10. CASE Created(c)
  <2>1. activity' \in [gen : Gen, fresh : BOOLEAN]
    BY <1>10, ActivityType DEF Created, TypeOK
  <2>2. known' \in [Client -> Notes]
    BY <1>0, <1>10, KnownType, NotedType DEF Created
  <2>3. QED
    BY <1>0, <1>10, <2>1, <2>2 DEF Created, TypeOK, Notes
<1>11. CASE CallDelete(c)
  <2>1. del' \in [Deleter -> DeleteAt] /\ want' \in [Deleter -> Gen] /\ deleting' \in BOOLEAN
    BY <1>0, <1>11, BeginType DEF CallDelete, TypeOK
  <2>2. known' \in [Client -> Notes]
    BY <1>0, <1>11, KnownType, NotedType DEF CallDelete
  <2>3. QED
    BY <1>0, <1>11, <2>1, <2>2 DEF CallDelete, TypeOK, DeleteAt, Notes
<1>12. CASE GiveUp(c)
  <2>1. faults' \in 0..MaxFaults
    BY <1>12, FaultType DEF GiveUp
  <2>2. known' \in [Client -> Notes]
    BY <1>0, <1>12, KnownType DEF GiveUp
  <2>3. QED
    BY <1>0, <1>12, <2>1, <2>2 DEF GiveUp, TypeOK, Notes
<1>13. QED
  BY <1>1, <1>2, <1>3, <1>4, <1>5, <1>6, <1>7, <1>8, <1>9, <1>10, <1>11, <1>12 DEF ProviderStep

\* The delete handlers are well typed.
LEMMA HandlerType ==
    ASSUME TypeOK,
           \/ \E c \in Client : ReleaseHandler(c)
           \/ GoIdle \/ Collect \/ ReaperHandler
           \/ CloseGate \/ ListForQuiesce \/ QuiesceHandler
    PROVE  TypeOK'
<1> USE DEF serverVars, clientVars
<1>0. Client \cup {Reaper, Quiesce} \subseteq Deleter /\ 0 \in Gen
  BY BoundsAreCounts DEF Deleter, Gen
<1>1. ASSUME NEW d \in Deleter, Drain(d) PROVE TypeOK'
  BY <1>1 DEF Drain, TypeOK
<1>2. ASSUME NEW c \in Client, Delete(c) PROVE TypeOK'
  BY <1>0, <1>2, ExecuteType DEF Delete, EndDelete, TypeOK, DeleteAt
<1>3. ASSUME NEW c \in Client, DeleteReturns(c) PROVE TypeOK'
  <2>1. activity' \in [gen : Gen, fresh : BOOLEAN]
    BY <1>0, <1>3, ActivityType DEF DeleteReturns, TypeOK
  <2>2. /\ creating' = {x \in Client : pc'[x] \in {"gated", "creating"}}
        /\ pc' \in [Client -> CallStep]
    BY <1>3 DEF DeleteReturns, TypeOK, CallStep
  <2>3. /\ del' \in [Deleter -> DeleteAt] /\ want' \in [Deleter -> Gen]
        /\ cache' \in [Client -> Gen]
    <3>1. /\ del' = [del EXCEPT ![c] = "none"] /\ want' = [want EXCEPT ![c] = 0]
          /\ cache' = cache \/ cache' = [cache EXCEPT ![c] = 0]
      BY <1>3 DEF DeleteReturns
    <3>2. QED
      BY <1>0, <3>1 DEF TypeOK, DeleteAt
  <2>4. cleaning' \in [Client -> BOOLEAN]
    BY <1>3 DEF DeleteReturns, TypeOK
  <2>5. UNCHANGED <<container, newest, pins, leaked, deleting, gate, seen, proxy, faults>>
    BY <1>3 DEF DeleteReturns
  <2>6. known' \in [Client -> Notes]
    <3>1. \/ known' = [known EXCEPT ![c].cache = 0, ![c].delete = 0]
          \/ known' = [known EXCEPT ![c].delete = 0]
      BY <1>3 DEF DeleteReturns
    <3>2. QED
      BY <1>0, <3>1, KnownType
  <2>7. QED
    BY <2>1, <2>2, <2>3, <2>4, <2>5, <2>6 DEF TypeOK, CallStep, DeleteAt, Notes
<1>4. CASE GoIdle
  BY <1>4 DEF GoIdle, TypeOK
<1>5. CASE Collect
  <2>1. del' \in [Deleter -> DeleteAt] /\ want' \in [Deleter -> Gen] /\ deleting' \in BOOLEAN
    BY <1>0, <1>5, BeginType DEF Collect, TypeOK
  <2>2. QED
    BY <1>5, <2>1 DEF Collect, TypeOK, DeleteAt
<1>6. CASE Reap
  <2>1. container' \in Gen /\ del' \in [Deleter -> DeleteAt] /\ faults' \in 0..MaxFaults
    BY <1>0, <1>6, ExecuteType DEF Reap, TypeOK, DeleteAt
  <2>2. QED
    BY <1>6, <2>1 DEF Reap, TypeOK, DeleteAt
<1>7. CASE Reaped
  <2>1. activity' \in [gen : Gen, fresh : BOOLEAN]
    BY <1>0, <1>7, ActivityType DEF Reaped, TypeOK
  <2>2. QED
    BY <1>0, <1>7, <2>1 DEF Reaped, EndDelete, TypeOK
<1>8. CASE CloseGate
  BY <1>8 DEF CloseGate, TypeOK
<1>9. CASE ListForQuiesce
  <2>1. \/ gate' = "empty" /\ UNCHANGED <<deleting, del, want>>
        \/ /\ del' \in [Deleter -> DeleteAt] /\ want' \in [Deleter -> Gen]
           /\ deleting' \in BOOLEAN /\ UNCHANGED gate
    BY <1>0, <1>9, BeginType DEF ListForQuiesce, TypeOK
  <2>2. QED
    BY <1>9, <2>1 DEF ListForQuiesce, TypeOK, DeleteAt
<1>10. CASE QuiesceDelete
  BY <1>0, <1>10, ExecuteType DEF QuiesceDelete, EndDelete, TypeOK, DeleteAt
<1>11. CASE QuiesceDeleted
  <2>1. activity' \in [gen : Gen, fresh : BOOLEAN]
    BY <1>0, <1>11, ActivityType DEF QuiesceDeleted, TypeOK
  <2>2. QED
    BY <1>0, <1>11, <2>1 DEF QuiesceDeleted, TypeOK
<1>12. QED
  BY <1>0, <1>1, <1>2, <1>3, <1>4, <1>5, <1>6, <1>7, <1>8, <1>9, <1>10, <1>11
     DEF ReleaseHandler, ReaperHandler, QuiesceHandler

\* The steps of a proxy request are well typed.
LEMMA ProxyType ==
    ASSUME TypeOK, NEW p \in Proxy, Arrive(p) \/ ProxyStep(p) \/ Cancelled(p)
    PROVE  TypeOK'
<1> USE DEF serverVars, clientVars, ProxyGoto
<1>1. CASE Arrive(p) \/ TakeThread(p)
  BY <1>1 DEF Arrive, TakeThread, TypeOK
<1>2. CASE Acquire(p)
  BY <1>2 DEF Acquire, TypeOK
<1>3. CASE Discover(p)
  <2>1. activity' \in [gen : Gen, fresh : BOOLEAN]
    BY <1>3, ActivityType DEF Discover, TypeOK
  <2>2. QED
    BY <1>3, <2>1 DEF Discover, TypeOK
<1>4. CASE EndStream(p)
  BY <1>4 DEF EndStream, TypeOK
<1>5. CASE Cancelled(p)
  <2>1. faults' \in 0..MaxFaults
    BY <1>5, FaultType DEF Cancelled
  <2>2. pins' \in SUBSET (Client \cup Proxy) /\ leaked' \in BOOLEAN
    BY <1>5 DEF Cancelled, TypeOK
  <2>3. proxy' = [proxy EXCEPT ![p] = "none"] \/ proxy' = [proxy EXCEPT ![p] = "orphaned"]
    BY <1>5 DEF Cancelled
  <2>4. UNCHANGED <<container, newest, deleting, gate, creating, activity, del, want, clientVars>>
    BY <1>5 DEF Cancelled
  <2>5. QED
    BY <2>1, <2>2, <2>3, <2>4 DEF TypeOK
<1>6. QED
  BY <1>1, <1>2, <1>3, <1>4, <1>5 DEF ProxyStep

\* A restart is well typed.
LEMMA RestartType == ASSUME TypeOK, Restart PROVE TypeOK'
<1>1. faults' \in 0..MaxFaults /\ 0 \in Gen
  BY FaultType, BoundsAreCounts DEF Restart, Gen
<1>2. activity' \in [gen : Gen, fresh : BOOLEAN]
  <2>1. container \in Gen /\ (container # 0) \in BOOLEAN
    BY DEF TypeOK
  <2>2. [gen |-> container, fresh |-> container # 0] \in [gen : Gen, fresh : BOOLEAN]
    BY <2>1, RecordType
  <2>3. QED
    BY <2>2, UntrackedType DEF Restart
<1>3. creating' = {c \in Client : pc'[c] \in {"gated", "creating"}}
  BY DEF Restart
<1>4. \A c \in Client : known'[c] \in Notes
  BY <1>1, NotedType DEF Restart, Notes
<1>5. known' \in [Client -> Notes]
  BY <1>4 DEF Restart
<1>6. QED
  BY <1>1, <1>2, <1>3, <1>5 DEF Restart, TypeOK, Notes

\* The initial scope is well typed.
LEMMA InitType == Init => TypeOK
<1> SUFFICES ASSUME Init PROVE TypeOK
  OBVIOUS
<1>1. 0 \in Gen /\ 0 \in 0..MaxFaults
  BY BoundsAreCounts DEF Gen
<1>2. activity \in [gen : Gen, fresh : BOOLEAN]
  BY UntrackedType DEF Init
<1>3. creating = {c \in Client : pc[c] \in {"gated", "creating"}}
  BY DEF Init
<1>4. QED
  BY <1>1, <1>2, <1>3 DEF Init, TypeOK

\* Every step keeps the types.
LEMMA TypeStep == TypeOK /\ [Next]_vars => TypeOK'
<1> SUFFICES ASSUME TypeOK, [Next]_vars PROVE TypeOK'
  OBVIOUS
<1>1. CASE UNCHANGED vars
  BY <1>1 DEF vars, TypeOK
<1>2. QED
  BY <1>1, ProviderType, HandlerType, ProxyType, RestartType DEF Next

\* Every variable always has its type; in particular the creates that the gate counts
\* are exactly the provider calls between the gate and the end of their create.
THEOREM SandboxTypeCorrect == Spec => []TypeOK
BY InitType, TypeStep, PTL DEF Spec

-----------------------------------------------------------------------------
(* The quiesced provisioner.                                               *)

\* A quiesced provisioner has no container, and nobody is past the gate who could
\* still create one (auxiliary: the second part makes the first one inductive).
Quiet == gate = "empty" => container = 0 /\ creating = {}

\* Every step keeps Quiet.
LEMMA QuietStep == TypeOK /\ Quiet /\ [Next]_vars => Quiet'
<1> SUFFICES ASSUME TypeOK, Quiet, [Next]_vars PROVE Quiet'
  OBVIOUS
<1> USE DEF serverVars, clientVars
<1>1. ASSUME NEW c \in Client, Create(c) PROVE Quiet'
  <2>1. c \in creating /\ UNCHANGED gate
    BY <1>1 DEF Create, TypeOK
  <2>2. QED
    BY <2>1 DEF Quiet
<1>2. ASSUME NEW c \in Client, EnterGate(c) PROVE Quiet'
  BY <1>2 DEF EnterGate, Quiet
<1>3. ASSUME UNCHANGED <<gate, creating>>, container' \in {0, container} PROVE Quiet'
  BY <1>3 DEF Quiet
<1>4. ASSUME NEW c \in Client,
             \/ StartGet(c) \/ StartRelease(c) \/ Shutdown(c) \/ Look(c) \/ Looked(c)
             \/ PinCreate(c) \/ Created(c) \/ CallDelete(c) \/ LookFails(c) \/ GiveUp(c)
      PROVE  Quiet'
  BY <1>3, <1>4
     DEF StartGet, StartRelease, Shutdown, Look, Looked, PinCreate, Created, CallDelete, LookFails,
         GiveUp
<1>5. ASSUME NEW d \in Deleter, Execute(d) \/ UNCHANGED container, UNCHANGED <<gate, creating>>
      PROVE  Quiet'
  BY <1>3, <1>5 DEF Execute
<1>6. Client \cup {Reaper, Quiesce} \subseteq Deleter
  BY DEF Deleter
<1>7. ASSUME NEW c \in Client, ReleaseHandler(c) PROVE Quiet'
  BY <1>5, <1>6, <1>7 DEF ReleaseHandler, Drain, Delete, DeleteReturns
<1>8. CASE GoIdle \/ Collect \/ ReaperHandler
  <2>1. UNCHANGED <<gate, creating>> /\ (Execute(Reaper) \/ UNCHANGED container)
    BY <1>8 DEF GoIdle, Collect, ReaperHandler, Drain, Reap, Reaped
  <2>2. QED
    BY <1>5, <1>6, <2>1
<1>9. CASE CloseGate \/ ListForQuiesce
  BY <1>9 DEF CloseGate, ListForQuiesce, CreatesEnded, Quiet
<1>10. CASE QuiesceHandler
  BY <1>5, <1>6, <1>10 DEF QuiesceHandler, Drain, QuiesceDelete, QuiesceDeleted
<1>11. ASSUME NEW p \in Proxy, Arrive(p) \/ ProxyStep(p) \/ Cancelled(p) PROVE Quiet'
  BY <1>3, <1>11 DEF Arrive, ProxyStep, TakeThread, Acquire, Discover, EndStream, Cancelled
<1>12. CASE Restart
  BY <1>12 DEF Restart, Quiet
<1>13. CASE UNCHANGED vars
  BY <1>3, <1>13 DEF vars
<1>14. QED
  BY <1>1, <1>2, <1>4, <1>7, <1>8, <1>9, <1>10, <1>11, <1>12, <1>13 DEF Next, ProviderStep

\* After quiesce has answered, no container exists until the provisioner restarts: the
\* creates that had passed the gate have ended before the last list.
THEOREM QuiescedIsEmptyCorrect == Spec => []QuiescedIsEmpty
<1>1. Init => Quiet
  BY DEF Init, Quiet
<1>2. Quiet => QuiescedIsEmpty
  BY DEF Quiet, QuiescedIsEmpty
<1>3. QED
  BY <1>1, <1>2, InitType, TypeStep, QuietStep, PTL DEF Spec

-----------------------------------------------------------------------------
(* The generation that a release deletes.                                  *)

\* The history notes for a client the very generation that its cache, its call and its
\* delete handler name: whoever read one read the newest of its time.  A deletion names a
\* generation (auxiliary).
Noted(c) ==
    /\ cache[c] = known[c].cache /\ seen[c] = known[c].call /\ want[c] = known[c].delete
    /\ pc[c] = "delete" => seen[c] # 0
    /\ del[c] # "none"  => want[c] # 0

\* What exists is the newest container, and every client's notes are right.
Known == container \in {0, newest} /\ \A c \in Client : Noted(c)

\* A step that lets c alone keeps what c knows.
LEMMA OthersKnow ==
    ASSUME NEW c \in Client, Noted(c),
           cache'[c] = cache[c], seen'[c] = seen[c], pc'[c] = pc[c], known'[c] = known[c],
           want'[c] = want[c], del'[c] = del[c] \/ (del[c] # "none" /\ del'[c] # "none")
    PROVE  Noted(c)'
BY DEF Noted

\* A provider call of c lets every other client alone.
LEMMA CallLetsAlone ==
    ASSUME TypeOK, NEW c \in Client, NEW x \in Client, x # c, Noted(x),
           \/ StartGet(c) \/ StartRelease(c) \/ Shutdown(c) \/ ProviderStep(c)
           \/ LookFails(c) \/ GiveUp(c) \/ DeleteReturns(c)
    PROVE  Noted(x)'
<1> USE DEF serverVars, clientVars
<1>0. c \in Deleter /\ x \in Deleter
  BY DEF Deleter
<1>1. CASE StartGet(c) \/ StartRelease(c) \/ Shutdown(c) \/ LookFails(c) \/ GiveUp(c)
  BY <1>1, OthersKnow DEF StartGet, StartRelease, Shutdown, LookFails, GiveUp, TypeOK
<1>2. CASE Look(c) \/ Looked(c)
  BY <1>2, OthersKnow DEF Look, Looked, TypeOK
<1>3. CASE EnterGate(c) \/ PinCreate(c) \/ Created(c)
  BY <1>3, OthersKnow DEF EnterGate, PinCreate, Created, TypeOK
<1>4. CASE Create(c)
  BY <1>4, OthersKnow DEF Create, TypeOK
<1>5. CASE CallDelete(c) \/ DeleteReturns(c)
  BY <1>0, <1>5, OthersKnow DEF CallDelete, BeginDelete, DeleteReturns, TypeOK
<1>6. QED
  BY <1>1, <1>2, <1>3, <1>4, <1>5 DEF ProviderStep

\* A provider call of c notes what c reads.
LEMMA CallNotes ==
    ASSUME TypeOK, container \in {0, newest}, NEW c \in Client, Noted(c),
           \/ StartGet(c) \/ StartRelease(c) \/ Shutdown(c) \/ ProviderStep(c)
           \/ LookFails(c) \/ GiveUp(c) \/ DeleteReturns(c)
    PROVE  Noted(c)' /\ container' \in {0, newest'}
<1> USE DEF serverVars, clientVars, Noted
<1>0. c \in Deleter
  BY DEF Deleter
<1>1. CASE StartGet(c) \/ StartRelease(c)
  BY <1>1 DEF StartGet, StartRelease, TypeOK
<1>2. CASE Shutdown(c) \/ LookFails(c) \/ GiveUp(c)
  BY <1>2 DEF Shutdown, LookFails, GiveUp, TypeOK
<1>3. CASE Look(c)
  BY <1>3 DEF Look, TypeOK
<1>4. CASE Looked(c)
  BY <1>4 DEF Looked, TypeOK
<1>5. CASE EnterGate(c) \/ PinCreate(c) \/ Created(c)
  BY <1>5 DEF EnterGate, PinCreate, Created, TypeOK
<1>6. CASE Create(c)
  BY <1>6 DEF Create, TypeOK
<1>7. CASE CallDelete(c)
  BY <1>0, <1>7 DEF CallDelete, BeginDelete, TypeOK
<1>8. CASE DeleteReturns(c)
  BY <1>0, <1>8 DEF DeleteReturns, TypeOK
<1>9. QED
  BY <1>1, <1>2, <1>3, <1>4, <1>5, <1>6, <1>7, <1>8 DEF ProviderStep

\* The delete handlers change no note; a handler that goes on names what it named.
LEMMA HandlerLetsAlone ==
    ASSUME TypeOK, NEW x \in Client, Noted(x),
           \/ \E c \in Client : Drain(c) \/ Delete(c)
           \/ GoIdle \/ Collect \/ ReaperHandler
           \/ CloseGate \/ ListForQuiesce \/ QuiesceHandler
    PROVE  Noted(x)'
<1> USE DEF serverVars, clientVars
<1>0. x \in Deleter /\ Client \subseteq Deleter /\ Reaper \notin Client /\ Quiesce \notin Client
  BY HoldersDistinct DEF Deleter
<1>1. UNCHANGED <<cache, seen, pc, known>>
  BY DEF Drain, Delete, GoIdle, Collect, ReaperHandler, Reap, Reaped, CloseGate, ListForQuiesce,
         QuiesceHandler, QuiesceDelete, QuiesceDeleted
<1>2. ASSUME want'[x] = want[x], del'[x] = del[x] \/ (del[x] # "none" /\ del'[x] # "none")
      PROVE  Noted(x)'
  BY <1>1, <1>2, OthersKnow
<1>3. ASSUME NEW c \in Client, Drain(c) \/ Delete(c) PROVE Noted(x)'
  BY <1>0, <1>2, <1>3 DEF Drain, Delete, Execute, TypeOK
<1>4. CASE GoIdle \/ Collect \/ ReaperHandler
  BY <1>0, <1>2, <1>4
     DEF GoIdle, Collect, ReaperHandler, Drain, Reap, Reaped, Execute, BeginDelete, TypeOK
<1>5. CASE CloseGate \/ ListForQuiesce \/ QuiesceHandler
  BY <1>0, <1>2, <1>5
     DEF CloseGate, ListForQuiesce, QuiesceHandler, Drain, QuiesceDelete, QuiesceDeleted, Execute,
         BeginDelete, TypeOK
<1>6. QED
  BY <1>3, <1>4, <1>5

\* Every step keeps Known.
LEMMA KnownStep == TypeOK /\ Known /\ [Next]_vars => Known'
<1> SUFFICES ASSUME TypeOK, container \in {0, newest}, \A x \in Client : Noted(x), [Next]_vars
             PROVE  container' \in {0, newest'} /\ \A x \in Client : Noted(x)'
  BY DEF Known
<1> USE DEF serverVars, clientVars
<1>1. ASSUME NEW c \in Client,
             \/ StartGet(c) \/ StartRelease(c) \/ Shutdown(c) \/ ProviderStep(c)
             \/ LookFails(c) \/ GiveUp(c) \/ DeleteReturns(c)
      PROVE  container' \in {0, newest'} /\ \A x \in Client : Noted(x)'
  BY <1>1, CallLetsAlone, CallNotes
<1>2. ASSUME \/ \E c \in Client : Drain(c) \/ Delete(c)
             \/ GoIdle \/ Collect \/ ReaperHandler
             \/ CloseGate \/ ListForQuiesce \/ QuiesceHandler
      PROVE  container' \in {0, newest'} /\ \A x \in Client : Noted(x)'
  <2>1. UNCHANGED newest /\ container' \in {0, container}
    BY <1>2 DEF Drain, Delete, GoIdle, Collect, ReaperHandler, Reap, Reaped, CloseGate,
                ListForQuiesce, QuiesceHandler, QuiesceDelete, QuiesceDeleted, Execute
  <2>2. QED
    BY <1>2, <2>1, HandlerLetsAlone
<1>3. ASSUME UNCHANGED <<container, newest, clientVars, want, del>>
      PROVE  container' \in {0, newest'} /\ \A x \in Client : Noted(x)'
  BY <1>3, OthersKnow
<1>4. ASSUME NEW p \in Proxy, Arrive(p) \/ ProxyStep(p) \/ Cancelled(p)
      PROVE  container' \in {0, newest'} /\ \A x \in Client : Noted(x)'
  <2>1. UNCHANGED <<container, newest, clientVars, want, del>>
    BY <1>4 DEF Arrive, ProxyStep, TakeThread, Acquire, Discover, EndStream, Cancelled
  <2>2. QED
    BY <1>3, <2>1
<1>5. CASE Restart
  BY <1>5 DEF Restart, Noted, Deleter
<1>6. CASE UNCHANGED vars
  BY <1>3, <1>6 DEF vars
<1>7. QED
  BY <1>1, <1>2, <1>4, <1>5, <1>6 DEF Next, ReleaseHandler

\* Only the delete handler of c removes a container for c, and only the one it wants.
LEMMA SpareStep ==
    ASSUME TypeOK, Known, [Next]_vars,
           NEW c \in Client, del[c] = "drained", del'[c] = "deleted", container # 0
    PROVE  container <= known[c].delete
<1> USE DEF serverVars, clientVars
<1>0. /\ Client \subseteq Deleter /\ Reaper \notin Client /\ Quiesce \notin Client
      /\ container \in Nat
  BY HoldersDistinct, BoundsAreCounts DEF Deleter, TypeOK, Gen
<1>1. CASE Delete(c)
  <2>1. container = want[c] \/ want[c] = 0
    BY <1>0, <1>1 DEF Delete, Execute, Hits, TypeOK
  <2>2. QED
    BY <1>0, <2>1 DEF Known, Noted
<1>2. del' # del
  OBVIOUS
<1>3. ASSUME NEW x \in Client, ReleaseHandler(x) PROVE Delete(c)
  BY <1>0, <1>3 DEF ReleaseHandler, Drain, Delete, DeleteReturns, Execute, TypeOK
<1>4. ASSUME NEW x \in Client, StartGet(x) \/ StartRelease(x) \/ Shutdown(x) \/ ProviderStep(x)
                               \/ LookFails(x) \/ GiveUp(x)
      PROVE  FALSE
  BY <1>0, <1>4
     DEF StartGet, StartRelease, Shutdown, ProviderStep, Look, Looked, EnterGate, PinCreate, Create,
         Created, CallDelete, BeginDelete, LookFails, GiveUp, TypeOK
<1>5. CASE GoIdle \/ Collect \/ ReaperHandler
  BY <1>0, <1>5
     DEF GoIdle, Collect, ReaperHandler, Drain, Reap, Reaped, Execute, BeginDelete, TypeOK
<1>6. CASE CloseGate \/ ListForQuiesce \/ QuiesceHandler
  BY <1>0, <1>6
     DEF CloseGate, ListForQuiesce, QuiesceHandler, Drain, QuiesceDelete, QuiesceDeleted, Execute,
         BeginDelete, TypeOK
<1>7. ASSUME NEW p \in Proxy, Arrive(p) \/ ProxyStep(p) \/ Cancelled(p) PROVE FALSE
  BY <1>2, <1>7 DEF Arrive, ProxyStep, TakeThread, Acquire, Discover, EndStream, Cancelled
<1>8. CASE Restart
  BY <1>0, <1>8 DEF Restart
<1>9. CASE UNCHANGED vars
  BY <1>2, <1>9 DEF vars
<1>10. QED
  BY <1>1, <1>3, <1>4, <1>5, <1>6, <1>7, <1>8, <1>9 DEF Next

\* A release or shutdown never destroys a container that was created after its client read
\* the generation that it names, whenever that was.
THEOREM ReleaseSparesNewerCorrect == Spec => ReleaseSparesNewer
<1>1. Init => Known
  BY DEF Init, Known, Noted, Deleter
<1>2. TypeOK /\ Known /\ [Next]_vars =>
        [\A c \in Client :
          del[c] = "drained" /\ del'[c] = "deleted" /\ container # 0
             => container <= known[c].delete]_vars
  BY SpareStep
<1>3. QED
  BY <1>1, <1>2, InitType, TypeStep, KnownStep, PTL DEF Spec, ReleaseSparesNewer

-----------------------------------------------------------------------------
(* Which pins and marks of a deletion can be left behind.                  *)

\* Who holds a pin: a provider call between discover and its answer or at the backend, and a
\* proxied request from its acquire to the end of its stream.
PinHolders ==
    {c \in Client : pc[c] \in {"looked", "creating"}}
        \cup {p \in Proxy : proxy[p] \in {"pinned", "streaming"}}

\* Every pin has a holder that will give it back.
Pinned == pins = PinHolders

\* Handler d will still take the mark of the deletion away.
WillUnmark(d) == del[d] \in {"waiting", "drained"} \/ (d = Reaper /\ del[d] # "none")

\* A sandbox that is marked as being deleted has a handler that will unmark it.
Marked == deleting => \E d \in Deleter : WillUnmark(d)

\* A step that leaves a pin behind is one of a cancelled request: the thread that it left
\* at its acquire takes the pin, or it goes before its answer is iterated.
LeaksByCancelling ==
    leaked' /\ ~leaked =>
       \E p \in Proxy :
          /\ proxy'[p] = "none"
          /\ \/ proxy[p] = "orphaned"
             \/ proxy[p] = "streaming" /\ faults' = faults + 1

\* Every pin that has not leaked has a holder that will give it back, and a sandbox that is
\* marked as being deleted has a handler that will unmark it, whatever fails, times out or
\* restarts: otherwise a deletion would wait for nobody, or every request for a deletion
\* that is over.  A pin leaks only with a proxied request that is cancelled while it waits
\* for the pin or before its answer is iterated.
OnlyCancelledRequestsLeak == [](Pinned /\ Marked) /\ [][LeaksByCancelling]_vars

\* A step of one client that takes or gives back its pin, and no other.
LEMMA ClientPin ==
    ASSUME TypeOK, pins = PinHolders, NEW c \in Client, NEW label, UNCHANGED proxy,
           pc' = [pc EXCEPT ![c] = label],
           pins' = IF label \in {"looked", "creating"} THEN pins \cup {c} ELSE pins \ {c}
    PROVE  pins' = PinHolders'
<1>1. \A x \in Client : pc'[x] = IF x = c THEN label ELSE pc[x]
  BY DEF TypeOK
<1>2. c \notin Proxy
  BY HoldersDistinct
<1>3. QED
  BY <1>1, <1>2 DEF PinHolders

\* A step of one proxied request that takes or gives back its pin, and no other.
LEMMA ProxyPin ==
    ASSUME TypeOK, pins = PinHolders, NEW p \in Proxy, NEW label, UNCHANGED pc,
           ProxyGoto(p, label),
           pins' = IF label \in {"pinned", "streaming"} THEN pins \cup {p} ELSE pins \ {p}
    PROVE  pins' = PinHolders'
<1>1. \A x \in Proxy : proxy'[x] = IF x = p THEN label ELSE proxy[x]
  BY DEF ProxyGoto, TypeOK
<1>2. p \notin Client
  BY HoldersDistinct
<1>3. QED
  BY <1>1, <1>2 DEF PinHolders

\* A step in which nobody takes or gives back a pin.
LEMMA PinsStay ==
    ASSUME pins = PinHolders, UNCHANGED pins,
           \A c \in Client : pc'[c] \in {"looked", "creating"} <=> pc[c] \in {"looked", "creating"},
           \A p \in Proxy : proxy'[p] \in {"pinned", "streaming"} <=> proxy[p] \in {"pinned", "streaming"}
    PROVE  pins' = PinHolders'
BY DEF PinHolders

\* Every step leaves every pin with its holder.
LEMMA PinStep == TypeOK /\ Pinned /\ [Next]_vars => Pinned'
<1> SUFFICES ASSUME TypeOK, pins = PinHolders, [Next]_vars PROVE pins' = PinHolders'
  BY DEF Pinned
<1> USE DEF serverVars, clientVars
<1>1. ASSUME NEW c \in Client, Look(c) \/ PinCreate(c) PROVE pins' = PinHolders'
  BY <1>1, ClientPin DEF Look, PinCreate
<1>2. ASSUME NEW c \in Client, Looked(c) \/ LookFails(c) \/ Create(c) PROVE pins' = PinHolders'
  <2>1. pins' = pins \ {c} /\ UNCHANGED proxy
    BY <1>2 DEF Looked, LookFails, Create
  <2>2. \E label \in {"idle", "delete", "enter", "created"} : pc' = [pc EXCEPT ![c] = label]
    BY <1>2 DEF Looked, LookFails, Create
  <2>3. QED
    BY <2>1, <2>2, ClientPin
<1>3. ASSUME NEW c \in Client,
             \/ StartGet(c) \/ StartRelease(c) \/ Shutdown(c) \/ EnterGate(c) \/ Created(c)
             \/ CallDelete(c) \/ GiveUp(c) \/ ReleaseHandler(c)
      PROVE  pins' = PinHolders'
  <2>1. UNCHANGED <<pins, proxy>>
    BY <1>3 DEF StartGet, StartRelease, Shutdown, EnterGate, Created, CallDelete, GiveUp,
                ReleaseHandler, Drain, Delete, DeleteReturns
  <2>2. \/ UNCHANGED pc
        \/ /\ pc[c] \in {"idle", "enter", "created", "delete", "deleting"}
           /\ \E label \in {"idle", "look", "enter", "gated", "delete", "deleting"} :
                  pc' = [pc EXCEPT ![c] = label]
    BY <1>3 DEF StartGet, StartRelease, Shutdown, EnterGate, Created, CallDelete, GiveUp,
                ReleaseHandler, Drain, Delete, DeleteReturns
  <2>3. \A x \in Client : pc'[x] \in {"looked", "creating"} <=> pc[x] \in {"looked", "creating"}
    BY <2>2 DEF TypeOK
  <2>4. QED
    BY <2>1, <2>3, PinsStay
<1>4. CASE \/ GoIdle \/ Collect \/ ReaperHandler \/ CloseGate \/ ListForQuiesce \/ QuiesceHandler
           \/ UNCHANGED vars
  <2>1. UNCHANGED <<pins, pc, proxy>>
    BY <1>4 DEF GoIdle, Collect, ReaperHandler, CloseGate, ListForQuiesce, QuiesceHandler, Drain,
                Reap, Reaped, QuiesceDelete, QuiesceDeleted, vars
  <2>2. QED
    BY <2>1, PinsStay
<1>5. ASSUME NEW p \in Proxy, Arrive(p) \/ TakeThread(p) PROVE pins' = PinHolders'
  <2>1. UNCHANGED <<pins, pc>>
    BY <1>5 DEF Arrive, TakeThread
  <2>2. \A x \in Proxy : proxy'[x] \in {"pinned", "streaming"} <=> proxy[x] \in {"pinned", "streaming"}
    BY <1>5 DEF Arrive, TakeThread, ProxyGoto, TypeOK
  <2>3. QED
    BY <2>1, <2>2, PinsStay
<1>6. ASSUME NEW p \in Proxy, Acquire(p) \/ Discover(p) \/ EndStream(p) PROVE pins' = PinHolders'
  <2>1. CASE EndStream(p) \/ (Acquire(p) /\ proxy[p] = "acquiring")
    BY <2>1, ProxyPin DEF Acquire, EndStream
  <2>2. CASE Discover(p) /\ ProxyGoto(p, "none")
    <3>1. pins' = pins \ {p} /\ UNCHANGED pc
      BY <2>2 DEF Discover, ProxyGoto, TypeOK
    <3>2. QED
      BY <2>2, <3>1, ProxyPin
  <2>3. CASE Discover(p) /\ ProxyGoto(p, "streaming")
    <3>1. pins' = pins /\ UNCHANGED pc
      BY <2>3 DEF Discover, ProxyGoto, TypeOK
    <3>2. p \in pins
      BY <2>3 DEF Discover, PinHolders
    <3>3. pins' = pins \cup {p}
      BY <3>1, <3>2
    <3>4. QED
      BY <2>3, <3>1, <3>3, ProxyPin
  <2>4. CASE Acquire(p) /\ proxy[p] = "orphaned"
    <3>1. UNCHANGED <<pins, pc>>
      BY <2>4 DEF Acquire
    <3>2. \A x \in Proxy : proxy'[x] \in {"pinned", "streaming"}
                            <=> proxy[x] \in {"pinned", "streaming"}
      BY <2>4 DEF Acquire, ProxyGoto, TypeOK
    <3>3. QED
      BY <3>1, <3>2, PinsStay
  <2>5. QED
    BY <1>6, <2>1, <2>2, <2>3, <2>4 DEF Discover, Acquire
<1>7. ASSUME NEW p \in Proxy, Cancelled(p) PROVE pins' = PinHolders'
  <2>1. CASE UNCHANGED pins
    <3>1. \A x \in Proxy : proxy'[x] \in {"pinned", "streaming"}
                            <=> proxy[x] \in {"pinned", "streaming"}
      <4>1. PICK q : proxy[p] \in {"queued", "acquiring"} /\ q \in {"none", "orphaned"}
                     /\ ProxyGoto(p, q)
        BY <1>7, <2>1 DEF Cancelled, PinHolders
      <4>2. QED
        BY <4>1 DEF ProxyGoto, TypeOK
    <3>2. QED
      BY <1>7, <2>1, <3>1, PinsStay DEF Cancelled
  <2>2. CASE pins' = pins \ {p} /\ ProxyGoto(p, "none")
    BY <1>7, <2>2, ProxyPin DEF Cancelled
  <2>3. QED
    BY <1>7, <2>1, <2>2 DEF Cancelled
<1>8. CASE Restart
  BY <1>8 DEF Restart, PinHolders
<1>9. QED
  BY <1>1, <1>2, <1>3, <1>4, <1>5, <1>6, <1>7, <1>8 DEF Next, ProviderStep, ProxyStep

\* Every step keeps Marked.
LEMMA MarkStep == TypeOK /\ Marked /\ [Next]_vars => Marked'
<1> SUFFICES ASSUME TypeOK, Marked, [Next]_vars PROVE Marked'
  OBVIOUS
<1> USE DEF serverVars, clientVars
<1>0. Client \subseteq Deleter /\ Reaper \in Deleter /\ Quiesce \in Deleter /\ Reaper \notin Client
      /\ Reaper # Quiesce
  BY HoldersDistinct DEF Deleter
<1>1. CASE ~deleting'
  BY <1>1 DEF Marked
<1>2. ASSUME NEW d \in Deleter, NEW g, BeginDelete(d, g) PROVE Marked'
  <2>1. del'[d] = "waiting"
    BY <1>2 DEF BeginDelete, TypeOK
  <2>2. QED
    BY <2>1 DEF Marked, WillUnmark
<1>3. ASSUME UNCHANGED deleting, \A d \in Deleter : WillUnmark(d) => WillUnmark(d)' PROVE Marked'
  BY <1>3 DEF Marked
<1>4. ASSUME UNCHANGED <<deleting, del>> PROVE Marked'
  BY <1>3, <1>4 DEF WillUnmark
<1>5. ASSUME NEW d \in Deleter, Drain(d) PROVE Marked'
  <2>1. \A x \in Deleter : WillUnmark(x) => WillUnmark(x)'
    BY <1>5 DEF Drain, WillUnmark, TypeOK
  <2>2. QED
    BY <1>3, <1>5, <2>1 DEF Drain
<1>6. CASE Reap
  <2>1. \E step \in {"deleted", "failed"} : del' = [del EXCEPT ![Reaper] = step]
    BY <1>6 DEF Reap, Execute
  <2>2. \A x \in Deleter : WillUnmark(x) => WillUnmark(x)'
    BY <1>0, <2>1 DEF WillUnmark, TypeOK
  <2>3. QED
    BY <1>3, <1>6, <2>2 DEF Reap
<1>7. ASSUME NEW d \in Client \cup {Quiesce}, del[d] \in {"deleted", "failed"},
             del' = [del EXCEPT ![d] = "none"], UNCHANGED deleting
      PROVE  Marked'
  <2>1. \A x \in Deleter : WillUnmark(x) => WillUnmark(x)'
    BY <1>0, <1>7 DEF WillUnmark, TypeOK
  <2>2. QED
    BY <1>3, <1>7, <2>1
<1>8. ASSUME NEW c \in Client, ReleaseHandler(c) PROVE Marked'
  BY <1>0, <1>1, <1>5, <1>7, <1>8 DEF ReleaseHandler, Delete, DeleteReturns, EndDelete
<1>9. CASE ReaperHandler \/ QuiesceHandler
  BY <1>0, <1>1, <1>5, <1>6, <1>7, <1>9
     DEF ReaperHandler, Reaped, QuiesceHandler, QuiesceDelete, QuiesceDeleted, EndDelete
<1>10. CASE Collect \/ ListForQuiesce
  BY <1>0, <1>2, <1>4, <1>10 DEF Collect, ListForQuiesce
<1>11. ASSUME NEW c \in Client,
              \/ StartGet(c) \/ StartRelease(c) \/ Shutdown(c) \/ ProviderStep(c)
              \/ LookFails(c) \/ GiveUp(c)
       PROVE  Marked'
  BY <1>0, <1>2, <1>4, <1>11
     DEF StartGet, StartRelease, Shutdown, ProviderStep, Look, Looked, EnterGate, PinCreate,
         Create, Created, CallDelete, LookFails, GiveUp
<1>12. ASSUME NEW p \in Proxy, Arrive(p) \/ ProxyStep(p) \/ Cancelled(p) PROVE Marked'
  BY <1>4, <1>12 DEF Arrive, ProxyStep, TakeThread, Acquire, Discover, EndStream, Cancelled
<1>13. CASE GoIdle \/ CloseGate \/ UNCHANGED vars
  BY <1>4, <1>13 DEF GoIdle, CloseGate, vars
<1>14. CASE Restart
  BY <1>1, <1>14 DEF Restart
<1>15. QED
  BY <1>8, <1>9, <1>10, <1>11, <1>12, <1>13, <1>14 DEF Next

\* Only a cancelled request leaves a pin behind.
LEMMA LeakStep == TypeOK /\ [Next]_vars => LeaksByCancelling
<1> SUFFICES ASSUME TypeOK, [Next]_vars, leaked', ~leaked
             PROVE  \E p \in Proxy :
                       /\ proxy'[p] = "none"
                       /\ proxy[p] = "orphaned" \/ (proxy[p] = "streaming" /\ faults' = faults + 1)
  BY DEF LeaksByCancelling
<1> USE DEF serverVars, clientVars
<1>1. PICK p \in Proxy : Acquire(p) \/ Cancelled(p)
  <2>1. ASSUME NEW c \in Client,
               \/ StartGet(c) \/ StartRelease(c) \/ Shutdown(c) \/ ProviderStep(c)
               \/ LookFails(c) \/ GiveUp(c) \/ ReleaseHandler(c)
        PROVE  FALSE
    BY <2>1
       DEF StartGet, StartRelease, Shutdown, ProviderStep, Look, Looked, EnterGate, PinCreate, Create,
           Created, CallDelete, LookFails, GiveUp, ReleaseHandler, Drain, Delete, DeleteReturns
  <2>2. CASE \/ GoIdle \/ Collect \/ ReaperHandler \/ CloseGate \/ ListForQuiesce \/ QuiesceHandler
             \/ Restart \/ UNCHANGED vars
    BY <2>2
       DEF GoIdle, Collect, ReaperHandler, CloseGate, ListForQuiesce, QuiesceHandler, Drain, Reap,
           Reaped, QuiesceDelete, QuiesceDeleted, Restart, vars
  <2>3. ASSUME NEW p \in Proxy, Arrive(p) \/ ProxyStep(p)
        PROVE  Acquire(p)
    BY <2>3 DEF Arrive, ProxyStep, TakeThread, Discover, EndStream
  <2>4. QED
    BY <2>1, <2>2, <2>3 DEF Next
<1>2. \/ proxy[p] = "orphaned" /\ ProxyGoto(p, "none")
      \/ proxy[p] = "streaming" /\ ProxyGoto(p, "none") /\ faults' = faults + 1
  BY <1>1 DEF Acquire, Cancelled, Fault
<1>3. proxy'[p] = "none"
  BY <1>2 DEF ProxyGoto, TypeOK
<1>4. QED
  BY <1>2, <1>3

\* Nothing but the pin of a cancelled request is left behind.
THEOREM OnlyCancelledRequestsLeakCorrect == Spec => OnlyCancelledRequestsLeak
<1>1. Init => Pinned /\ Marked
  BY DEF Init, Pinned, PinHolders, Marked
<1>2. TypeOK /\ [Next]_vars => [LeaksByCancelling]_vars
  BY LeakStep
<1>3. QED
  BY <1>1, <1>2, InitType, TypeStep, PinStep, MarkStep, PTL DEF Spec, OnlyCancelledRequestsLeak
=============================================================================
