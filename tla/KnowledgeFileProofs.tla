------------------------- MODULE KnowledgeFileProofs -------------------------
(* What KnowledgeFile promises, proved for every set of tasks.  For the    *)
(* books of the file and its versions (Inv) the fences of the database     *)
(* writes are enough; what a reader finds (Orderly) also takes the lock.   *)
EXTENDS KnowledgeFile, TLAPS

\* Where a handler can be.
Label == {"off", "next", "stop", "dead"} \cup Working

USE DEF Working, Building, Clearing, Staged, Undoing, Settling

-----------------------------------------------------------------------------
(* Types.                                                                  *)

\* A jump and the end of the work on the file keep the handler well typed.
LEMMA GotoType ==
    ASSUME TypeOK, NEW t \in Task, NEW label \in Label, Goto(t, label)
    PROVE  pc' \in [Task -> Label]
BY DEF TypeOK, Goto, Label

\* Leaving a handler is well typed.
LEMMA LeaveType ==
    ASSUME TypeOK, NEW t \in Task, NEW label \in Label, NEW rest \in SUBSET {"parse", "index"},
           LeaveFile(t, label, rest)
    PROVE  /\ pc' \in [Task -> Label]
           /\ lock' \in Task \cup {None}
           /\ todo' \in [Task -> SUBSET {"parse", "index"}]
           /\ old' \in [Task -> Version \cup {None}]
BY DEF TypeOK, LeaveFile, Goto, Label

\* The failure hook is well typed.
LEMMA ProcessingType ==
    ASSUME TypeOK, NEW t, FailProcessing(t)
    PROVE  /\ status' \in {"uploaded", "parsing", "error_parsing", "parsed", "indexing",
                           "error_indexing", "indexed", "deleted"}
           /\ owner' \in Task \cup {None}
BY DEF TypeOK, FailProcessing

\* The steps around a handler and at its claims keep the types.
LEMMA FrameType ==
    ASSUME TypeOK, NEW t \in Task
    PROVE  /\ \A work \in SUBSET {"parse", "index"} : Start(t, work) => TypeOK'
           /\ EndTask(t) \/ Interrupt(t) \/ EndCancelled(t) => TypeOK'
           /\ Expire(t) \/ ReconcileLease(t) \/ Crash(t) => TypeOK'
<1> USE DEF file, index, handler, cleaner, history
<1>1. ASSUME NEW work \in SUBSET {"parse", "index"}, Start(t, work) PROVE TypeOK'
  BY <1>1 DEF Start, Goto, TypeOK
<1>2. CASE EndTask(t)
  BY <1>2, ProcessingType DEF EndTask, Goto, TypeOK
<1>3. CASE Interrupt(t)
  BY <1>3 DEF Interrupt, Goto, TypeOK
<1>4. CASE EndCancelled(t)
  BY <1>4, ProcessingType DEF EndCancelled, Goto, TypeOK
<1>5. CASE Expire(t)
  BY <1>5 DEF Expire, TypeOK
<1>6. CASE ReconcileLease(t)
  BY <1>6, ProcessingType DEF ReconcileLease, TypeOK
<1>7. CASE Crash(t)
  BY <1>7 DEF Crash, Goto, TypeOK
<1>8. QED
  BY <1>1, <1>2, <1>3, <1>4, <1>5, <1>6, <1>7

\* A claim is well typed.
LEMMA ClaimType ==
    ASSUME TypeOK, NEW t \in Task, Claims(t) \/ Parse(t) \/ ResetUploaded(t)
    PROVE  TypeOK'
<1> USE DEF file, index, handler, cleaner, history
<1>1. CASE ClaimParse(t)
  BY <1>1 DEF ClaimParse, Skip, Goto, TypeOK
<1>2. ASSUME NEW p \in {"single_chunk", "parent_child"}, ClaimIndex(t, p) PROVE TypeOK'
  <2>1. \A legacy : FirstStep(p, legacy) \in Label
    BY DEF FirstStep, Label
  <2>2. QED
    BY <1>2, <2>1 DEF ClaimIndex, Skip, Goto, TypeOK, Label
<1>3. CASE Parse(t)
  <2>1. todo[t] \ {"parse"} \in SUBSET {"parse", "index"}
    BY DEF TypeOK
  <2>2. QED
    BY <1>3, <2>1, LeaveType, GotoType DEF Parse, Release, TypeOK, Label
<1>4. CASE ResetUploaded(t)
  BY <1>4 DEF ResetUploaded, SettleRaises, Release, LeaveFile, Goto, TypeOK
<1>5. QED
  BY <1>1, <1>2, <1>3, <1>4 DEF Claims

\* The steps of the path without versions are well typed.
LEMMA SingleType ==
    ASSUME TypeOK, NEW t \in Task, SingleSteps(t)
    PROVE  TypeOK'
<1> USE DEF file, index, handler, cleaner, history
<1>1. CASE AssertOwner(t)
  <2>1. \A l \in DOMAIN Clear \ {"ownLast"} : Clear[l] \in Label
    BY DEF Clear, Label
  <2>2. QED
    BY <1>1, <2>1 DEF AssertOwner, Goto, TypeOK, Label
<1>2. CASE ClearStep(t)
  BY <1>2 DEF ClearStep, DeleteChunks, DeleteVectors, DeleteRows, Goto, TypeOK, Amount
<1>3. CASE Store(t)
  BY <1>3 DEF Store, Goto, TypeOK, Amount
<1>4. CASE FinishSingle(t)
  BY <1>4 DEF FinishSingle, Release, LeaveFile, Goto, TypeOK
<1>5. QED
  BY <1>1, <1>2, <1>3, <1>4 DEF SingleSteps

\* The steps of the path with versions are well typed.
LEMMA VersionType ==
    ASSUME TypeOK, NEW t \in Task, VersionSteps(t)
    PROVE  TypeOK'
<1> USE DEF file, index, handler, cleaner, history
<1>1. CASE Stage(t)
  <2>1. ActiveOrNone \in Version \cup {None}
    BY DEF ActiveOrNone
  <2>2. QED
    BY <1>1, <2>1 DEF Stage, Goto, TypeOK, Version
<1>2. CASE Insert(t)
  BY <1>2 DEF Insert, Goto, TypeOK, Amount
<1>3. CASE ReadBack(t)
  BY <1>3 DEF ReadBack, Goto, TypeOK
<1>4. CASE Activate(t)
  BY <1>4 DEF Activate, Release, Goto, TypeOK
<1>5. CASE CleanVectors(t)
  BY <1>5 DEF CleanVectors, CleanupFailed, Goto, TypeOK, Amount
<1>6. CASE CleanRow(t)
  BY <1>6 DEF CleanRow, CleanupFailed, Goto, TypeOK
<1>7. CASE EnqueueCleanup(t)
  BY <1>7 DEF EnqueueCleanup, Goto, TypeOK
<1>8. CASE Leave(t)
  BY <1>8 DEF Leave, LeaveFile, Goto, TypeOK
<1>9. QED
  BY <1>1, <1>2, <1>3, <1>4, <1>5, <1>6, <1>7, <1>8 DEF VersionSteps

\* The failing and the rolling back of a handler are well typed.
LEMMA FailureType ==
    ASSUME TypeOK, NEW t \in Task, FailureSteps(t)
    PROVE  TypeOK'
<1> USE DEF file, index, handler, cleaner, history
<1>1. CASE Fail(t)
  BY <1>1 DEF Fail, Goto, TypeOK, Amount
<1>2. CASE RollBackVectors(t)
  BY <1>2 DEF RollBackVectors, Goto, TypeOK, Amount, Version
<1>3. CASE RollBackRow(t)
  BY <1>3 DEF RollBackRow, Goto, TypeOK
<1>4. CASE FailFile(t)
  BY <1>4, ProcessingType DEF FailFile, SettleRaises, LeaveFile, Goto, TypeOK
<1>5. QED
  BY <1>1, <1>2, <1>3, <1>4 DEF FailureSteps

\* The durable cleanup is well typed.
LEMMA CleanupType ==
    ASSUME TypeOK, NEW v \in Version, Cleanup(v)
    PROVE  TypeOK'
<1> USE DEF file, index, handler, cleaner, history
<1>1. ASSUME RetryCleanup(v)
      PROVE  /\ cleanup' \in [Version -> {"none", "queued", "swept", "failed", "done"}]
             /\ tries' \in [Version -> 0..MaxAttempts]
  BY <1>1, MaxAttemptsPositive DEF RetryCleanup, Exhausted, TypeOK
<1>2. CASE SweepVectors(v)
  BY <1>1, <1>2 DEF SweepVectors, TypeOK, Amount
<1>3. CASE SweepRow(v) \/ LoseCleanup(v)
  BY <1>3 DEF SweepRow, LoseCleanup, TypeOK
<1>4. QED
  BY <1>2, <1>3 DEF Cleanup

\* A deletion is well typed.
LEMMA DeletionType ==
    ASSUME TypeOK, DeleteStep \/ DeleteStops
    PROVE  TypeOK'
<1> USE DEF file, index, handler, cleaner, history
<1>1. CASE DeleteStep
  BY <1>1 DEF DeleteStep, DeleteChunks, DeleteVectors, DeleteRows, Release, TypeOK, Amount
<1>2. CASE DeleteStops
  BY <1>2 DEF DeleteStops, TypeOK
<1>3. QED
  BY <1>1, <1>2

\* The initial file is well typed.
LEMMA InitType == Init => TypeOK
<1> SUFFICES ASSUME Init PROVE TypeOK
  OBVIOUS
<1>1. /\ ver \in [Version -> {"none", "staging", "active", "superseded", "gone"}]
      /\ vec \in [Version -> Amount]
      /\ tries \in [Version -> 0..MaxAttempts]
  BY MaxAttemptsPositive DEF Init, Amount
<1>2. QED
  BY <1>1 DEF Init, TypeOK, Amount

\* Every step keeps the types.
LEMMA TypeStep == TypeOK /\ [Next]_vars => TypeOK'
<1> SUFFICES ASSUME TypeOK, [Next]_vars PROVE TypeOK'
  OBVIOUS
<1>1. ASSUME NEW t \in Task, Handler(t) PROVE TypeOK'
  BY <1>1, FrameType, ClaimType, SingleType, VersionType, FailureType DEF Handler
<1>2. CASE UNCHANGED vars
  BY <1>2 DEF vars, file, index, handler, cleaner, history, TypeOK
<1>3. QED
  BY <1>1, <1>2, FrameType, CleanupType, DeletionType DEF Next

\* Every variable always has its type.
THEOREM FileTypeCorrect == Spec => []TypeOK
BY InitType, TypeStep, PTL DEF Spec

-----------------------------------------------------------------------------
(* A file between two settled states belongs to a task that is at it.      *)

\* From its activation on, a version's task no longer owns the file (auxiliary).
SettlingReleased == \A t \in Task : pc[t] \in Settling => owner # t

\* The failure hook of t leaves no intermediate status that t owns.
LEMMA HookSettles ==
    ASSUME IntermediateIsHandled, NEW t \in Task, FailProcessing(t)
    PROVE  \/ owner = t /\ owner' = None /\ status' \in {"error_parsing", "error_indexing"}
           \/ owner # t /\ owner' = owner /\ status' = status
BY OlderIsNoTask DEF FailProcessing, IntermediateIsHandled

\* A step of t inside the file it works on, or of a file nobody owns.
LEMMA StaysHandled ==
    ASSUME TypeOK, IntermediateIsHandled, SettlingReleased,
           UNCHANGED <<status, owner, task, unsettled>>,
           NEW t \in Task, NEW label \in Label, Goto(t, label),
           owner = t /\ Live(t) => label \in Working \cup {"dead", "stop"},
           owner = t => label \notin Settling
    PROVE  IntermediateIsHandled' /\ SettlingReleased'
BY OlderIsNoTask DEF TypeOK, IntermediateIsHandled, SettlingReleased, Goto, Live

\* A step of t that settles the file.
LEMMA SettledIsHandled ==
    ASSUME TypeOK, IntermediateIsHandled, SettlingReleased, NEW t \in Task,
           NEW label, Goto(t, label), status' \notin {"parsing", "indexing"}, owner' = None
    PROVE  IntermediateIsHandled' /\ SettlingReleased'
BY OlderIsNoTask DEF TypeOK, IntermediateIsHandled, SettlingReleased, Goto

\* A step of t whose settling write raises leaves an owner that is known to be unsettled.
LEMMA RaiseIsHandled ==
    ASSUME TypeOK, IntermediateIsHandled, SettlingReleased, NEW t \in Task, SettleRaises(t),
           UNCHANGED task
    PROVE  IntermediateIsHandled' /\ SettlingReleased'
BY OlderIsNoTask
   DEF SettleRaises, LeaveFile, Goto, TypeOK, IntermediateIsHandled, SettlingReleased, Live

\* The steps around a handler keep the status handled.
LEMMA FrameHandled ==
    ASSUME TypeOK, IntermediateIsHandled, SettlingReleased, NEW t \in Task,
           \/ \E work \in SUBSET {"parse", "index"} : Start(t, work)
           \/ EndTask(t) \/ Interrupt(t) \/ EndCancelled(t)
           \/ Expire(t) \/ ReconcileLease(t) \/ Crash(t)
    PROVE  IntermediateIsHandled' /\ SettlingReleased'
<1> USE DEF file, history
<1>1. ASSUME NEW work, Start(t, work) PROVE IntermediateIsHandled' /\ SettlingReleased'
  BY <1>1, OlderIsNoTask DEF Start, Goto, TypeOK, IntermediateIsHandled, SettlingReleased, Live
<1>2. CASE EndTask(t)
  <2>1. Live(t) /\ owner = t => t \in unsettled
    BY <1>2, OlderIsNoTask DEF EndTask, IntermediateIsHandled
  <2>2. Goto(t, "off") /\ UNCHANGED unsettled
    BY <1>2 DEF EndTask, history
  <2>3. task' = task \/ (Live(t) /\ task' = [task EXCEPT ![t] = "ended"])
    BY <1>2 DEF EndTask
  <2>4. CASE UNCHANGED <<status, owner>>
    BY <2>1, <2>2, <2>3, <2>4, OlderIsNoTask
       DEF TypeOK, IntermediateIsHandled, SettlingReleased, Goto, Live
  <2>5. CASE owner = t /\ owner' = None /\ status' \in {"error_parsing", "error_indexing"}
    BY <2>2, <2>5, SettledIsHandled
  <2>6. QED
    BY <1>2, <2>4, <2>5, HookSettles DEF EndTask
<1>3. CASE Interrupt(t)
  BY <1>3, StaysHandled DEF Interrupt, Label
<1>4. CASE EndCancelled(t)
  <2>1. CASE Live(t)
    BY <1>4, <2>1, HookSettles, OlderIsNoTask
       DEF EndCancelled, TypeOK, IntermediateIsHandled, SettlingReleased, Goto, Live
  <2>2. CASE ~Live(t)
    BY <1>4, <2>2, StaysHandled DEF EndCancelled, Label
  <2>3. QED
    BY <2>1, <2>2
<1>5. CASE Expire(t)
  BY <1>5, OlderIsNoTask
     DEF Expire, handler, TypeOK, IntermediateIsHandled, SettlingReleased, Live
<1>6. CASE ReconcileLease(t)
  <2>1. UNCHANGED pc /\ task' = [task EXCEPT ![t] = "ended"]
    BY <1>6 DEF ReconcileLease, handler
  <2>2. QED
    BY <1>6, <2>1, HookSettles, OlderIsNoTask
       DEF ReconcileLease, TypeOK, IntermediateIsHandled, SettlingReleased, Live
<1>7. CASE Crash(t)
  BY <1>7, StaysHandled DEF Crash, Label
<1>8. QED
  BY <1>1, <1>2, <1>3, <1>4, <1>5, <1>6, <1>7

\* Who sets an intermediate status handles it.
LEMMA ClaimHandled ==
    ASSUME TypeOK, IntermediateIsHandled, SettlingReleased, NEW t \in Task,
           Claims(t) \/ Parse(t) \/ ResetUploaded(t)
    PROVE  IntermediateIsHandled' /\ SettlingReleased'
<1> USE DEF file, history
<1>1. ASSUME NEW label \in Working \ Settling, Live(t), UNCHANGED <<task, unsettled>>, owner = None,
             owner' = t, status' \in {"parsing", "indexing"}, Goto(t, label)
      PROVE  IntermediateIsHandled' /\ SettlingReleased'
  BY <1>1, OlderIsNoTask DEF TypeOK, IntermediateIsHandled, SettlingReleased, Goto, Live
<1>2. ASSUME Skip(t), UNCHANGED <<task, unsettled>>
      PROVE  IntermediateIsHandled' /\ SettlingReleased'
  BY <1>2 DEF Skip, IntermediateIsHandled, SettlingReleased, Live
<1>3. CASE ClaimParse(t)
  <2>1. status \in {"uploaded", "error_parsing"} => owner = None
    BY DEF IntermediateIsHandled
  <2>2. QED
    BY <1>1, <1>2, <1>3, <2>1 DEF ClaimParse
<1>4. ASSUME NEW p, ClaimIndex(t, p) PROVE IntermediateIsHandled' /\ SettlingReleased'
  <2>1. status \in {"parsed", "error_indexing", "indexed"} => owner = None
    BY DEF IntermediateIsHandled
  <2>2. \A legacy : FirstStep(p, legacy) \in Working \ Settling
    BY DEF FirstStep
  <2>3. QED
    BY <1>1, <1>2, <1>4, <2>1, <2>2 DEF ClaimIndex
<1>5. CASE Parse(t)
  BY <1>5, StaysHandled, SettledIsHandled DEF Parse, Release, LeaveFile, Label
<1>6. CASE ResetUploaded(t)
  BY <1>6, StaysHandled, SettledIsHandled, RaiseIsHandled
     DEF ResetUploaded, Release, LeaveFile, Label
<1>7. QED
  BY <1>3, <1>4, <1>5, <1>6 DEF Claims

\* The steps of a handler keep the status handled until they settle it.
LEMMA WorkHandled ==
    ASSUME TypeOK, IntermediateIsHandled, SettlingReleased, NEW t \in Task,
           SingleSteps(t) \/ VersionSteps(t) \/ FailureSteps(t)
    PROVE  IntermediateIsHandled' /\ SettlingReleased'
<1> USE DEF file, history
<1>1. CASE AssertOwner(t)
  <2>1. \A l \in DOMAIN Clear \ {"ownLast"} : Clear[l] \in Clearing
    BY DEF Clear
  <2>2. \E label \in Label : Goto(t, label) /\ label \in Working \ Settling
    BY <1>1, <2>1 DEF AssertOwner, Label
  <2>3. UNCHANGED <<status, owner, task, unsettled>>
    BY <1>1 DEF AssertOwner
  <2>4. QED
    BY <2>2, <2>3, StaysHandled
<1>2. CASE \/ ClearStep(t) \/ Store(t) \/ Stage(t) \/ Insert(t) \/ ReadBack(t)
           \/ Fail(t) \/ RollBackVectors(t) \/ RollBackRow(t)
  <2>1. \E label \in Label : Goto(t, label) /\ label \in Working \ Settling
    BY <1>2 DEF ClearStep, Store, Stage, Insert, ReadBack, Fail, RollBackVectors, RollBackRow,
                Label
  <2>2. UNCHANGED <<status, owner, task, unsettled>>
    BY <1>2 DEF ClearStep, Store, Stage, Insert, ReadBack, Fail, RollBackVectors, RollBackRow
  <2>3. QED
    BY <2>1, <2>2, StaysHandled
<1>3. CASE CleanVectors(t) \/ CleanRow(t) \/ EnqueueCleanup(t) \/ Leave(t)
  <2>1. owner # t
    BY <1>3 DEF CleanVectors, CleanRow, EnqueueCleanup, Leave, SettlingReleased
  <2>2. \E label \in Label : Goto(t, label)
    BY <1>3 DEF CleanVectors, CleanRow, CleanupFailed, EnqueueCleanup, Leave, LeaveFile, Label
  <2>3. UNCHANGED <<status, owner, task, unsettled>>
    BY <1>3 DEF CleanVectors, CleanRow, EnqueueCleanup, Leave
  <2>4. QED
    BY <2>1, <2>2, <2>3, StaysHandled
<1>4. CASE FinishSingle(t)
  BY <1>4, StaysHandled, SettledIsHandled DEF FinishSingle, Release, LeaveFile, Label
<1>5. CASE Activate(t)
  BY <1>5, StaysHandled, SettledIsHandled DEF Activate, Release, Label
<1>6. CASE FailFile(t)
  <2>1. CASE UNCHANGED <<status, owner, unsettled>> /\ LeaveFile(t, "stop", {})
    BY <1>6, <2>1, StaysHandled DEF FailFile, LeaveFile, Label
  <2>2. ASSUME Fence(t, status), FailProcessing(t), NEW label, LeaveFile(t, label, {})
        PROVE  IntermediateIsHandled' /\ SettlingReleased'
    BY <2>2, HookSettles, SettledIsHandled DEF Fence, LeaveFile
  <2>3. CASE SettleRaises(t)
    BY <1>6, <2>3, RaiseIsHandled DEF FailFile
  <2>4. QED
    BY <1>6, <2>1, <2>2, <2>3 DEF FailFile
<1>7. QED
  BY <1>1, <1>2, <1>3, <1>4, <1>5, <1>6 DEF SingleSteps, VersionSteps, FailureSteps

\* Every step keeps IntermediateIsHandled.
LEMMA HandledStep ==
    TypeOK /\ IntermediateIsHandled /\ SettlingReleased /\ [Next]_vars =>
        IntermediateIsHandled' /\ SettlingReleased'
<1> SUFFICES ASSUME TypeOK, IntermediateIsHandled, SettlingReleased, [Next]_vars
             PROVE  IntermediateIsHandled' /\ SettlingReleased'
  OBVIOUS
<1>1. ASSUME NEW t \in Task, Handler(t) PROVE IntermediateIsHandled' /\ SettlingReleased'
  BY <1>1, FrameHandled, ClaimHandled, WorkHandled DEF Handler
<1>2. ASSUME UNCHANGED <<status, owner, task, pc, unsettled>>
      PROVE  IntermediateIsHandled' /\ SettlingReleased'
  BY <1>2 DEF IntermediateIsHandled, SettlingReleased, Live
<1>3. CASE (\E v \in Version : Cleanup(v)) \/ DeleteStops \/ UNCHANGED vars
  BY <1>2, <1>3 DEF Cleanup, SweepVectors, SweepRow, LoseCleanup, DeleteStops, vars, file, handler,
                  history
<1>4. CASE DeleteStep
  <2>1. UNCHANGED <<task, pc, unsettled>> /\ (UNCHANGED <<status, owner>> \/ Release("deleted"))
    BY <1>4 DEF DeleteStep, handler, file, history
  <2>2. QED
    BY <1>2, <2>1, OlderIsNoTask DEF Release, IntermediateIsHandled, SettlingReleased
<1>5. QED
  BY <1>1, <1>3, <1>4, FrameHandled DEF Next

\* parsing and indexing are never left behind, unless the write that was to settle the
\* file raised: the file has an owner exactly then, and the owner's task has not ended and,
\* with a live lease, is still at the file.
THEOREM IntermediateIsHandledCorrect == Spec => []IntermediateIsHandled
<1>1. Init => IntermediateIsHandled /\ SettlingReleased
  BY OlderIsNoTask DEF Init, IntermediateIsHandled, SettlingReleased
<1>2. QED
  BY <1>1, InitType, TypeStep, HandledStep, PTL DEF Spec

-----------------------------------------------------------------------------
(* The versions of the document.                                           *)

\* A task that has not staged its version yet has none.
Fresh ==
    \A t \in Task :
        /\ task[t] = "pending" => pc[t] = "off" /\ ver[t] = "none"
        /\ pc[t] = "next" /\ todo[t] # {} => ver[t] = "none"
        /\ pc[t] \in Building => ver[t] = "none"

\* At most one version is active.
OneActive == \A v, w \in Version : ver[v] = "active" /\ ver[w] = "active" => v = w

\* The owner of the file knows the version that it is about to supersede.
StagedOver ==
    \A t \in Task : owner = t /\ pc[t] \in Staged =>
        /\ \A v \in Version : ver[v] = "active" => old[t] = v
        /\ old[t] # None => ver[old[t]] \in {"active", "gone"}

\* What a handler that has published its version knows of the superseded one.
Settles ==
    \A t \in Task :
        /\ pc[t] \in {"cleanVec", "cleanRow", "enqueue"} =>
               old[t] # None /\ ver[old[t]] \in {"superseded", "gone"}
        /\ pc[t] = "cleanRow" => vec[old[t]] = "none" \/ ver[old[t]] = "gone"
        /\ pc[t] = "leave" /\ old[t] # None =>
               \/ ver[old[t]] = "gone"
               \/ /\ ver[old[t]] = "superseded"
                  /\ cleanup[old[t]] \in {"queued", "swept", "failed"} \/ old[t] \in forgotten

\* What the durable cleanup of a version has done.
Cleans ==
    \A v \in Version :
        /\ cleanup[v] # "none" => ver[v] \in {"superseded", "gone"}
        /\ cleanup[v] = "done" => ver[v] = "gone"
        /\ cleanup[v] = "swept" => vec[v] = "none" \/ ver[v] = "gone"

\* The book-keeping of versions, chunks and cleanups.
Books == Fresh /\ OneActive /\ StagedOver /\ Settles /\ Cleans /\ SupersededIsTracked

\* Everything that is known of the state a step starts from.
Inv == TypeOK /\ IntermediateIsHandled /\ SettlingReleased /\ Books

\* No version comes back: a version that exists stays or goes, vectors are only
\* written for a version that is staged.
Fades ==
    \A v \in Version :
        /\ ver'[v] = ver[v] \/ (ver[v] # "none" /\ ver'[v] = "gone")
        /\ vec'[v] \in {vec[v], "none"} \/ ver[v] = "staging"

\* A step of t, which has not published a version.
LEMMA JumpKeepsBooks ==
    ASSUME Inv, Fades, UNCHANGED <<cleanup, forgotten>>, NEW t \in Task, NEW label \in Label,
           Goto(t, label), UNCHANGED owner \/ owner' \in {t, None},
           pc[t] \notin Settling, pc[t] # "dead", label \notin Settling,
           label \in Staged => pc[t] \in Staged /\ old' = old /\ owner' = owner,
           label \in Building => ver[t] = "none",
           label = "next" /\ todo'[t] # {} => ver[t] = "none",
           \A u \in Task \ {t} : todo'[u] = todo[u] /\ old'[u] = old[u],
           \A u \in Task : task'[u] = "pending" => u # t /\ task[u] = "pending"
    PROVE  Books'
<1>1. \A u \in Task : pc'[u] = IF u = t THEN label ELSE pc[u]
  BY DEF Inv, TypeOK, Goto
<1>2. Task \subseteq Version
  BY DEF Version
<1>3. Fresh'
  BY <1>1, <1>2 DEF Inv, Books, Fresh, Fades
<1>4. OneActive' /\ Cleans'
  BY DEF Inv, Books, OneActive, Cleans, Fades
<1>5. StagedOver'
  BY <1>1, OlderIsNoTask DEF Inv, TypeOK, Books, StagedOver, Fades
<1>6. Settles'
  <2>1. ASSUME NEW u \in Task \ {t}, old[u] # None
        PROVE  old[u] \in Version /\ old'[u] = old[u]
    BY <2>1 DEF Inv, TypeOK
  <2>2. QED
    BY <1>1, <2>1 DEF Inv, Books, Settles, Fades
<1>7. SupersededIsTracked'
  BY <1>1 DEF Inv, Books, SupersededIsTracked, Fades
<1>8. QED
  BY <1>3, <1>4, <1>5, <1>6, <1>7 DEF Books

\* A step outside the handlers.
LEMMA FadingKeepsBooks ==
    ASSUME Inv, Fades, UNCHANGED <<cleanup, forgotten, pc, todo, old, task>>,
           UNCHANGED owner \/ owner' = None
    PROVE  Books'
<1>1. Task \subseteq Version
  BY DEF Version
<1>2. Fresh'
  BY <1>1 DEF Inv, Books, Fresh, Fades
<1>3. OneActive' /\ Cleans'
  BY DEF Inv, Books, OneActive, Cleans, Fades
<1>4. StagedOver'
  BY OlderIsNoTask DEF Inv, TypeOK, Books, StagedOver, Fades
<1>5. Settles'
  <2>1. \A u \in Task : old[u] # None => old[u] \in Version
    BY DEF Inv, TypeOK
  <2>2. QED
    BY <2>1 DEF Inv, Books, Settles, Fades
<1>6. SupersededIsTracked'
  BY DEF Inv, Books, SupersededIsTracked, Fades
<1>7. QED
  BY <1>2, <1>3, <1>4, <1>5, <1>6 DEF Books

\* A started task is not pending.
LEMMA WorkingIsStarted ==
    ASSUME Inv, NEW t \in Task, pc[t] # "off", UNCHANGED task
    PROVE  \A u \in Task : task'[u] = "pending" => u # t /\ task[u] = "pending"
BY DEF Inv, Books, Fresh

\* The step leaves versions, vectors and cleanups alone.
Untouched == UNCHANGED <<ver, vec, cleanup, forgotten>>

\* What leaves the stores alone adds nothing to them.
LEMMA UntouchedFades == ASSUME Untouched PROVE Fades /\ UNCHANGED <<cleanup, forgotten>>
BY DEF Untouched, Fades

\* The steps around a handler keep the books.
LEMMA FrameBooks ==
    ASSUME Inv, NEW t \in Task,
           \/ \E work \in SUBSET {"parse", "index"} : Start(t, work)
           \/ EndTask(t) \/ Interrupt(t) \/ EndCancelled(t)
           \/ Expire(t) \/ ReconcileLease(t) \/ Crash(t)
    PROVE  Books'
<1>0. \A u \in Task \ {t} : todo'[u] = todo[u] /\ old'[u] = old[u]
  BY DEF Inv, TypeOK, Start, EndTask, Interrupt, EndCancelled, Expire, ReconcileLease, Crash, handler
<1>1. ASSUME NEW work \in SUBSET {"parse", "index"}, Start(t, work) PROVE Books'
  <2>1. pc[t] = "off" /\ ver[t] = "none"
    BY <1>1 DEF Start, Inv, Books, Fresh
  <2>2. Untouched /\ UNCHANGED owner /\ Goto(t, "next")
    BY <1>1 DEF Start, Untouched, file, index, cleaner, history
  <2>3. \A u \in Task : task'[u] = "pending" => u # t /\ task[u] = "pending"
    BY <1>1 DEF Start, Inv, TypeOK
  <2>4. QED
    BY <1>0, <2>1, <2>2, <2>3, UntouchedFades, JumpKeepsBooks DEF Label
<1>2. ASSUME EndTask(t) \/ EndCancelled(t) PROVE Books'
  <2>1. Untouched /\ Goto(t, "off") /\ pc[t] \in {"next", "stop"}
    BY <1>2 DEF EndTask, EndCancelled, Untouched, index, cleaner, history
  <2>2. UNCHANGED owner \/ owner' = None
    BY <1>2 DEF EndTask, EndCancelled, FailProcessing
  <2>3. \A u \in Task : task'[u] = "pending" => u # t /\ task[u] = "pending"
    BY <1>2, <2>1 DEF EndTask, EndCancelled, Inv, TypeOK, Books, Fresh
  <2>4. QED
    BY <1>0, <2>1, <2>2, <2>3, UntouchedFades, JumpKeepsBooks DEF Label
<1>3. CASE Interrupt(t)
  <2>1. /\ Untouched /\ UNCHANGED <<owner, task>> /\ Goto(t, "stop") /\ pc[t] = "next"
    BY <1>3 DEF Interrupt, Untouched, file, index, cleaner, history
  <2>2. QED
    BY <1>0, <2>1, WorkingIsStarted, UntouchedFades, JumpKeepsBooks DEF Label
<1>4. ASSUME UNCHANGED <<ver, vec, cleanup, forgotten, pc, todo, old>>,
             UNCHANGED owner \/ owner' = None,
             \A u \in Task : task'[u] = "pending" => task[u] = "pending"
      PROVE  Books'
  BY <1>4, OlderIsNoTask
     DEF Inv, Books, Fresh, OneActive, StagedOver, Settles, Cleans, SupersededIsTracked
<1>5. CASE Expire(t) \/ ReconcileLease(t)
  <2>1. UNCHANGED <<ver, vec, cleanup, forgotten, pc, todo, old>>
    BY <1>5 DEF Expire, ReconcileLease, index, handler, cleaner, history
  <2>2. UNCHANGED owner \/ owner' = None
    BY <1>5 DEF Expire, ReconcileLease, FailProcessing, file
  <2>3. \A u \in Task : task'[u] = "pending" => task[u] = "pending"
    BY <1>5 DEF Expire, ReconcileLease, Inv, TypeOK
  <2>4. QED
    BY <1>4, <2>1, <2>2, <2>3
<1>6. CASE Crash(t)
  <2>1. /\ Untouched /\ UNCHANGED <<owner, task, old>>
        /\ \A u \in Task : pc'[u] = IF u = t THEN "dead" ELSE pc[u]
        /\ \A u \in Task : todo'[u] = IF u = t THEN {} ELSE todo[u]
        /\ pc[t] # "off"
    BY <1>6 DEF Crash, Goto, Untouched, file, index, cleaner, history, Inv, TypeOK
  <2>2. Fresh'
    BY <2>1 DEF Untouched, Inv, Books, Fresh
  <2>3. OneActive' /\ Cleans' /\ StagedOver' /\ Settles'
    BY <2>1 DEF Untouched, Inv, Books, OneActive, Cleans, StagedOver, Settles
  <2>4. SupersededIsTracked'
    BY <2>1 DEF Untouched, Inv, Books, SupersededIsTracked
  <2>5. QED
    BY <2>2, <2>3, <2>4 DEF Books
<1>7. QED
  BY <1>1, <1>2, <1>3, <1>5, <1>6

\* A claim keeps the books.
LEMMA ClaimBooks ==
    ASSUME Inv, NEW t \in Task, Claims(t) \/ Parse(t) \/ ResetUploaded(t)
    PROVE  Books'
<1>1. ASSUME UNCHANGED <<ver, vec, cleanup, forgotten, pc, old, owner, task>>,
             \A u \in Task : todo'[u] \subseteq todo[u]
      PROVE  Books'
  BY <1>1 DEF Inv, Books, Fresh, OneActive, StagedOver, Settles, Cleans, SupersededIsTracked
<1>2. ASSUME Skip(t), UNCHANGED <<ver, vec, cleanup, forgotten, task>> PROVE Books'
  BY <1>1, <1>2 DEF Skip, file, Inv, TypeOK
<1>3. ASSUME NEW label \in Building, Goto(t, label), owner' = t, pc[t] = "next", ver[t] = "none",
             UNCHANGED <<ver, vec, cleanup, forgotten, todo, old, task>>
      PROVE  Books'
  <2>1. \A u \in Task : task'[u] = "pending" => u # t /\ task[u] = "pending"
    BY <1>3, WorkingIsStarted
  <2>2. QED
    BY <1>3, <2>1, UntouchedFades, JumpKeepsBooks DEF Label, Untouched
<1>4. CASE ClaimParse(t)
  <2>1. pc[t] = "next" /\ ver[t] = "none"
    BY <1>4 DEF ClaimParse, MayLock, Inv, Books, Fresh
  <2>2. UNCHANGED <<ver, vec, cleanup, forgotten, task>>
    BY <1>4 DEF ClaimParse, index, cleaner, history
  <2>3. Skip(t) \/ (Goto(t, "parse") /\ owner' = t /\ UNCHANGED <<todo, old>>)
    BY <1>4 DEF ClaimParse
  <2>4. QED
    BY <1>2, <1>3, <2>1, <2>2, <2>3
<1>5. ASSUME NEW p, ClaimIndex(t, p) PROVE Books'
  <2>1. pc[t] = "next" /\ ver[t] = "none"
    BY <1>5 DEF ClaimIndex, MayLock, Inv, Books, Fresh
  <2>2. UNCHANGED <<ver, vec, cleanup, forgotten, task>>
    BY <1>5 DEF ClaimIndex, index, cleaner, history
  <2>3. \A legacy : FirstStep(p, legacy) \in Building
    BY DEF FirstStep
  <2>4. \/ Skip(t)
        \/ \E label \in Building : Goto(t, label) /\ owner' = t /\ UNCHANGED <<todo, old>>
    BY <1>5, <2>3 DEF ClaimIndex
  <2>5. QED
    BY <1>2, <1>3, <2>1, <2>2, <2>4
<1>6. CASE Parse(t)
  <2>1. Untouched /\ UNCHANGED task /\ pc[t] = "parse" /\ ver[t] = "none"
    BY <1>6 DEF Parse, Untouched, index, cleaner, history, Inv, Books, Fresh
  <2>2. \A u \in Task \ {t} : todo'[u] = todo[u] /\ old'[u] = old[u]
    BY <1>6 DEF Parse, LeaveFile, Inv, TypeOK
  <2>3. UNCHANGED owner \/ owner' = None
    BY <1>6 DEF Parse, Release
  <2>4. Goto(t, "next") \/ Goto(t, "fail")
    BY <1>6 DEF Parse, LeaveFile
  <2>5. QED
    BY <2>1, <2>2, <2>3, <2>4, WorkingIsStarted, UntouchedFades, JumpKeepsBooks DEF Label
<1>7. CASE ResetUploaded(t)
  <2>1. Untouched /\ UNCHANGED task /\ pc[t] = "reset" /\ ver[t] = "none"
    BY <1>7 DEF ResetUploaded, SettleRaises, Untouched, index, cleaner, history, Inv, Books, Fresh
  <2>2. \A u \in Task \ {t} : todo'[u] = todo[u] /\ old'[u] = old[u]
    BY <1>7 DEF ResetUploaded, SettleRaises, LeaveFile, Inv, TypeOK
  <2>3. UNCHANGED owner \/ owner' = None
    BY <1>7 DEF ResetUploaded, SettleRaises, Release
  <2>4. Goto(t, "next") \/ Goto(t, "stop")
    BY <1>7 DEF ResetUploaded, SettleRaises, LeaveFile
  <2>5. QED
    BY <2>1, <2>2, <2>3, <2>4, WorkingIsStarted, UntouchedFades, JumpKeepsBooks DEF Label
<1>8. QED
  BY <1>4, <1>5, <1>6, <1>7 DEF Claims

\* The path without versions keeps the books.
LEMMA SingleBooks == ASSUME Inv, NEW t \in Task, SingleSteps(t) PROVE Books'
<1>1. CASE AssertOwner(t)
  <2>1. \A l \in DOMAIN Clear \ {"ownLast"} : Clear[l] \in Building
    BY DEF Clear
  <2>2. Untouched /\ UNCHANGED <<owner, task, todo, old>> /\ pc[t] \in Building
    BY <1>1 DEF AssertOwner, Clear, Untouched, file, index, cleaner, history
  <2>3. \E label \in Building \cup {"fail"} : Goto(t, label)
    BY <1>1, <2>1 DEF AssertOwner
  <2>4. ver[t] = "none"
    BY <2>2 DEF Inv, Books, Fresh
  <2>5. QED
    BY <2>2, <2>3, <2>4, UntouchedFades, WorkingIsStarted, JumpKeepsBooks DEF Label
<1>2. CASE ClearStep(t) \/ Store(t)
  <2>1. /\ UNCHANGED <<owner, task, todo, old, cleanup, forgotten>> /\ pc[t] \in Building
        /\ \E label \in Building : Goto(t, label)
    BY <1>2 DEF ClearStep, Store, file, cleaner, history
  <2>2. ver[t] = "none"
    BY <2>1 DEF Inv, Books, Fresh
  <2>3. Fades
    BY <1>2 DEF ClearStep, Store, DeleteChunks, DeleteVectors, DeleteRows, Fades
  <2>4. QED
    BY <2>1, <2>2, <2>3, WorkingIsStarted, JumpKeepsBooks DEF Label
<1>3. CASE FinishSingle(t)
  <2>1. Untouched /\ UNCHANGED task /\ pc[t] = "finish" /\ ver[t] = "none"
    BY <1>3 DEF FinishSingle, Untouched, index, cleaner, history, Inv, Books, Fresh
  <2>2. \A u \in Task \ {t} : todo'[u] = todo[u] /\ old'[u] = old[u]
    BY <1>3 DEF FinishSingle, LeaveFile, Inv, TypeOK
  <2>3. UNCHANGED owner \/ owner' = None
    BY <1>3 DEF FinishSingle, Release
  <2>4. Goto(t, "next") \/ Goto(t, "fail")
    BY <1>3 DEF FinishSingle, LeaveFile
  <2>5. QED
    BY <2>1, <2>2, <2>3, <2>4, WorkingIsStarted, UntouchedFades, JumpKeepsBooks DEF Label
<1>4. QED
  BY <1>1, <1>2, <1>3 DEF SingleSteps

\* The failing and the rolling back of a handler keep the books.
LEMMA FailureBooks == ASSUME Inv, NEW t \in Task, FailureSteps(t) PROVE Books'
<1>1. CASE Fail(t) \/ RollBackVectors(t) \/ RollBackRow(t)
  <2>1. /\ UNCHANGED <<owner, task, todo, old, cleanup, forgotten>>
        /\ pc[t] \notin Settling \cup {"off", "dead"}
        /\ \E label \in Undoing : Goto(t, label)
    BY <1>1 DEF Fail, RollBackVectors, RollBackRow, file, cleaner, history
  <2>2. Fades
    BY <1>1 DEF Fail, RollBackVectors, RollBackRow, Fades, Inv, TypeOK
  <2>3. QED
    BY <2>1, <2>2, WorkingIsStarted, JumpKeepsBooks DEF Label
<1>2. CASE FailFile(t)
  <2>1. Untouched /\ UNCHANGED task /\ pc[t] = "fail"
    BY <1>2 DEF FailFile, SettleRaises, Untouched, index, cleaner, history
  <2>2. /\ \A u \in Task \ {t} : todo'[u] = todo[u] /\ old'[u] = old[u]
        /\ todo'[t] = {}
    BY <1>2 DEF FailFile, SettleRaises, LeaveFile, Inv, TypeOK
  <2>3. UNCHANGED owner \/ owner' = None
    BY <1>2 DEF FailFile, SettleRaises, FailProcessing
  <2>4. Goto(t, "next") \/ Goto(t, "stop")
    BY <1>2 DEF FailFile, SettleRaises, LeaveFile
  <2>5. QED
    BY <2>1, <2>2, <2>3, <2>4, WorkingIsStarted, UntouchedFades, JumpKeepsBooks DEF Label
<1>3. QED
  BY <1>1, <1>2 DEF FailureSteps

\* The version that a task stages is none of those that others know.
LEMMA StageBooks == ASSUME Inv, NEW t \in Task, Stage(t) PROVE Books'
<1>1. pc[t] = "stage" /\ ver[t] = "none" /\ t \in Version
  BY DEF Stage, Inv, Books, Fresh, Version
<1>2. UNCHANGED <<owner, task, todo, vec, cleanup, forgotten>>
  BY DEF Stage, file, cleaner, history
<1>3. CASE status = "deleted"
  <2>1. Untouched /\ UNCHANGED old /\ Goto(t, "fail")
    BY <1>2, <1>3 DEF Stage, Untouched
  <2>2. QED
    BY <1>1, <1>2, <2>1, WorkingIsStarted, UntouchedFades, JumpKeepsBooks DEF Label
<1>4. CASE status # "deleted"
  <2>1. /\ \A u \in Task : pc'[u] = IF u = t THEN "insert" ELSE pc[u]
        /\ \A u \in Task : old'[u] = IF u = t THEN ActiveOrNone ELSE old[u]
        /\ \A v \in Version : ver'[v] = IF v = t THEN "staging" ELSE ver[v]
    BY <1>4 DEF Stage, Goto, Inv, TypeOK
  <2>2. /\ \A v \in Version : ver[v] = "active" => ActiveOrNone = v
        /\ ActiveOrNone # None => ActiveOrNone \in Version /\ ver[ActiveOrNone] = "active"
    BY DEF ActiveOrNone, Inv, Books, OneActive
  <2>3. Fresh'
    BY <1>1, <1>2, <2>1 DEF Inv, Books, Fresh, Version
  <2>4. OneActive' /\ Cleans'
    BY <1>1, <1>2, <2>1 DEF Inv, Books, OneActive, Cleans
  <2>5. \A u \in Task : old[u] # None => old[u] \in Version
    BY DEF Inv, TypeOK
  <2>6. StagedOver'
    BY <1>1, <1>2, <2>1, <2>2, <2>5 DEF Inv, Books, StagedOver
  <2>7. Settles'
    BY <1>1, <1>2, <2>1, <2>5 DEF Inv, Books, Settles
  <2>8. SupersededIsTracked'
    BY <1>1, <1>2, <2>1 DEF Inv, Books, SupersededIsTracked
  <2>9. QED
    BY <2>3, <2>4, <2>6, <2>7, <2>8 DEF Books
<1>5. QED
  BY <1>3, <1>4

\* The activation supersedes exactly the version that the task read before it staged
\* its own.
LEMMA ActivateBooks == ASSUME Inv, NEW t \in Task, Activate(t) PROVE Books'
<1>1. pc[t] = "activate" /\ t \in Version
  BY DEF Activate, Version
<1>2. UNCHANGED <<task, todo, old, vec, cleanup, forgotten>>
  BY DEF Activate, cleaner, history
<1>3. CASE ~(Fence(t, "indexing") /\ ver[t] = "staging")
  <2>1. Untouched /\ UNCHANGED owner /\ Goto(t, "rollVec")
    BY <1>2, <1>3 DEF Activate, Untouched
  <2>2. QED
    BY <1>1, <1>2, <2>1, WorkingIsStarted, UntouchedFades, JumpKeepsBooks DEF Label
<1>4. CASE Fence(t, "indexing") /\ ver[t] = "staging"
  <2>1. /\ \A u \in Task : pc'[u] = IF u # t THEN pc[u]
                                    ELSE IF old[t] = None THEN "leave" ELSE "cleanVec"
        /\ \A v \in Version : ver'[v] = IF v = t THEN "active"
                                        ELSE IF ver[v] = "active" THEN "superseded" ELSE ver[v]
        /\ owner' = None
    BY <1>4 DEF Activate, Release, Goto, Inv, TypeOK
  <2>2. /\ \A v \in Version : ver[v] = "active" => old[t] = v
        /\ old[t] # None => ver[old[t]] \in {"active", "gone"}
    BY <1>1, <1>4 DEF Fence, Inv, Books, StagedOver
  <2>3. \A u \in Task : old[u] # None => old[u] \in Version
    BY DEF Inv, TypeOK
  <2>4. Fresh'
    BY <1>1, <1>2, <1>4, <2>1 DEF Inv, Books, Fresh, Version
  <2>5. OneActive' /\ Cleans'
    BY <1>1, <1>2, <1>4, <2>1 DEF Inv, Books, OneActive, Cleans
  <2>6. StagedOver'
    BY <2>1, OlderIsNoTask DEF StagedOver
  <2>7. Settles'
    <3>1. ASSUME NEW u \in Task \ {t}, old[u] # None, ver[old[u]] \in {"superseded", "gone"}
          PROVE  ver'[old[u]] = ver[old[u]]
      BY <1>4, <2>1, <2>3, <3>1
    <3>2. old[t] # None => ver'[old[t]] \in {"superseded", "gone"}
      BY <1>4, <2>1, <2>2, <2>3
    <3>3. QED
      BY <1>2, <2>1, <3>1, <3>2 DEF Inv, Books, Settles
  <2>8. SupersededIsTracked'
    <3>1. ASSUME NEW v \in Version, ver'[v] = "superseded", ver[v] = "active"
          PROVE  old[t] = v /\ pc'[t] = "cleanVec"
      BY <1>4, <2>1, <2>2, <3>1, OlderIsNoTask DEF Version
    <3>2. QED
      BY <1>1, <1>2, <2>1, <3>1 DEF Inv, Books, SupersededIsTracked
  <2>9. QED
    BY <2>4, <2>5, <2>6, <2>7, <2>8 DEF Books
<1>5. QED
  BY <1>3, <1>4

\* A handler that has published its version cleans up the superseded one, or has
\* it cleaned up.
LEMMA SettleBooks ==
    ASSUME Inv, NEW t \in Task, CleanVectors(t) \/ CleanRow(t) \/ EnqueueCleanup(t) \/ Leave(t)
    PROVE  Books'
<1> DEFINE v == old[t]
<1>1. Task \subseteq Version /\ \A u \in Task : old[u] # None => old[u] \in Version
  BY DEF Version, Inv, TypeOK
<1>2. pc[t] \in Settling /\ UNCHANGED <<owner, task>>
  BY DEF CleanVectors, CleanRow, EnqueueCleanup, Leave, file
<1>3. CASE CleanVectors(t)
  <2>1. v \in Version /\ v # None /\ ver[v] \in {"superseded", "gone"}
    BY <1>1, <1>3 DEF CleanVectors, Inv, Books, Settles
  <2>2. /\ UNCHANGED <<ver, todo, old, cleanup, forgotten>>
        /\ \A w \in Version : vec'[w] = vec[w] \/ (w = v /\ vec'[w] = "none")
        /\ \A u \in Task \ {t} : pc'[u] = pc[u]
        /\ \/ pc'[t] = "leave" /\ ver[v] = "gone"
           \/ pc'[t] = "enqueue"
           \/ pc'[t] = "cleanRow" /\ vec'[v] = "none"
    BY <1>3, <2>1 DEF CleanVectors, CleanupFailed, Goto, cleaner, history, Inv, TypeOK
  <2>3. Fresh' /\ OneActive' /\ StagedOver'
    BY <1>2, <2>2 DEF Inv, Books, Fresh, OneActive, StagedOver
  <2>4. Settles'
    BY <1>1, <2>1, <2>2 DEF Inv, Books, Settles
  <2>5. Cleans'
    BY <2>2 DEF Inv, Books, Cleans
  <2>6. SupersededIsTracked'
    BY <2>2 DEF Inv, Books, SupersededIsTracked
  <2>7. QED
    BY <2>3, <2>4, <2>5, <2>6 DEF Books
<1>4. CASE CleanRow(t)
  <2>1. v \in Version /\ v # None /\ ver[v] \in {"superseded", "gone"}
    BY <1>1, <1>4 DEF CleanRow, Inv, Books, Settles
  <2>2. /\ UNCHANGED <<vec, todo, old, cleanup, forgotten>>
        /\ \A w \in Version : ver'[w] = ver[w] \/ (w = v /\ ver'[w] = "gone")
        /\ \A u \in Task \ {t} : pc'[u] = pc[u]
        /\ pc'[t] = "enqueue" \/ (pc'[t] = "leave" /\ ver'[v] = "gone")
    BY <1>4, <2>1 DEF CleanRow, CleanupFailed, Goto, cleaner, history, Inv, TypeOK
  <2>3. Fresh' /\ OneActive' /\ StagedOver'
    BY <1>1, <1>2, <2>1, <2>2 DEF Inv, Books, Fresh, OneActive, StagedOver
  <2>4. Settles'
    BY <1>1, <2>1, <2>2 DEF Inv, Books, Settles
  <2>5. Cleans'
    BY <2>1, <2>2 DEF Inv, Books, Cleans
  <2>6. SupersededIsTracked'
    BY <2>1, <2>2 DEF Inv, Books, SupersededIsTracked
  <2>7. QED
    BY <2>3, <2>4, <2>5, <2>6 DEF Books
<1>5. CASE EnqueueCleanup(t)
  <2>1. v \in Version /\ v # None /\ ver[v] \in {"superseded", "gone"}
    BY <1>1, <1>5 DEF EnqueueCleanup, Inv, Books, Settles
  <2>2. /\ UNCHANGED <<ver, vec, todo, old>>
        /\ \A w \in Version : cleanup'[w] = cleanup[w] \/ (w = v /\ cleanup'[w] = "queued")
        /\ cleanup'[v] # "none" \/ v \in forgotten'
        /\ forgotten \subseteq forgotten'
        /\ \A u \in Task : pc'[u] = IF u = t THEN "leave" ELSE pc[u]
    BY <1>5, <2>1 DEF EnqueueCleanup, Goto, index, Inv, TypeOK
  <2>3. \A w \in Version : cleanup'[w] \in {"none", "queued", "swept", "failed", "done"}
    BY <2>2 DEF Inv, TypeOK
  <2>4. Fresh' /\ OneActive' /\ StagedOver'
    BY <1>2, <2>2 DEF Inv, Books, Fresh, OneActive, StagedOver
  <2>5. Cleans'
    BY <2>1, <2>2 DEF Inv, Books, Cleans
  <2>6. Settles'
    <3>1. \/ ver[v] = "gone"
          \/ /\ ver[v] = "superseded"
             /\ cleanup'[v] \in {"queued", "swept", "failed"} \/ v \in forgotten'
      BY <2>1, <2>2, <2>3, <2>5 DEF Cleans
    <3>2. QED
      BY <1>1, <2>1, <2>2, <3>1 DEF Inv, Books, Settles
  <2>7. SupersededIsTracked'
    BY <1>1, <2>1, <2>2 DEF Inv, Books, SupersededIsTracked
  <2>8. QED
    BY <2>4, <2>5, <2>6, <2>7 DEF Books
<1>6. CASE Leave(t)
  <2>1. /\ UNCHANGED <<ver, vec, cleanup, forgotten>>
        /\ \A u \in Task \ {t} : pc'[u] = pc[u] /\ old'[u] = old[u] /\ todo'[u] = todo[u]
        /\ pc'[t] \in {"next", "stop"} /\ old'[t] = None /\ todo'[t] = {}
        /\ pc[t] = "leave"
    BY <1>6 DEF Leave, LeaveFile, Goto, index, cleaner, history, Inv, TypeOK
  <2>2. Fresh' /\ OneActive' /\ StagedOver'
    BY <1>2, <2>1 DEF Inv, Books, Fresh, OneActive, StagedOver
  <2>3. Settles'
    <3>1. ASSUME NEW u \in Task, pc'[u] \in Settling PROVE pc'[u] = pc[u] /\ old'[u] = old[u]
      BY <2>1, <3>1
    <3>2. QED
      BY <2>1, <3>1 DEF Inv, Books, Settles
  <2>4. Cleans'
    BY <2>1 DEF Inv, Books, Cleans
  <2>5. SupersededIsTracked'
    <3>1. \A w \in Version : w # None
      BY OlderIsNoTask DEF Version
    <3>2. QED
      BY <2>1, <3>1 DEF Inv, Books, SupersededIsTracked, Settles
  <2>6. QED
    BY <2>2, <2>3, <2>4, <2>5 DEF Books
<1>7. QED
  BY <1>3, <1>4, <1>5, <1>6

\* The path with versions keeps the books.
LEMMA VersionBooks == ASSUME Inv, NEW t \in Task, VersionSteps(t) PROVE Books'
<1>1. CASE Insert(t) \/ ReadBack(t)
  <2>1. /\ UNCHANGED <<owner, task, todo, old, cleanup, forgotten>> /\ pc[t] \in Staged
        /\ \E label \in Staged \cup Undoing : Goto(t, label)
    BY <1>1 DEF Insert, ReadBack, file, cleaner, history
  <2>2. Fades
    BY <1>1 DEF Insert, ReadBack, index, Fades, Inv, TypeOK
  <2>3. QED
    BY <2>1, <2>2, WorkingIsStarted, JumpKeepsBooks DEF Label
<1>2. QED
  BY <1>1, StageBooks, ActivateBooks, SettleBooks DEF VersionSteps

\* The durable cleanup keeps the books.
LEMMA CleanupBooks == ASSUME Inv, NEW v \in Version, Cleanup(v) PROVE Books'
<1>1. UNCHANGED <<owner, task, pc, todo, old, forgotten>>
  BY DEF Cleanup, SweepVectors, SweepRow, LoseCleanup, file, handler, history
<1>2. \A u \in Task : old[u] # None => old[u] \in Version
  BY DEF Inv, TypeOK
<1>3. /\ cleanup[v] \in {"queued", "swept"}
      /\ \A w \in Version \ {v} : ver'[w] = ver[w] /\ vec'[w] = vec[w] /\ cleanup'[w] = cleanup[w]
      /\ ver'[v] = ver[v] \/ ver'[v] = "gone"
      /\ vec'[v] = vec[v] \/ vec'[v] = "none"
      /\ \/ cleanup'[v] = "done" /\ ver'[v] = "gone"
         \/ cleanup'[v] = "swept" /\ vec'[v] = "none"
         \/ cleanup'[v] \in {"queued", "failed"}
  BY DEF Cleanup, SweepVectors, SweepRow, LoseCleanup, RetryCleanup, index, Inv, TypeOK
<1>4. ver[v] \in {"superseded", "gone"}
  BY <1>3 DEF Inv, Books, Cleans
<1>5. Fresh' /\ OneActive' /\ StagedOver'
  BY <1>1, <1>2, <1>3, <1>4 DEF Inv, Books, Fresh, OneActive, StagedOver, Version
<1>6. Cleans'
  BY <1>3, <1>4 DEF Inv, Books, Cleans
<1>7. Settles'
  BY <1>1, <1>2, <1>3, <1>4 DEF Inv, Books, Settles
<1>8. SupersededIsTracked'
  BY <1>1, <1>3, <1>4 DEF Inv, Books, SupersededIsTracked
<1>9. QED
  BY <1>5, <1>6, <1>7, <1>8 DEF Books

\* Every step keeps the books.
LEMMA BooksStep == Inv /\ [Next]_vars => Books'
<1> SUFFICES ASSUME Inv, [Next]_vars PROVE Books'
  OBVIOUS
<1>1. ASSUME NEW t \in Task, Handler(t) PROVE Books'
  BY <1>1, FrameBooks, ClaimBooks, SingleBooks, VersionBooks, FailureBooks DEF Handler
<1>2. CASE DeleteStep
  <2>1. Fades
    BY <1>2 DEF DeleteStep, DeleteChunks, DeleteVectors, DeleteRows, Fades, Inv, TypeOK
  <2>2. UNCHANGED <<cleanup, forgotten, pc, todo, old, task>> /\ (UNCHANGED owner \/ owner' = None)
    BY <1>2 DEF DeleteStep, Release, file, handler, cleaner, history
  <2>3. QED
    BY <2>1, <2>2, FadingKeepsBooks
<1>3. CASE DeleteStops \/ UNCHANGED vars
  <2>1. Untouched /\ UNCHANGED <<pc, todo, old, task, owner>>
    BY <1>3 DEF DeleteStops, vars, file, index, handler, cleaner, history, Untouched
  <2>2. QED
    BY <2>1, UntouchedFades, FadingKeepsBooks
<1>4. QED
  BY <1>1, <1>2, <1>3, FrameBooks, CleanupBooks DEF Next

\* The initial file satisfies Inv.
LEMMA InitInv == Init => Inv
<1> SUFFICES ASSUME Init PROVE Inv
  OBVIOUS
<1>1. TypeOK /\ IntermediateIsHandled /\ SettlingReleased
  BY InitType, OlderIsNoTask DEF Init, IntermediateIsHandled, SettlingReleased
<1>2. Fresh /\ OneActive
  BY OlderIsNoTask DEF Init, Fresh, OneActive, Version
<1>3. StagedOver /\ Settles /\ Cleans /\ SupersededIsTracked
  BY DEF Init, StagedOver, Settles, Cleans, SupersededIsTracked
<1>4. QED
  BY <1>1, <1>2, <1>3 DEF Inv, Books

\* Every step keeps Inv.
LEMMA InvStep == Inv /\ [Next]_vars => Inv'
BY TypeStep, HandledStep, BooksStep DEF Inv

\* A superseded version whose cleanup could be handed on is not forgotten: the handler
\* that published its successor is still at it or died there, or a durable task cleans it
\* up or failed to.
THEOREM SupersededIsTrackedCorrect == Spec => []SupersededIsTracked
BY InitInv, InvStep, PTL DEF Spec, Inv, Books

-----------------------------------------------------------------------------
(* The row of a superseded version.                                        *)

\* What a step may do to the versions and to the document, seen from outside.
LEMMA RowStep ==
    ASSUME Inv, [Next]_vars, NEW v \in Version, ver[v] = "superseded", ver'[v] = "gone"
    PROVE  vec[v] = "none" \/ status' = "deleted"
<1>1. CASE ver' = ver
  BY <1>1
<1>2. ASSUME NEW t \in Task, Handler(t) PROVE vec[v] = "none"
  <2>1. CASE Stage(t) \/ Activate(t) \/ ClearStep(t) \/ RollBackRow(t)
    BY <2>1 DEF Stage, Activate, ClearStep, DeleteChunks, DeleteVectors, DeleteRows, RollBackRow,
                Inv, TypeOK
  <2>2. CASE CleanRow(t)
    <3>1. pc[t] = "cleanRow" /\ v = old[t]
      BY <2>2 DEF CleanRow, Inv, TypeOK
    <3>2. QED
      BY <3>1 DEF Inv, Books, Settles
  <2>3. CASE \/ Claims(t) \/ Parse(t) \/ ResetUploaded(t) \/ AssertOwner(t) \/ Store(t)
             \/ FinishSingle(t) \/ Insert(t) \/ ReadBack(t) \/ CleanVectors(t)
             \/ EnqueueCleanup(t) \/ Leave(t) \/ Fail(t) \/ RollBackVectors(t) \/ FailFile(t)
             \/ Interrupt(t) \/ EndTask(t) \/ EndCancelled(t)
    BY <1>1, <2>3
       DEF Claims, ClaimParse, ClaimIndex, Parse, ResetUploaded, AssertOwner, Store, FinishSingle,
           Insert, ReadBack, CleanVectors, EnqueueCleanup, Leave, Fail, RollBackVectors, FailFile,
           Interrupt, EndTask, EndCancelled, index
  <2>4. QED
    BY <1>2, <2>1, <2>2, <2>3 DEF Handler, SingleSteps, VersionSteps, FailureSteps
<1>3. ASSUME NEW w \in Version, Cleanup(w) PROVE vec[v] = "none"
  <2>1. cleanup[w] = "swept" /\ v = w
    BY <1>3 DEF Cleanup, SweepVectors, SweepRow, LoseCleanup, index, Inv, TypeOK
  <2>2. QED
    BY <2>1 DEF Inv, Books, Cleans
<1>4. CASE DeleteStep
  BY <1>4 DEF DeleteStep, DeleteChunks, DeleteVectors, DeleteRows, Release
<1>5. ASSUME NEW t \in Task,
             \/ \E work \in SUBSET {"parse", "index"} : Start(t, work)
             \/ Expire(t) \/ ReconcileLease(t) \/ Crash(t)
      PROVE  vec[v] = "none"
  BY <1>1, <1>5 DEF Start, Expire, ReconcileLease, Crash, index
<1>6. CASE DeleteStops \/ UNCHANGED vars
  BY <1>1, <1>6 DEF DeleteStops, vars, index
<1>7. QED
  BY <1>2, <1>3, <1>4, <1>5, <1>6 DEF Next

\* The row of a superseded version is deleted only after its vectors, so that a failed
\* cleanup can be repeated.
THEOREM RowOutlivesVectorsCorrect == Spec => RowOutlivesVectors
<1>1. Inv /\ [Next]_vars =>
        [\A v \in Version : ver[v] = "superseded" /\ ver'[v] = "gone" =>
          vec[v] = "none" \/ status' = "deleted"]_vars
  BY RowStep
<1>2. QED
  BY <1>1, InitInv, InvStep, PTL DEF Spec, RowOutlivesVectors

-----------------------------------------------------------------------------
(* What the advisory lock adds.  A task that has lost its lease may still  *)
(* be at the file: only the lock keeps the next one from publishing what   *)
(* the first is about to delete.                                           *)

\* The document has no published version.
NoneActive == \A v \in Version : ver[v] # "active"

\* What is true wherever a handler is at the file (auxiliary).
AtWork(t) ==
    /\ pc[t] \in Working => lock = t
    /\ pc[t] \in Building \cup Staged \cup Undoing => status # "indexed"
    /\ deletion = "no" =>
        /\ pc[t] = "finish" => chunks = "all"
        /\ pc[t] = "activate" /\ ver[t] = "staging" => vec[t] = "all"
    /\ pc[t] \in Clearing => path = "single_chunk" \/ NoneActive
    /\ pc[t] \in {"ownLast", "store", "finish"} => NoneActive
    /\ pc[t] \in {"stage"} \cup Staged => path = "parent_child"
    /\ pc[t] \in Staged \cup {"rollVec", "rollRow"} => ver[t] \in {"staging", "gone"}

\* A file indexed along the single_chunk path has no published version (auxiliary).
OnePath == status = "indexed" /\ path = "single_chunk" => NoneActive

\* What holds because the advisory lock lets one task work on the file.
Orderly == (\A t \in Task : AtWork(t)) /\ OnePath /\ IndexedIsSearchable

-----------------------------------------------------------------------------
(* Steps beside the work on the document.                                  *)

\* A handler stays where it is, leaves the file, or gives up what it began.
GivesUp(t) ==
    \/ pc'[t] = pc[t]
    \/ pc'[t] \notin Working
    \/ pc[t] \in Working /\ pc'[t] \in Settling
    \/ pc[t] \in Working \ Settling /\ pc'[t] = "fail"

\* Steps that neither touch the document nor publish it.
LEMMA BesideKeepsOrder ==
    ASSUME Orderly, UNCHANGED <<path, index, deletion>>,
           status' = status \/ status' # "indexed",
           \A t \in Task : GivesUp(t),
           \A t \in Task : pc'[t] \in Working => lock' = lock
    PROVE  Orderly'
<1>1. NoneActive' = NoneActive
  BY DEF NoneActive, index
<1>2. ASSUME NEW t \in Task PROVE AtWork(t)'
  <2>1. AtWork(t) /\ GivesUp(t)
    BY DEF Orderly
  <2>2. CASE pc'[t] = pc[t]
    BY <1>1, <2>1, <2>2 DEF AtWork, index
  <2>3. CASE pc'[t] # pc[t]
    BY <1>1, <2>1, <2>3 DEF AtWork, GivesUp, index
  <2>4. QED
    BY <2>2, <2>3
<1>3. OnePath' /\ IndexedIsSearchable'
  BY <1>1 DEF Orderly, OnePath, IndexedIsSearchable, index
<1>4. QED
  BY <1>2, <1>3 DEF Orderly

\* A step of the only task at the file, or of the first one.
LEMMA OnlyOneWorks ==
    ASSUME Inv, Orderly, NEW t \in Task, NEW label \in Label, Goto(t, label),
           pc[t] \in Working \/ lock = None, AtWork(t)'
    PROVE  \A u \in Task : AtWork(u)'
<1>1. \A u \in Task : lock = u => u # None
  BY OlderIsNoTask
<1>2. ASSUME NEW u \in Task \ {t} PROVE pc'[u] \notin Working
  <2>1. pc'[u] = pc[u]
    BY DEF Goto, Inv, TypeOK
  <2>2. pc[t] \in Working => lock = t
    BY DEF Orderly, AtWork
  <2>3. pc[u] \in Working => lock = u
    BY DEF Orderly, AtWork
  <2>4. QED
    BY <1>1, <2>1, <2>2, <2>3
<1>3. \A u \in Task \ {t} : AtWork(u)'
  BY <1>2 DEF AtWork
<1>4. QED
  BY <1>3

\* The handler of t moves; when it gives the lock back, nobody else had it.
LEMMA BesideMove ==
    ASSUME Inv, Orderly, UNCHANGED <<path, index, deletion>>,
           status' = status \/ status' # "indexed",
           NEW t \in Task, GivesUp(t),
           \A u \in Task \ {t} : pc'[u] = pc[u],
           \/ lock' = lock
           \/ pc'[t] \notin Working /\ lock' = IF lock = t THEN None ELSE lock
    PROVE  Orderly'
<1>1. \A u \in Task : GivesUp(u)
  BY DEF GivesUp
<1>2. \A u \in Task \ {t} : pc[u] \in Working => lock = u
  BY DEF Orderly, AtWork
<1>3. \A u \in Task : pc'[u] \in Working => lock' = lock
  BY <1>2
<1>4. QED
  BY <1>1, <1>3, BesideKeepsOrder

\* The failure hook never shows a file as indexed.
LEMMA HookHidesNothing == ASSUME NEW t, FailProcessing(t) PROVE status' = status \/ status' # "indexed"
BY DEF FailProcessing

\* The steps around a handler keep the order.
LEMMA FrameOrder ==
    ASSUME Inv, Orderly, NEW t \in Task,
           \/ \E work \in SUBSET {"parse", "index"} : Start(t, work)
           \/ EndTask(t) \/ Interrupt(t) \/ EndCancelled(t)
           \/ Expire(t) \/ ReconcileLease(t) \/ Crash(t)
    PROVE  Orderly'
<1>1. UNCHANGED <<path, index, deletion>>
  BY DEF Start, EndTask, Interrupt, EndCancelled, Expire, ReconcileLease, Crash, file
<1>2. status' = status \/ status' # "indexed"
  BY HookHidesNothing
     DEF Start, EndTask, Interrupt, EndCancelled, Expire, ReconcileLease, Crash, file
<1>3. pc' = pc \/ \E label \in {"next", "off", "stop", "dead"} : Goto(t, label)
  BY DEF Start, EndTask, Interrupt, EndCancelled, Expire, ReconcileLease, Crash, handler
<1>4. GivesUp(t) /\ \A u \in Task \ {t} : pc'[u] = pc[u]
  BY <1>3 DEF GivesUp, Goto, Inv, TypeOK
<1>5. \/ lock' = lock
      \/ pc'[t] \notin Working /\ lock' = IF lock = t THEN None ELSE lock
  BY DEF Start, EndTask, Interrupt, EndCancelled, Expire, ReconcileLease, Crash, handler, Goto,
         Inv, TypeOK
<1>6. QED
  BY <1>1, <1>2, <1>4, <1>5, BesideMove

\* The steps of a handler that leave the document alone, except its claims.
LEMMA MoveOrder ==
    ASSUME Inv, Orderly, NEW t \in Task,
           \/ Parse(t) \/ ResetUploaded(t) \/ FailFile(t) \/ EnqueueCleanup(t) \/ Leave(t)
    PROVE  Orderly'
<1>1. UNCHANGED <<path, index, deletion>>
  BY DEF Parse, ResetUploaded, FailFile, SettleRaises, EnqueueCleanup, Leave, file
<1>2. status' = status \/ status' # "indexed"
  BY HookHidesNothing
     DEF Parse, ResetUploaded, FailFile, SettleRaises, EnqueueCleanup, Leave, Release, file
<1>3. \/ Parse(t) /\ lock' = lock /\ Goto(t, "fail") /\ pc[t] = "parse"
      \/ EnqueueCleanup(t) /\ lock' = lock /\ Goto(t, "leave") /\ pc[t] = "enqueue"
      \/ \E label \in {"next", "stop"} :
             Goto(t, label) /\ lock' = IF lock = t THEN None ELSE lock
  BY DEF Parse, ResetUploaded, FailFile, SettleRaises, EnqueueCleanup, Leave, LeaveFile
<1>4. GivesUp(t) /\ \A u \in Task \ {t} : pc'[u] = pc[u]
  BY <1>3 DEF GivesUp, Goto, Inv, TypeOK
<1>5. \/ lock' = lock
      \/ pc'[t] \notin Working /\ lock' = IF lock = t THEN None ELSE lock
  BY <1>3 DEF Goto, Inv, TypeOK
<1>6. QED
  BY <1>1, <1>2, <1>4, <1>5, BesideMove

-----------------------------------------------------------------------------
(* The claims.                                                             *)

\* A task that skips its file keeps the order.
LEMMA SkipOrder ==
    ASSUME Inv, Orderly, NEW t \in Task, Skip(t), UNCHANGED <<index, deletion>>
    PROVE  Orderly'
<1>1. UNCHANGED <<status, path, pc, lock>>
  BY DEF Skip, file
<1>2. QED
  BY <1>1, BesideMove DEF GivesUp

\* A claim keeps the order.
LEMMA ClaimOrder ==
    ASSUME Inv, Orderly, NEW t \in Task, Claims(t)
    PROVE  Orderly'
<1>1. UNCHANGED <<index, deletion>>
  BY DEF Claims, ClaimParse, ClaimIndex
<1>2. NoneActive' = NoneActive
  BY <1>1 DEF NoneActive, index
<1>3. ASSUME NEW label \in Building, Goto(t, label), lock = None, lock' = t,
             status' \in {"parsing", "indexing"}, label \in {"parse", "reset", "ownChunks", "stage"},
             label = "ownChunks" => path' = "single_chunk" \/ NoneActive,
             label = "stage" => path' = "parent_child"
      PROVE  Orderly'
  <2>1. pc'[t] = label
    BY <1>3 DEF Goto, Inv, TypeOK
  <2>2. AtWork(t)'
    BY <1>2, <1>3, <2>1 DEF AtWork
  <2>3. QED
    BY <1>3, <2>2, OnlyOneWorks DEF Label, Orderly, OnePath, IndexedIsSearchable
<1>4. CASE ClaimParse(t)
  <2>1. \/ Skip(t)
        \/ status' = "parsing" /\ lock = None /\ lock' = t /\ Goto(t, "parse")
    BY <1>4 DEF ClaimParse, MayLock
  <2>2. QED
    BY <1>1, <1>3, <2>1, SkipOrder
<1>5. ASSUME NEW p \in {"single_chunk", "parent_child"}, ClaimIndex(t, p) PROVE Orderly'
  <2> DEFINE label == FirstStep(p, path # "parent_child" /\ status = "indexed")
  <2>1. CASE Skip(t)
    BY <1>1, <2>1, SkipOrder
  <2>2. CASE ~Skip(t)
    <3>1. /\ status' = "indexing" /\ lock = None /\ lock' = t
          /\ path' = p /\ Goto(t, label)
      BY <1>5, <2>2 DEF ClaimIndex, MayLock
    <3>2. path # "parent_child" => path = "single_chunk"
      BY DEF Inv, TypeOK
    <3>3. /\ label \in {"reset", "ownChunks", "stage"}
          /\ label = "ownChunks" => p = "single_chunk" \/ NoneActive
          /\ label = "stage" => p = "parent_child"
      BY <1>5, <3>2 DEF FirstStep, Orderly, OnePath
    <3>4. QED
      BY <1>3, <3>1, <3>3
  <2>3. QED
    BY <2>1, <2>2
<1>6. QED
  BY <1>4, <1>5 DEF Claims

-----------------------------------------------------------------------------
(* The work on the document.                                               *)

\* A step inside the file, which is not shown as indexed.
LEMMA InsideOrder ==
    ASSUME Inv, Orderly, NEW t \in Task, pc[t] \in Building \cup Staged \cup Undoing,
           NEW label \in Label, Goto(t, label), UNCHANGED status,
           pc'[t] = label => AtWork(t)'
    PROVE  Orderly'
<1>1. status # "indexed"
  BY DEF Orderly, AtWork
<1>2. pc'[t] = label
  BY DEF Goto, Inv, TypeOK
<1>3. \A u \in Task : AtWork(u)'
  BY <1>2, OnlyOneWorks
<1>4. QED
  BY <1>1, <1>3 DEF Orderly, OnePath, IndexedIsSearchable

\* The path without versions keeps the order.
LEMMA SingleOrder ==
    ASSUME Inv, Orderly, NEW t \in Task, SingleSteps(t)
    PROVE  Orderly'
<1>0. AtWork(t)
  BY DEF Orderly
<1>1. CASE AssertOwner(t)
  <2> DEFINE label == IF ~Fence(t, "indexing") THEN "fail"
                      ELSE IF pc[t] # "ownLast" THEN Clear[pc[t]]
                      ELSE IF path = "single_chunk" THEN "store" ELSE "stage"
  <2>1. pc[t] \in {"ownChunks", "ownVectors", "ownRows", "ownLast"}
    BY <1>1 DEF AssertOwner, Clear
  <2>2. /\ label \in {"fail", "delChunks", "delVectors", "delRows", "store", "stage"}
        /\ label = "store" => pc[t] = "ownLast"
        /\ label = "stage" => pc[t] = "ownLast" /\ path # "single_chunk"
    BY <2>1 DEF Clear
  <2>3. Goto(t, label) /\ UNCHANGED <<status, path, ver, vec, chunks, lock, deletion>>
    BY <1>1 DEF AssertOwner, file, index
  <2>4. path \in {"single_chunk", "parent_child"}
    BY DEF Inv, TypeOK
  <2>5. pc'[t] = label => AtWork(t)'
    BY <1>0, <2>1, <2>2, <2>3, <2>4 DEF AtWork, NoneActive
  <2>6. label \in Label
    BY <2>2 DEF Label
  <2> HIDE DEF label
  <2>7. QED
    BY <2>1, <2>3, <2>5, <2>6, InsideOrder
<1>2. CASE ClearStep(t)
  <2>1. UNCHANGED <<status, path, lock, deletion>>
    BY <1>2 DEF ClearStep, file
  <2>2. ASSUME NEW label \in {"ownVectors", "ownRows", "ownLast"}, Goto(t, label),
               NoneActive \/ label = "ownLast" => NoneActive'
        PROVE  Orderly'
    <3>1. pc[t] \in Clearing
      BY <1>2 DEF ClearStep
    <3>2. pc'[t] = label => AtWork(t)'
      BY <1>0, <2>1, <2>2, <3>1 DEF AtWork
    <3>3. QED
      BY <2>1, <2>2, <3>1, <3>2, InsideOrder DEF Label
  <2>3. NoneActive => NoneActive'
    BY <1>2 DEF ClearStep, DeleteChunks, DeleteVectors, DeleteRows, NoneActive
  <2>4. DeleteRows => NoneActive'
    BY DEF DeleteRows, NoneActive
  <2>5. QED
    BY <1>2, <2>2, <2>3, <2>4 DEF ClearStep
<1>3. CASE Store(t)
  <2>1. /\ pc[t] = "store" /\ UNCHANGED <<status, path, ver, lock, deletion>>
        /\ \/ Goto(t, "finish") /\ chunks' = "all"
           \/ Goto(t, "store")
    BY <1>3 DEF Store, file
  <2>2. NoneActive' = NoneActive
    BY <2>1 DEF NoneActive
  <2>3. QED
    BY <1>0, <2>1, <2>2, InsideOrder DEF AtWork, Label
<1>4. CASE FinishSingle(t)
  <2>1. /\ pc[t] = "finish" /\ UNCHANGED <<path, ver, vec, chunks, deletion>>
        /\ \/ UNCHANGED <<status, lock>> /\ Goto(t, "fail")
           \/ status' = "indexed" /\ Goto(t, "next")
    BY <1>4 DEF FinishSingle, Release, LeaveFile, index
  <2>2. NoneActive /\ NoneActive'
    BY <1>0, <2>1 DEF AtWork, NoneActive
  <2>3. CASE UNCHANGED <<status, lock>> /\ Goto(t, "fail")
    BY <1>0, <2>1, <2>3, InsideOrder DEF AtWork, Label
  <2>4. CASE status' = "indexed" /\ Goto(t, "next")
    <3>1. pc'[t] = "next"
      BY <2>4 DEF Goto, Inv, TypeOK
    <3>2. AtWork(t)'
      BY <3>1 DEF AtWork
    <3>3. \A u \in Task : AtWork(u)'
      BY <2>1, <2>4, <3>2, OnlyOneWorks DEF Label
    <3>4. OnePath' /\ IndexedIsSearchable'
      BY <1>0, <2>1, <2>2 DEF AtWork, OnePath, IndexedIsSearchable
    <3>5. QED
      BY <3>3, <3>4 DEF Orderly
  <2>5. QED
    BY <2>1, <2>3, <2>4
<1>5. QED
  BY <1>1, <1>2, <1>3, <1>4 DEF SingleSteps

\* Building and publishing a version keeps the order.
LEMMA StagedOrder ==
    ASSUME Inv, Orderly, NEW t \in Task, Stage(t) \/ Insert(t) \/ ReadBack(t)
    PROVE  Orderly'
<1>0. AtWork(t) /\ t \in Version
  BY DEF Orderly, Version
<1>1. CASE Stage(t)
  <2>1. /\ pc[t] = "stage" /\ UNCHANGED <<status, path, vec, chunks, lock, deletion>>
        /\ \/ Goto(t, "insert") /\ ver'[t] = "staging"
           \/ Goto(t, "fail")
    BY <1>0, <1>1 DEF Stage, file, Inv, TypeOK
  <2>2. QED
    BY <1>0, <2>1, InsideOrder DEF AtWork, Label
<1>2. CASE Insert(t)
  <2>1. /\ pc[t] = "insert" /\ UNCHANGED <<status, path, ver, chunks, lock, deletion>>
        /\ Goto(t, "readback") \/ Goto(t, "rollVec")
    BY <1>2 DEF Insert, file
  <2>2. QED
    BY <1>0, <2>1, InsideOrder DEF AtWork, Label
<1>3. CASE ReadBack(t)
  <2>1. /\ pc[t] = "readback" /\ UNCHANGED <<status, path, ver, vec, chunks, lock, deletion>>
        /\ (Goto(t, "activate") /\ vec[t] = "all") \/ Goto(t, "rollVec")
    BY <1>3 DEF ReadBack, file, index
  <2>2. QED
    BY <1>0, <2>1, InsideOrder DEF AtWork, Label
<1>4. QED
  BY <1>1, <1>2, <1>3

\* The version that an activation publishes is complete.
LEMMA ActivateOrder == ASSUME Inv, Orderly, NEW t \in Task, Activate(t) PROVE Orderly'
<1>1. AtWork(t) /\ t \in Version
  BY DEF Orderly, Version
<1>2. pc[t] = "activate" /\ UNCHANGED <<path, vec, chunks, lock, deletion>>
  BY DEF Activate
<1>3. CASE Fence(t, "indexing") /\ ver[t] = "staging"
  <2>1. /\ ver'[t] = "active" /\ status' = "indexed"
        /\ \E label \in {"leave", "cleanVec"} : Goto(t, label)
    BY <1>1, <1>3 DEF Activate, Release
  <2>2. pc'[t] \in Settling
    BY <2>1 DEF Goto, Inv, TypeOK
  <2>3. AtWork(t)'
    BY <1>1, <1>2, <2>2 DEF AtWork
  <2>4. \A u \in Task : AtWork(u)'
    BY <1>2, <2>1, <2>3, OnlyOneWorks DEF Label
  <2>5. OnePath' /\ IndexedIsSearchable'
    BY <1>1, <1>2, <1>3, <2>1 DEF AtWork, OnePath, IndexedIsSearchable
  <2>6. QED
    BY <2>4, <2>5 DEF Orderly
<1>4. CASE ~(Fence(t, "indexing") /\ ver[t] = "staging")
  <2>1. Goto(t, "rollVec") /\ UNCHANGED <<ver, status>>
    BY <1>4 DEF Activate
  <2>2. QED
    BY <1>1, <1>2, <2>1, InsideOrder DEF AtWork, Label
<1>5. QED
  BY <1>3, <1>4

\* Rolling a version back keeps the order.
LEMMA UndoOrder ==
    ASSUME Inv, Orderly, NEW t \in Task, Fail(t) \/ RollBackVectors(t) \/ RollBackRow(t)
    PROVE  Orderly'
<1>1. AtWork(t) /\ t \in Version
  BY DEF Orderly, Version
<1>2. UNCHANGED <<status, path, lock, deletion>>
  BY DEF Fail, RollBackVectors, RollBackRow, file
<1>3. CASE Fail(t)
  <2>1. /\ pc[t] \in Building \cup Staged /\ UNCHANGED ver
        /\ Goto(t, "fail") \/ (Goto(t, "rollVec") /\ pc[t] \in Staged)
    BY <1>3 DEF Fail
  <2>2. QED
    BY <1>1, <1>2, <2>1, InsideOrder DEF AtWork, Label
<1>4. CASE RollBackVectors(t)
  <2>1. pc[t] = "rollVec" /\ UNCHANGED ver /\ (Goto(t, "rollRow") \/ Goto(t, "fail"))
    BY <1>4 DEF RollBackVectors
  <2>2. QED
    BY <1>1, <1>2, <2>1, InsideOrder DEF AtWork, Label
<1>5. CASE RollBackRow(t)
  <2>1. pc[t] = "rollRow" /\ Goto(t, "fail")
    BY <1>5 DEF RollBackRow
  <2>2. QED
    BY <1>1, <1>2, <2>1, InsideOrder DEF AtWork, Label
<1>6. QED
  BY <1>3, <1>4, <1>5

-----------------------------------------------------------------------------
(* Cleanups and deletions.                                                 *)

\* A step that takes away only what was superseded, or belongs to a deletion.
LEMMA SweepKeepsOrder ==
    ASSUME Inv, Orderly, UNCHANGED <<path, chunks, deletion, status, lock>>,
           \A v \in Version : \/ ver[v] \in {"superseded", "gone"} /\ ver'[v] \in {ver[v], "gone"}
                              \/ ver'[v] = ver[v] /\ vec'[v] = vec[v],
           \A t \in Task : GivesUp(t)
               \/ (pc[t] \in Settling /\ pc'[t] \in Settling)
    PROVE  Orderly'
<1>1. NoneActive' = NoneActive /\ Task \subseteq Version
  BY DEF NoneActive, Version
<1>2. ASSUME NEW t \in Task PROVE AtWork(t)'
  <2>1. AtWork(t) /\ t \in Version
    BY <1>1 DEF Orderly
  <2>2. \/ ver[t] \in {"superseded", "gone"} /\ ver'[t] \in {ver[t], "gone"}
        \/ ver'[t] = ver[t] /\ vec'[t] = vec[t]
    BY <2>1
  <2>3. CASE pc'[t] = pc[t]
    BY <1>1, <2>1, <2>2, <2>3 DEF AtWork
  <2>4. CASE pc'[t] # pc[t]
    <3>1. \/ pc'[t] \notin Working
          \/ pc[t] \in Working /\ pc'[t] \in Settling
          \/ pc[t] \in Working \ Settling /\ pc'[t] = "fail"
      BY <2>4 DEF GivesUp
    <3>2. QED
      BY <2>1, <3>1 DEF AtWork
  <2>5. QED
    BY <2>3, <2>4
<1>3. OnePath' /\ IndexedIsSearchable'
  BY <1>1 DEF Orderly, OnePath, IndexedIsSearchable
<1>4. QED
  BY <1>2, <1>3 DEF Orderly

\* Clearing an older version keeps the order.
LEMMA CleanOrder ==
    ASSUME Inv, Orderly, NEW t \in Task, CleanVectors(t) \/ CleanRow(t)
    PROVE  Orderly'
<1>1. old[t] \in Version /\ ver[old[t]] \in {"superseded", "gone"} /\ pc[t] \in Settling
  BY DEF CleanVectors, CleanRow, Inv, TypeOK, Books, Settles
<1>2. UNCHANGED <<path, chunks, deletion, status, lock>>
  BY DEF CleanVectors, CleanRow, file
<1>3. \A v \in Version : \/ ver[v] \in {"superseded", "gone"} /\ ver'[v] \in {ver[v], "gone"}
                         \/ ver'[v] = ver[v] /\ vec'[v] = vec[v]
  BY <1>1 DEF CleanVectors, CleanRow, Inv, TypeOK
<1>4. \E label \in Settling : Goto(t, label)
  BY DEF CleanVectors, CleanRow, CleanupFailed
<1>5. \A u \in Task : GivesUp(u) \/ (pc[u] \in Settling /\ pc'[u] \in Settling)
  BY <1>1, <1>4 DEF GivesUp, Goto, Inv, TypeOK
<1>6. QED
  BY <1>2, <1>3, <1>5, SweepKeepsOrder

\* The durable cleanup keeps the order.
LEMMA CleanupOrder == ASSUME Inv, Orderly, NEW v \in Version, Cleanup(v) PROVE Orderly'
<1>1. ver[v] \in {"superseded", "gone"}
  BY DEF Cleanup, SweepVectors, SweepRow, LoseCleanup, Inv, Books, Cleans
<1>2. UNCHANGED <<path, chunks, deletion, status, lock, pc>>
  BY DEF Cleanup, SweepVectors, SweepRow, LoseCleanup, file, index, handler
<1>3. \A w \in Version : \/ ver[w] \in {"superseded", "gone"} /\ ver'[w] \in {ver[w], "gone"}
                         \/ ver'[w] = ver[w] /\ vec'[w] = vec[w]
  BY <1>1 DEF Cleanup, SweepVectors, SweepRow, LoseCleanup, index, Inv, TypeOK
<1>4. \A u \in Task : GivesUp(u)
  BY <1>2 DEF GivesUp
<1>5. QED
  BY <1>2, <1>3, <1>4, SweepKeepsOrder

\* Once a deletion has begun, less is promised.
LEMMA DeletionOrder == ASSUME Inv, Orderly, DeleteStep \/ DeleteStops PROVE Orderly'
<1>1. /\ deletion' # "no" /\ UNCHANGED <<path, pc, lock>>
      /\ status' = status \/ status' = "deleted"
  BY DEF DeleteStep, DeleteStops, Release, file, handler
<1>2. \A v \in Version : ver'[v] = ver[v] \/ ver'[v] = "gone"
  BY DEF DeleteStep, DeleteStops, DeleteChunks, DeleteVectors, DeleteRows, index, file
<1>3. NoneActive => NoneActive'
  BY <1>2 DEF NoneActive
<1>4. ASSUME NEW t \in Task PROVE AtWork(t)'
  <2>1. AtWork(t) /\ (ver'[t] = ver[t] \/ ver'[t] = "gone")
    BY <1>2 DEF Orderly, Version
  <2>2. QED
    BY <1>1, <1>3, <2>1 DEF AtWork
<1>5. OnePath' /\ IndexedIsSearchable'
  BY <1>1, <1>3 DEF Orderly, OnePath, IndexedIsSearchable
<1>6. QED
  BY <1>4, <1>5 DEF Orderly

-----------------------------------------------------------------------------
(* The two promises to a reader.                                           *)

\* The initial file is in order.
LEMMA InitOrder == Init => Orderly
<1> SUFFICES ASSUME Init PROVE Orderly
  OBVIOUS
<1>1. \A t \in Task : AtWork(t)
  BY DEF Init, AtWork
<1>2. OnePath
  <2>1. ASSUME status = "indexed", path = "single_chunk" PROVE ver[Older] = "none"
    BY <2>1 DEF Init
  <2>2. QED
    BY <2>1 DEF Init, OnePath, NoneActive, Version
<1>3. IndexedIsSearchable
  <2>1. Older \in Version
    BY DEF Version
  <2>2. QED
    BY <2>1 DEF Init, IndexedIsSearchable
<1>4. QED
  BY <1>1, <1>2, <1>3 DEF Orderly

\* Every step keeps the order.
LEMMA OrderStep == Inv /\ Orderly /\ [Next]_vars => Orderly'
<1> SUFFICES ASSUME Inv, Orderly, [Next]_vars PROVE Orderly'
  OBVIOUS
<1>1. ASSUME NEW t \in Task, Handler(t) PROVE Orderly'
  BY <1>1, FrameOrder, MoveOrder, ClaimOrder, SingleOrder, StagedOrder, ActivateOrder, CleanOrder,
     UndoOrder DEF Handler, VersionSteps, FailureSteps
<1>2. CASE UNCHANGED vars
  BY <1>2, BesideKeepsOrder DEF vars, file, handler, GivesUp
<1>3. QED
  BY <1>1, <1>2, FrameOrder, CleanupOrder, DeletionOrder DEF Next

\* A file that is shown as indexed can be found, whatever earlier tasks still do to it.
THEOREM IndexedIsSearchableCorrect == Spec => []IndexedIsSearchable
BY InitInv, InvStep, InitOrder, OrderStep, PTL DEF Spec, Orderly

\* Only the activation of another version takes a complete published version away.
LEMMA KeepStep ==
    ASSUME Inv, Orderly, [Next]_vars, NEW v \in Version, ver[v] = "active", vec[v] = "all"
    PROVE  \/ ver'[v] = "active" /\ vec'[v] = "all"
           \/ status' = "indexed" /\ \E w \in Version \ {v} : ver'[w] = "active"
           \/ path = "single_chunk"
           \/ deletion # "no"
<1> DEFINE Kept == ver'[v] = "active" /\ vec'[v] = "all"
<1>1. CASE UNCHANGED <<ver, vec>>
  BY <1>1
<1>2. ASSUME NEW t \in Task, Handler(t), path # "single_chunk"
      PROVE  Kept \/ (status' = "indexed" /\ \E w \in Version \ {v} : ver'[w] = "active")
  <2>1. AtWork(t) /\ t \in Version
    BY DEF Orderly, Version
  <2>2. CASE ClearStep(t)
    BY <1>2, <2>1, <2>2 DEF ClearStep, AtWork, NoneActive
  <2>3. CASE Stage(t)
    <3>1. v # t
      BY <2>3 DEF Stage, Inv, Books, Fresh
    <3>2. QED
      BY <2>3, <3>1 DEF Stage, Inv, TypeOK
  <2>4. CASE Insert(t) \/ RollBackVectors(t) \/ RollBackRow(t)
    <3>1. ver[t] \in {"staging", "gone"}
      BY <2>1, <2>4 DEF Insert, RollBackVectors, RollBackRow, AtWork
    <3>2. QED
      BY <2>4, <3>1 DEF Insert, RollBackVectors, RollBackRow, Inv, TypeOK
  <2>5. CASE Activate(t)
    BY <2>1, <2>5 DEF Activate, Release
  <2>6. CASE CleanVectors(t) \/ CleanRow(t)
    <3>1. ver[old[t]] \in {"superseded", "gone"}
      BY <2>6 DEF CleanVectors, CleanRow, Inv, Books, Settles
    <3>2. QED
      BY <2>6, <3>1 DEF CleanVectors, CleanRow, Inv, TypeOK
  <2>7. CASE \/ Claims(t) \/ Parse(t) \/ ResetUploaded(t) \/ AssertOwner(t) \/ Store(t)
             \/ FinishSingle(t) \/ ReadBack(t) \/ EnqueueCleanup(t) \/ Leave(t)
             \/ Fail(t) \/ FailFile(t) \/ Interrupt(t) \/ EndTask(t) \/ EndCancelled(t)
    BY <1>1, <2>7
       DEF Claims, ClaimParse, ClaimIndex, Parse, ResetUploaded, AssertOwner, Store, FinishSingle,
           ReadBack, EnqueueCleanup, Leave, Fail, FailFile, Interrupt, EndTask, EndCancelled, index
  <2>8. QED
    BY <1>2, <2>2, <2>3, <2>4, <2>5, <2>6, <2>7 DEF Handler, SingleSteps, VersionSteps, FailureSteps
<1>3. ASSUME NEW w \in Version, Cleanup(w) PROVE Kept
  <2>1. ver[w] \in {"superseded", "gone"}
    BY <1>3 DEF Cleanup, SweepVectors, SweepRow, LoseCleanup, Inv, Books, Cleans
  <2>2. QED
    BY <1>3, <2>1 DEF Cleanup, SweepVectors, SweepRow, LoseCleanup, index, Inv, TypeOK
<1>4. CASE DeleteStep \/ DeleteStops
  <2>1. deletion # "no" \/ UNCHANGED <<ver, vec>>
    BY <1>4 DEF DeleteStep, DeleteStops, DeleteChunks
  <2>2. QED
    BY <1>1, <2>1
<1>5. ASSUME NEW t \in Task,
             \/ \E work \in SUBSET {"parse", "index"} : Start(t, work)
             \/ Expire(t) \/ ReconcileLease(t) \/ Crash(t)
      PROVE  Kept
  BY <1>1, <1>5 DEF Start, Expire, ReconcileLease, Crash, index
<1>6. CASE UNCHANGED vars
  BY <1>1, <1>6 DEF vars, index
<1>7. path \in {"single_chunk", "parent_child"}
  BY DEF Inv, TypeOK
<1>8. QED
  BY <1>2, <1>3, <1>4, <1>5, <1>6 DEF Next

\* A reslice that fails, is cancelled, dies or lost its lease never takes away what is
\* published.
THEOREM PublishedIsKeptCorrect == Spec => PublishedIsKept
<1>1. Inv /\ Orderly /\ [Next]_vars =>
        [\A v \in Version : ver[v] = "active" /\ vec[v] = "all" =>
          \/ ver'[v] = "active" /\ vec'[v] = "all"
          \/ status' = "indexed" /\ \E w \in Version \ {v} : ver'[w] = "active"
          \/ path = "single_chunk"
          \/ deletion # "no"]_vars
  BY KeepStep
<1>2. QED
  BY <1>1, InitInv, InvStep, InitOrder, OrderStep, PTL DEF Spec, PublishedIsKept

-----------------------------------------------------------------------------
(* Who writes the row of the file.                                         *)

\* A live task takes a file that nobody owns, under the lock.
Taken(t) ==
    /\ Live(t) /\ lock' = t
    /\ owner = None /\ owner' = t
    /\ \/ status \in {"uploaded", "error_parsing"} /\ status' = "parsing"
       \/ status \in {"parsed", "error_indexing", "indexed"} /\ status' = "indexing"

\* The owner settles it while its lease and its lock last.
Settled(t) ==
    /\ Live(t) /\ lock = t
    /\ owner = t /\ owner' = None
    /\ \/ status = "parsing"  /\ status' = "parsed"
       \/ status = "indexing" /\ status' \in {"indexed", "uploaded"}

\* The owner fails; one that lost its lease fails with the end of its task.
Broken(t) ==
    /\ Live(t) \/ (task[t] = "expired" /\ task'[t] = "ended")
    /\ owner = t /\ owner' = None
    /\ \/ status = "parsing"  /\ status' = "error_parsing"
       \/ status = "indexing" /\ status' = "error_indexing"

\* The file is deleted.
Removed == status' = "deleted" /\ owner' = None

\* What one step may do to the row.
RowMove ==
    \/ UNCHANGED <<status, owner>>
    \/ Removed
    \/ \E t \in Task : Taken(t) \/ Settled(t) \/ Broken(t)

\* The row of the file is in one hand at a time: no task takes it from another or out of an
\* intermediate status, only an owner with a live lease and the lock gives it a good
\* status, and an owner that lost its lease can do nothing but fail.
RowInOneHand == [][RowMove]_vars

\* A version is only ever published by its task, in the step in which that task, as the
\* live owner of the file and under the lock, shows the file as indexed.
PublishedByOwner ==
    [][\A v \in Version : ver[v] # "active" /\ ver'[v] = "active" =>
          v \in Task /\ Settled(v) /\ status' = "indexed"]_vars

\* The hook of a task breaks the file that it owns.
LEMMA HookBreaks ==
    ASSUME NEW t \in Task, FailProcessing(t),
           Live(t) \/ (task[t] = "expired" /\ task'[t] = "ended")
    PROVE  RowMove
BY DEF FailProcessing, RowMove, Broken

\* A fence that lets the owner through lets it settle the file.
LEMMA FenceSettles ==
    ASSUME Orderly, NEW t \in Task, pc[t] \in Working, NEW st, NEW good, Fence(t, st), Release(good),
           (st = "parsing" /\ good = "parsed") \/ (st = "indexing" /\ good \in {"indexed", "uploaded"})
    PROVE  Settled(t) /\ status' = good
<1>1. lock = t
  BY DEF Orderly, AtWork
<1>2. QED
  BY <1>1 DEF Fence, Release, Settled

\* The steps of a task move the row only by claims, settlements and failures.
LEMMA TaskMovesRow == ASSUME Inv, Orderly, NEW t \in Task, Handler(t) PROVE RowMove
<1>1. CASE Claims(t)
  <2>1. status \in {"uploaded", "error_parsing", "parsed", "error_indexing", "indexed"} =>
            owner = None
    BY DEF Inv, IntermediateIsHandled
  <2>2. CASE UNCHANGED <<status, owner>>
    BY <2>2 DEF RowMove
  <2>3. CASE ~UNCHANGED <<status, owner>>
    <3>1. Taken(t)
      BY <1>1, <2>1, <2>3 DEF Claims, ClaimParse, ClaimIndex, Skip, file, Taken
    <3>2. QED
      BY <3>1 DEF RowMove
  <2>4. QED
    BY <2>2, <2>3
<1>2. CASE Parse(t)
  BY <1>2, FenceSettles DEF Parse, RowMove
<1>3. CASE ResetUploaded(t)
  BY <1>3, FenceSettles DEF ResetUploaded, SettleRaises, RowMove
<1>4. CASE FinishSingle(t)
  BY <1>4, FenceSettles DEF FinishSingle, RowMove
<1>5. CASE Activate(t)
  BY <1>5, FenceSettles DEF Activate, RowMove
<1>6. CASE FailFile(t)
  <2>1. Fence(t, status) => Live(t)
    BY DEF Fence
  <2>2. QED
    BY <1>6, <2>1, HookBreaks DEF FailFile, SettleRaises, RowMove
<1>7. CASE EndTask(t) \/ EndCancelled(t)
  BY <1>7, HookBreaks DEF EndTask, EndCancelled, RowMove
<1>8. CASE \/ AssertOwner(t) \/ ClearStep(t) \/ Store(t) \/ Stage(t) \/ Insert(t) \/ ReadBack(t)
           \/ CleanVectors(t) \/ CleanRow(t) \/ EnqueueCleanup(t) \/ Leave(t)
           \/ Fail(t) \/ RollBackVectors(t) \/ RollBackRow(t) \/ Interrupt(t)
  <2>1. UNCHANGED file
    BY <1>8 DEF AssertOwner, ClearStep, Store, Stage, Insert, ReadBack, CleanVectors, CleanRow,
                EnqueueCleanup, Leave, Fail, RollBackVectors, RollBackRow, Interrupt
  <2>2. QED
    BY <2>1 DEF file, RowMove
<1>9. QED
  BY <1>1, <1>2, <1>3, <1>4, <1>5, <1>6, <1>7, <1>8
     DEF Handler, SingleSteps, VersionSteps, FailureSteps

\* Every step moves the row as RowMove says.
LEMMA RowMoves == Inv /\ Orderly /\ [Next]_vars => RowMove
<1> SUFFICES ASSUME Inv, Orderly, [Next]_vars PROVE RowMove
  OBVIOUS
<1>1. ASSUME NEW t \in Task, ReconcileLease(t) PROVE RowMove
  <2>1. task'[t] = "ended"
    BY <1>1 DEF ReconcileLease, Inv, TypeOK
  <2>2. QED
    BY <1>1, <2>1, HookBreaks DEF ReconcileLease
<1>2. ASSUME NEW t \in Task,
             \/ \E work \in SUBSET {"parse", "index"} : Start(t, work)
             \/ Expire(t) \/ Crash(t)
      PROVE  RowMove
  BY <1>2 DEF Start, Expire, Crash, file, RowMove
<1>3. ASSUME NEW v \in Version, Cleanup(v) PROVE RowMove
  BY <1>3 DEF Cleanup, SweepVectors, SweepRow, LoseCleanup, file, RowMove
<1>4. CASE DeleteStep \/ DeleteStops
  BY <1>4 DEF DeleteStep, DeleteStops, Release, file, RowMove, Removed
<1>5. CASE UNCHANGED vars
  BY <1>5 DEF vars, file, RowMove
<1>6. QED
  BY <1>1, <1>2, <1>3, <1>4, <1>5, TaskMovesRow DEF Next

\* Only an activation makes a version active, and only its own.
LEMMA PublishStep ==
    ASSUME Inv, Orderly, [Next]_vars, NEW v \in Version, ver[v] # "active", ver'[v] = "active"
    PROVE  v \in Task /\ Settled(v) /\ status' = "indexed"
<1>1. ASSUME UNCHANGED ver PROVE FALSE
  BY <1>1
<1>2. ASSUME NEW t \in Task, Activate(t) PROVE v = t /\ Settled(t) /\ status' = "indexed"
  <2>1. Fence(t, "indexing") /\ Release("indexed") /\ pc[t] \in Working
    BY <1>1, <1>2 DEF Activate
  <2>2. v = t
    BY <1>2 DEF Activate
  <2>3. QED
    BY <2>1, <2>2, FenceSettles
<1>3. ASSUME NEW t \in Task, Handler(t), ~Activate(t) PROVE FALSE
  <2>1. CASE ClearStep(t)
    BY <2>1, <1>1 DEF ClearStep, DeleteChunks, DeleteVectors, DeleteRows
  <2>2. CASE Stage(t) \/ CleanRow(t) \/ RollBackRow(t)
    BY <1>1, <2>2 DEF Stage, CleanRow, RollBackRow, Inv, TypeOK
  <2>3. CASE ~(ClearStep(t) \/ Stage(t) \/ CleanRow(t) \/ RollBackRow(t))
    BY <1>1, <1>3, <2>3
       DEF Handler, SingleSteps, VersionSteps, FailureSteps, Claims, ClaimParse, ClaimIndex, Parse,
           ResetUploaded, AssertOwner, Store, FinishSingle, Insert, ReadBack, CleanVectors,
           EnqueueCleanup, Leave, Fail, RollBackVectors, FailFile, Interrupt, EndTask,
           EndCancelled, index
  <2>4. QED
    BY <2>1, <2>2, <2>3
<1>4. ASSUME NEW w \in Version, Cleanup(w) PROVE FALSE
  BY <1>1, <1>4 DEF Cleanup, SweepVectors, SweepRow, LoseCleanup, index, Inv, TypeOK
<1>5. CASE DeleteStep \/ DeleteStops
  BY <1>1, <1>5 DEF DeleteStep, DeleteStops, DeleteChunks, DeleteVectors, DeleteRows, index
<1>6. ASSUME NEW t \in Task,
             \/ \E work \in SUBSET {"parse", "index"} : Start(t, work)
             \/ Expire(t) \/ ReconcileLease(t) \/ Crash(t)
      PROVE  FALSE
  BY <1>1, <1>6 DEF Start, Expire, ReconcileLease, Crash, index
<1>7. CASE UNCHANGED vars
  BY <1>1, <1>7 DEF vars, index
<1>8. QED
  BY <1>2, <1>3, <1>4, <1>5, <1>6, <1>7 DEF Next

\* The file and its published version are written by one owner at a time, with a live lease
\* and under the lock.
THEOREM FileInOneHand == Spec => RowInOneHand /\ PublishedByOwner
<1>1. Inv /\ Orderly /\ [Next]_vars => [RowMove]_vars
  BY RowMoves
<1>2. Inv /\ Orderly /\ [Next]_vars =>
        [\A v \in Version : ver[v] # "active" /\ ver'[v] = "active" =>
            v \in Task /\ Settled(v) /\ status' = "indexed"]_vars
  BY PublishStep
<1>3. QED
  BY <1>1, <1>2, InitInv, InvStep, InitOrder, OrderStep, PTL
     DEF Spec, RowInOneHand, PublishedByOwner
=============================================================================
