---------------------- MODULE AgentRunRefinementProofs ----------------------
(* AgentRun implements RunLifecycle, for every set of runs and tokens and  *)
(* every lease.                                                            *)
EXTENDS AgentRunSafetyProofs

USE DEF Terminal, Leased, Active

-----------------------------------------------------------------------------
(* What the refinement rests on.                                           *)

\* A run that was never claimed has no audit (auxiliary).
QuietStart == \A r \in Run : ~started[r] => ~audit[r]

\* Audits are written under the fence of an owner, whose run was started.
LEMMA QuietStep == TypeOK /\ AttemptMatchesOwner /\ QuietStart /\ [Next]_vars => QuietStart'
<1> SUFFICES ASSUME TypeOK, AttemptMatchesOwner, QuietStart, [Next]_vars PROVE QuietStart'
  OBVIOUS
<1>1. ASSUME UNCHANGED started, \A r \in Run : audit'[r] => audit[r] PROVE QuietStart'
  BY <1>1 DEF QuietStart
<1>2. ASSUME NEW t \in Token, NEW st, MarkTerminal(t, st) PROVE QuietStart'
  BY <1>1, <1>2 DEF MarkTerminal, SetTerminal, TypeOK
<1>3. ASSUME NEW t \in Token, Invocation(t) PROVE QuietStart'
  <2>1. CASE \/ CleanupBeforeClaim(t) \/ Settle(t) \/ CleanTerminal(t)
             \/ Prepare(t) \/ ConfirmCancel(t) \/ UseRuntime(t) \/ SavePartialOutput(t)
             \/ ReleaseForRetry(t) \/ Finally(t) \/ RecloseTree(t)
             \/ \E label \in {"cancelled", "retry", "failing"} : Raise(t, label)
    BY <1>1, <2>1 DEF CleanupBeforeClaim, Settle, CleanTerminal, RequireCleanup, Prepare,
                      ConfirmCancel, UseRuntime, SavePartialOutput, ReleaseForRetry, Finally,
                      RecloseTree, FinishChildren, Raise, rowVars
  <2>2. CASE Claim(t)
    BY <2>2 DEF Claim, QuietStart, TypeOK
  <2>3. ASSUME NEW running \in BOOLEAN, WriteAudit(t, running) PROVE QuietStart'
    <3>1. started[job[t]] \/ job[t] \notin Run
      BY <2>3, NoneIsNoValue DEF WriteAudit, IsLeaseOwner, AttemptMatchesOwner
    <3>2. QED
      BY <2>3, <3>1 DEF WriteAudit, QuietStart, TypeOK
  <2>4. ASSUME NEW st, NEW bound, SaveAndEnd(t, st, bound) PROVE QuietStart'
    BY <1>1, <2>4 DEF SaveAndEnd, SetTerminal, TypeOK
  <2>5. CASE \/ FinishUserCancel(t) \/ Fail(t)
             \/ \E st \in {"completed", "interrupted", "cancelled"} : EndStream(t, st)
    BY <1>2, <2>5 DEF FinishUserCancel, Fail, EndStream
  <2>6. QED
    BY <1>3, <2>1, <2>2, <2>3, <2>4, <2>5 DEF Invocation
<1>4. CASE \/ \E r \in Chat : CreateChat(r)
           \/ \E r \in Resume : CreateResume(r)
           \/ \E t \in Token, c \in Sub : StartSubagent(t, c)
           \/ \E r \in Run : RequestCancel(r)
           \/ \E t \in Token, r \in Run : Deliver(t, r)
           \/ \E t \in Token : Heartbeat(t) \/ LoseLease(t) \/ Crash(t)
           \/ Tick
           \/ \E r \in Root : ReconcileCleanup(r)
           \/ UNCHANGED vars
  BY <1>1, <1>4 DEF CreateChat, CreateResume, StartSubagent, CreateRow, RequestCancel, Deliver,
                    Heartbeat, LoseLease, Crash, Tick, ReconcileCleanup, rowVars, vars
<1>5. CASE StorageMigration \/ \E S \in SUBSET Run : ReconcileLeases(S)
  BY <1>1, <1>5 DEF StorageMigration, ReconcileLeases
<1>6. QED
  BY <1>3, <1>4, <1>5 DEF Next

-----------------------------------------------------------------------------
(* The refinement mapping.                                                 *)

\* The inductive invariant of the refinement.
Inv == TypeOK /\ InvocationShape /\ AttemptMatchesOwner /\ TreeShape /\ QuietStart

USE DEF Lifecycle!Active

\* A row of the tree that is closed stays or is told to stop.
LEMMA ClosedRowStops ==
    ASSUME Inv, NEW c \in Run,
           status'[c] = status[c] \/ (status[c] \in Active /\ status'[c] = Stopped(c)),
           UNCHANGED <<worker[c], output[c], audit[c]>>
    PROVE  Lifecycle!Stays(c) \/ Lifecycle!ToldToStop(c)
<1>1. CASE status'[c] = status[c]
  BY <1>1 DEF Lifecycle!Stays, Lifecycle!KeepsWork
<1>2. CASE status[c] \in Active /\ status'[c] = Stopped(c) /\ NeverStarted(c)
  BY <1>2 DEF Stopped, NeverStarted, Inv, QuietStart, Lifecycle!ToldToStop, Lifecycle!Becomes,
              Lifecycle!KeepsWork
<1>3. CASE status[c] \in Active /\ status'[c] = Stopped(c) /\ ~NeverStarted(c)
  BY <1>3 DEF Stopped, Lifecycle!Stays, Lifecycle!ToldToStop, Lifecycle!Becomes,
              Lifecycle!KeepsWork
<1>4. QED
  BY <1>1, <1>2, <1>3

\* Closing the tree below r with r itself written first.
LEMMA ClosedTree ==
    ASSUME TypeOK, NEW r \in Run, NEW st \in Status, r \notin Descendants(r),
           status' = CloseTree([status EXCEPT ![r] = st], r)
    PROVE  /\ status'[r] = st
           /\ \A c \in Run \ {r} : \/ status'[c] = status[c]
                                   \/ status[c] \in Active /\ status'[c] = Stopped(c)
<1> DEFINE f == [status EXCEPT ![r] = st]
<1>1. f \in [Run -> Status] /\ f[r] = st /\ \A c \in Run \ {r} : f[c] = status[c]
  BY DEF TypeOK, Status
<1>2. status' = CloseTree(f, r)
  OBVIOUS
<1> HIDE DEF f
<1>3. \A c \in Run : CloseTree(f, r)[c] = IF c \in Descendants(r) THEN Stopped(c) ELSE f[c]
  BY <1>1, CloseTreeEffect
<1>4. \A c \in Descendants(r) : status[c] \in Active
  BY <1>1, CloseTreeEffect
<1>5. \A c \in Run : status'[c] = IF c \in Descendants(r) THEN Stopped(c) ELSE f[c]
  BY <1>2, <1>3
<1>6. QED
  BY <1>1, <1>4, <1>5

\* The terminal transaction of its owner ends run r, and the rest of its tree stops.
LEMMA SetTerminalEnds ==
    ASSUME Inv, NEW t \in Token, NEW r \in Run, NEW st \in Terminal,
           SetTerminal(r, t, st), OwnsLive(r, t),
           \/ status[r] = "running" /\ st # "cancelled"
           \/ status[r] = "cancel_requested" /\ st = "cancelled",
           st = "completed" => output'[r],
           output[r] => output'[r], \A c \in Run \ {r} : output'[c] = output[c]
    PROVE  Lifecycle!Finish
<1>1. [status EXCEPT ![r] = st] \in [Run -> Status] /\ status \in [Run -> Status]
  BY DEF Inv, TypeOK, Status
<1>2. r \notin Descendants(r)
  BY NotBelowItself DEF Inv
<1>3. status' = CloseTree([status EXCEPT ![r] = st], r) /\ st \in Status /\ TypeOK
  BY DEF SetTerminal, Inv, Status
<1>4. /\ status'[r] = st
      /\ \A c \in Run \ {r} : \/ status'[c] = status[c]
                              \/ status[c] \in Active /\ status'[c] = Stopped(c)
  BY <1>2, <1>3, ClosedTree
<1>5. status'[r] = st /\ worker'[r] = None /\ ~audit'[r]
  BY <1>4 DEF SetTerminal, Inv, TypeOK
<1>6. \/ Lifecycle!Becomes(r, {"running"}, {"completed", "interrupted", "failed"})
      \/ Lifecycle!Becomes(r, {"cancel_requested"}, {"cancelled"})
  BY <1>5 DEF Lifecycle!Becomes
<1>7. worker[r] # None
  BY NoneIsNoValue DEF OwnsLive
<1>8. status'[r] = "completed" => output'[r]
  BY <1>5
<1>9. Lifecycle!Ended(r)
  BY <1>5, <1>6, <1>7, <1>8 DEF Lifecycle!Ended
<1>10. ASSUME NEW c \in Run \ {r} PROVE Lifecycle!Stays(c) \/ Lifecycle!ToldToStop(c)
  <2>1. status'[c] = status[c] \/ (status[c] \in Active /\ status'[c] = Stopped(c))
    BY <1>4
  <2>2. worker'[c] = worker[c] /\ audit'[c] = audit[c]
    BY DEF SetTerminal, Inv, TypeOK
  <2>3. QED
    BY <2>1, <2>2, ClosedRowStops
<1>11. QED
  BY <1>9, <1>10 DEF Lifecycle!Finish, Lifecycle!OthersStop

\* A row is created.
LEMMA CreationCreates ==
    ASSUME Inv, NEW r \in Run, NEW by, CreateRow(r, by)
    PROVE  Lifecycle!Create
<1>1. worker[r] = None
  BY DEF CreateRow, Inv, AttemptMatchesOwner
<1>2. \A c \in Run : status'[c] = IF c = r THEN "pending" ELSE status[c]
  BY DEF CreateRow, Inv, TypeOK
<1>3. QED
  BY <1>1, <1>2 DEF CreateRow, Lifecycle!Create, Lifecycle!Created, Lifecycle!Others,
                    Lifecycle!Becomes, Lifecycle!Stays, Lifecycle!KeepsWork

\* A claim takes a run that nobody owns, or repeats itself.
LEMMA ClaimClaims ==
    ASSUME Inv, NEW t \in Token, Claim(t)
    PROVE  Lifecycle!Next \/ UNCHANGED Lifecycle!vars
<1> DEFINE r == job[t]
<1>1. r \in Run
  BY DEF Claim, Inv, InvocationShape, TypeOK
<1>2. CASE ~MayClaim(r, t)
  BY <1>2 DEF Claim, Lifecycle!vars
<1>3. CASE MayClaim(r, t)
  <2>1. /\ status'[r] = IF status[r] = "pending" THEN "running" ELSE status[r]
        /\ worker'[r] = t
        /\ \A c \in Run \ {r} : status'[c] = status[c] /\ worker'[c] = worker[c]
        /\ UNCHANGED <<output, audit>>
    BY <1>1, <1>3 DEF Claim, Inv, TypeOK
  <2>2. CASE worker[r] = None
    <3>1. status[r] \in {"pending", "cancel_requested"}
      BY <1>1, <1>3, <2>2, NoneIsNoValue DEF MayClaim, OwnsLive
    <3>2. Lifecycle!Claimed(r)
      BY <2>1, <2>2, <3>1 DEF Lifecycle!Claimed, Lifecycle!Becomes, Lifecycle!KeepsWork
    <3>3. QED
      BY <1>1, <2>1, <3>2 DEF Lifecycle!Next, Lifecycle!Claim, Lifecycle!Others,
                              Lifecycle!Stays, Lifecycle!KeepsWork
  <2>3. CASE worker[r] # None
    <3>1. status[r] \in Leased /\ worker[r] = t
      BY <1>1, <1>3, <2>3 DEF MayClaim, OwnsLive, Inv, AttemptMatchesOwner
    <3>2. \A c \in Run : Lifecycle!Stays(c)
      BY <2>1, <3>1 DEF Lifecycle!Stays, Lifecycle!KeepsWork
    <3>3. QED
      BY <3>2 DEF Lifecycle!Next, Lifecycle!Stop
  <2>4. QED
    BY <2>2, <2>3
<1>4. QED
  BY <1>2, <1>3

\* The retry release gives the run back, and the rest of its tree stops.
LEMMA ReleaseGivesBack ==
    ASSUME Inv, NEW t \in Token, ReleaseForRetry(t)
    PROVE  Lifecycle!Next \/ UNCHANGED Lifecycle!vars
<1> DEFINE r == job[t]
<1>1. r \in Run
  BY DEF ReleaseForRetry, Inv, InvocationShape, TypeOK
<1>2. CASE ~IsLeaseOwner(r, t)
  BY <1>2 DEF ReleaseForRetry, Lifecycle!vars
<1>3. CASE IsLeaseOwner(r, t)
  <2>1. [status EXCEPT ![r] = "pending"] \in [Run -> Status] /\ status[r] = "running"
    BY <1>3 DEF Inv, TypeOK, Status, IsLeaseOwner
  <2>2. /\ status' = CloseTree([status EXCEPT ![r] = "pending"], r)
        /\ worker' = [worker EXCEPT ![r] = None]
        /\ UNCHANGED <<output, audit>>
    BY <1>3 DEF ReleaseForRetry
  <2>3. r \notin Descendants(r)
    BY <1>1, <2>1, NotBelowItself DEF Inv
  <2>4. /\ status'[r] = "pending"
        /\ \A c \in Run \ {r} : \/ status'[c] = status[c]
                                \/ status[c] \in Active /\ status'[c] = Stopped(c)
    <3>1. "pending" \in Status /\ TypeOK
      BY DEF Status, Inv
    <3>2. QED
      BY <1>1, <2>2, <2>3, <3>1, ClosedTree
  <2>5. status'[r] = "pending" /\ worker'[r] = None
    BY <1>1, <2>2, <2>4 DEF Inv, TypeOK
  <2>6. Lifecycle!GivenBack(r)
    BY <1>3, <2>1, <2>2, <2>5, NoneIsNoValue DEF Lifecycle!GivenBack, Lifecycle!Becomes,
       Lifecycle!KeepsWork, IsLeaseOwner, OwnsLive
  <2>7. ASSUME NEW c \in Run \ {r} PROVE Lifecycle!Stays(c) \/ Lifecycle!ToldToStop(c)
    <3>1. status'[c] = status[c] \/ (status[c] \in Active /\ status'[c] = Stopped(c))
      BY <2>4
    <3>2. worker'[c] = worker[c]
      BY <2>2 DEF Inv, TypeOK
    <3>3. QED
      BY <2>2, <3>1, <3>2, ClosedRowStops
  <2>8. QED
    BY <1>1, <2>6, <2>7 DEF Lifecycle!Next, Lifecycle!Finish, Lifecycle!OthersStop
<1>4. QED
  BY <1>2, <1>3

\* Telling rows to stop, whatever their number, is one abstract step.
LEMMA RowsStop ==
    ASSUME Inv, UNCHANGED <<worker, output, audit>>,
           \A c \in Run : \/ status'[c] = status[c]
                          \/ status[c] \in Active /\ status'[c] = Stopped(c)
    PROVE  Lifecycle!Stop
<1>1. ASSUME NEW c \in Run PROVE Lifecycle!Stays(c) \/ Lifecycle!ToldToStop(c)
  BY <1>1, ClosedRowStops
<1>2. QED
  BY <1>1 DEF Lifecycle!Stop

\* mark_run_terminal and _finish_run end the run or change no row.
LEMMA MarkTerminalEnds ==
    ASSUME Inv, NEW t \in Token, NEW st \in Terminal, job[t] \in Run, MarkTerminal(t, st)
    PROVE  Lifecycle!Finish \/ UNCHANGED Lifecycle!vars
<1>1. CASE MaySetTerminal(job[t], t, st)
  <2>1. SetTerminal(job[t], t, st) /\ output' = output
    BY <1>1 DEF MarkTerminal
  <2>2. /\ OwnsLive(job[t], t)
        /\ \/ status[job[t]] = "running" /\ st # "cancelled"
           \/ status[job[t]] = "cancel_requested" /\ st = "cancelled"
        /\ st = "completed" => output[job[t]]
    BY <1>1 DEF MaySetTerminal
  <2>3. QED
    BY <2>1, <2>2, SetTerminalEnds
<1>2. CASE ~MaySetTerminal(job[t], t, st)
  BY <1>2 DEF MarkTerminal, Lifecycle!vars
<1>3. QED
  BY <1>1, <1>2

\* Saving the messages ends the run or changes no row.
LEMMA SaveAndEndEnds ==
    ASSUME Inv, NEW t \in Token, job[t] \in Run, NEW st \in {"completed", "interrupted"},
           NEW bound \in BOOLEAN, SaveAndEnd(t, st, bound)
    PROVE  Lifecycle!Finish \/ UNCHANGED Lifecycle!vars
<1> DEFINE r == job[t]
<1>1. CASE IsLeaseOwner(r, t) /\ (st = "completed" => output[r] \/ bound)
  <2>1. SetTerminal(r, t, st) /\ output' = [output EXCEPT ![r] = @ \/ bound]
    BY <1>1 DEF SaveAndEnd
  <2>2. OwnsLive(r, t) /\ status[r] = "running" /\ st # "cancelled" /\ st \in Terminal
    BY <1>1 DEF IsLeaseOwner
  <2>3. output \in [Run -> BOOLEAN] /\ r \in Run
    BY DEF Inv, TypeOK
  <2>4. output'[r] = (output[r] \/ bound) /\ \A c \in Run \ {r} : output'[c] = output[c]
    BY <2>1, <2>3
  <2>5. (st = "completed" => output'[r]) /\ (output[r] => output'[r])
    BY <1>1, <2>4
  <2>6. QED
    BY <2>1, <2>2, <2>3, <2>4, <2>5, SetTerminalEnds
<1>2. CASE ~(IsLeaseOwner(r, t) /\ (st = "completed" => output[r] \/ bound))
  BY <1>2 DEF SaveAndEnd, Lifecycle!vars
<1>3. QED
  BY <1>1, <1>2

\* Closing the tree of a run that is terminal tells rows to stop.
LEMMA FinishChildrenStops ==
    ASSUME Inv, NEW t \in Token, NEW from, NEW to, FinishChildren(t, from, to)
    PROVE  Lifecycle!Stop
<1>1. status \in [Run -> Status]
  BY DEF Inv, TypeOK, Status
<1>2. \A c \in Run : \/ status'[c] = status[c]
                     \/ status[c] \in Active /\ status'[c] = Stopped(c)
  BY <1>1, CloseTreeEffect DEF FinishChildren
<1>3. QED
  BY <1>2, RowsStop DEF FinishChildren

\* So does a cancel request.
LEMMA RequestCancelStops ==
    ASSUME Inv, NEW r \in Run, RequestCancel(r)
    PROVE  Lifecycle!Stop
<1>1. CancelLocked(r) \in [Run -> Status]
  BY DEF CancelLocked, Stopped, Inv, TypeOK, Status
<1>2. \A c \in Run : \/ CancelLocked(r)[c] = status[c]
                     \/ status[c] \in Active /\ CancelLocked(r)[c] = Stopped(c)
  BY DEF CancelLocked, Inv, TypeOK
<1>3. \A c \in Run : \/ status'[c] = status[c]
                     \/ status[c] \in Active /\ status'[c] = Stopped(c)
  BY <1>1, <1>2, CloseTreeEffect DEF RequestCancel
<1>4. QED
  BY <1>3, RowsStop DEF RequestCancel

\* The reconciler fails the orphans and stops what they had started.
LEMMA ReconcileFails ==
    ASSUME Inv, NEW S \in SUBSET Run, ReconcileLeases(S)
    PROVE  Lifecycle!Reconcile
<1> DEFINE below == UNION {Descendants(r) : r \in S}
<1>1. \A c \in below : status[c] \in Active
  BY DEF Descendants
<1>2. \A c \in S : status[c] \in Leased
  BY DEF ReconcileLeases, Orphaned
<1>3. /\ \A c \in S : status'[c] = "failed" /\ worker'[c] = None /\ ~audit'[c]
      /\ \A c \in Run \ S : /\ worker'[c] = worker[c] /\ audit'[c] = audit[c]
                            /\ status'[c] = IF c \in below THEN Stopped(c) ELSE status[c]
      /\ output' = output
  BY DEF ReconcileLeases
<1> HIDE DEF below
<1>4. ASSUME NEW c \in S PROVE status[c] # "pending" /\ Lifecycle!Failed(c)
  BY <1>2, <1>3 DEF Lifecycle!Failed, Lifecycle!Becomes
<1>5. ASSUME NEW c \in Run \ S PROVE Lifecycle!Stays(c) \/ Lifecycle!ToldToStop(c)
  BY <1>1, <1>3, ClosedRowStops
<1>6. QED
  BY <1>4, <1>5 DEF Lifecycle!Reconcile

\* The storage migration fails every active run.
LEMMA MigrationFails == ASSUME StorageMigration PROVE Lifecycle!Migrate
<1>1. ASSUME NEW c \in Run, status[c] \in Active PROVE Lifecycle!Failed(c)
  BY <1>1 DEF StorageMigration, Lifecycle!Failed, Lifecycle!Becomes
<1>2. ASSUME NEW c \in Run, status[c] \notin Active PROVE Lifecycle!Stays(c)
  BY <1>2 DEF StorageMigration, Lifecycle!Stays, Lifecycle!KeepsWork
<1>3. QED
  BY <1>1, <1>2 DEF Lifecycle!Migrate

\* An output or an audit is work of the owner.
LEMMA WorkWorks ==
    ASSUME Inv, NEW t \in Token,
           SavePartialOutput(t) \/ \E running \in BOOLEAN : WriteAudit(t, running)
    PROVE  Lifecycle!Work
<1> DEFINE r == job[t]
<1>1. r \in Run
  BY DEF SavePartialOutput, WriteAudit, Inv, InvocationShape, TypeOK
<1>2. /\ status[r] = "running" /\ worker[r] # None /\ UNCHANGED <<status, worker>>
      /\ \A c \in Run \ {r} : output'[c] = output[c] /\ audit'[c] = audit[c]
      /\ output[r] => output'[r]
  BY <1>1, NoneIsNoValue DEF SavePartialOutput, WriteAudit, IsLeaseOwner, OwnsLive, Inv, TypeOK
<1> HIDE DEF r
<1>3. Lifecycle!Works(r)
  BY <1>2 DEF Lifecycle!Works, Lifecycle!Becomes
<1>4. Lifecycle!Others(r)
  BY <1>2 DEF Lifecycle!Others, Lifecycle!Stays, Lifecycle!KeepsWork
<1>5. QED
  BY <1>1, <1>3, <1>4 DEF Lifecycle!Work

-----------------------------------------------------------------------------
(* Every step is a step of the lifecycle or changes nothing its readers see. *)

\* What an invocation does to the rows is a step of the lifecycle, or none.
LEMMA InvocationRefines ==
    ASSUME Inv, NEW t \in Token, Invocation(t)
    PROVE  Lifecycle!Next \/ UNCHANGED Lifecycle!vars
<1>1. pc[t] # "idle" => job[t] \in Run
  BY DEF Inv, InvocationShape, TypeOK
<1>2. CASE \/ CleanupBeforeClaim(t) \/ Settle(t) \/ CleanTerminal(t)
           \/ Prepare(t) \/ ConfirmCancel(t) \/ UseRuntime(t)
           \/ \E label \in {"cancelled", "retry", "failing"} : Raise(t, label)
  BY <1>2 DEF CleanupBeforeClaim, Settle, CleanTerminal, RequireCleanup, Prepare, ConfirmCancel,
              UseRuntime, Raise, rowVars, Lifecycle!vars
<1>3. CASE SavePartialOutput(t) \/ \E running \in BOOLEAN : WriteAudit(t, running)
  BY <1>3, WorkWorks DEF Lifecycle!Next
<1>4. ASSUME NEW st \in {"completed", "interrupted"}, NEW bound \in BOOLEAN,
             SaveAndEnd(t, st, bound)
      PROVE  Lifecycle!Finish \/ UNCHANGED Lifecycle!vars
  BY <1>1, <1>4, SaveAndEndEnds DEF SaveAndEnd
<1>5. ASSUME NEW st \in Terminal, MarkTerminal(t, st), pc[t] # "idle"
      PROVE  Lifecycle!Finish \/ UNCHANGED Lifecycle!vars
  BY <1>1, <1>5, MarkTerminalEnds
<1>6. CASE \/ FinishUserCancel(t) \/ Fail(t)
           \/ \E st \in {"completed", "interrupted", "cancelled"} : EndStream(t, st)
  BY <1>5, <1>6 DEF FinishUserCancel, Fail, EndStream, Lifecycle!Next
<1>7. CASE Finally(t) \/ RecloseTree(t)
  BY <1>7, FinishChildrenStops DEF Finally, RecloseTree, Lifecycle!Next
<1>8. QED
  BY <1>2, <1>3, <1>4, <1>6, <1>7, ClaimClaims, ReleaseGivesBack DEF Invocation, Lifecycle!Next

\* Every step of the program maps to a step of the lifecycle or to none.
LEMMA StepRefines == Inv /\ [Next]_vars => [Lifecycle!Next]_(Lifecycle!vars)
<1> SUFFICES ASSUME Inv, [Next]_vars PROVE Lifecycle!Next \/ UNCHANGED Lifecycle!vars
  OBVIOUS
<1>1. CASE \E t \in Token : Invocation(t)
  BY <1>1, InvocationRefines
<1>2. CASE \/ \E r \in Chat : CreateChat(r)
           \/ \E r \in Resume : CreateResume(r)
           \/ \E t \in Token, c \in Sub : StartSubagent(t, c)
  BY <1>2, CreationCreates DEF CreateChat, CreateResume, StartSubagent, Root, Run, Lifecycle!Next
<1>3. CASE \E r \in Run : RequestCancel(r)
  BY <1>3, RequestCancelStops DEF Lifecycle!Next
<1>4. CASE \E S \in SUBSET Run : ReconcileLeases(S)
  BY <1>4, ReconcileFails DEF Lifecycle!Next
<1>5. CASE StorageMigration
  BY <1>5, MigrationFails DEF Lifecycle!Next
<1>6. CASE \/ \E t \in Token, r \in Run : Deliver(t, r)
           \/ \E t \in Token : Heartbeat(t) \/ LoseLease(t) \/ Crash(t)
           \/ Tick
           \/ \E r \in Root : ReconcileCleanup(r)
           \/ UNCHANGED vars
  BY <1>6 DEF Deliver, Heartbeat, LoseLease, Crash, Tick, ReconcileCleanup, rowVars, vars,
              Lifecycle!vars
<1>7. QED
  BY <1>1, <1>2, <1>3, <1>4, <1>5, <1>6 DEF Next

\* The agent_runs rows implement the lifecycle their readers rely on: every run of
\* the program is, seen through status, worker_id, output_message_id and the running
\* audits, a behaviour of RunLifecycle.
THEOREM LifecycleCorrect == Spec => ImplementsLifecycle
<1>1. Init => Inv /\ Lifecycle!Init
  <2>1. Init => TypeOK
    BY InitType
  <2>2. Init => InvocationShape /\ AttemptMatchesOwner
    BY NoneIsNoValue DEF Init, InvocationShape, AttemptMatchesOwner
  <2>3. Init => TreeShape /\ QuietStart
    BY DEF Init, TreeShape, QuietStart, Root, Run
  <2>4. Init => Lifecycle!Init
    BY DEF Init, Lifecycle!Init
  <2>5. QED
    BY <2>1, <2>2, <2>3, <2>4 DEF Inv
<1>2. Inv /\ [Next]_vars => Inv'
  BY TypeStep, ShapeStep, OwnerStep, TreeStep, QuietStep DEF Inv
<1>3. QED
  BY <1>1, <1>2, StepRefines, PTL DEF Spec, ImplementsLifecycle, Lifecycle!Spec

-----------------------------------------------------------------------------
(* What a reader of agent_runs concludes from the lifecycle.               *)

\* The row of a run that ended says the whole truth: nobody executes it, no call of it is
\* left running, and if it completed its output is there.
EndedIsWhole ==
    \A r \in Run : status[r] \in Terminal =>
        worker[r] = None /\ ~audit[r] /\ (status[r] = "completed" => output[r])

\* An ended run never changes again, a run that was told to stop is neither executed
\* again nor completed, and a run passes from one attempt to another only through the
\* hands of nobody: no late worker and no second delivery takes it over or back.
NothingComesBack ==
    [][\A r \in Run :
        /\ status[r] \in Terminal =>
               /\ status'[r] = status[r] /\ worker'[r] = worker[r]
               /\ output'[r] = output[r] /\ audit'[r] = audit[r]
        /\ status[r] = "cancel_requested" =>
               status'[r] \in {"cancel_requested", "cancelled", "failed"}
        /\ worker[r] # None => worker'[r] \in {worker[r], None}]_vars

\* One step of the lifecycle, seen at run r.
LEMMA LifecycleAllows ==
    ASSUME NEW r \in Run, Lifecycle!Next
    PROVE  \/ Lifecycle!Stays(r) \/ Lifecycle!ToldToStop(r) \/ Lifecycle!Failed(r)
           \/ Lifecycle!Created(r) \/ Lifecycle!Claimed(r) \/ Lifecycle!Works(r)
           \/ Lifecycle!Ended(r) \/ Lifecycle!GivenBack(r)
BY DEF Lifecycle!Next, Lifecycle!Create, Lifecycle!Claim, Lifecycle!Work, Lifecycle!Stop,
       Lifecycle!Finish, Lifecycle!Reconcile, Lifecycle!Migrate, Lifecycle!Others,
       Lifecycle!OthersStop

\* What each of them does to the row of r.
LEMMA LifecycleMeans ==
    ASSUME NEW r \in Run, Lifecycle!Next
    PROVE  /\ status[r] \in Terminal => Lifecycle!Stays(r)
           /\ status[r] = "cancel_requested" =>
                  status'[r] \in {"cancel_requested", "cancelled", "failed"}
           /\ worker[r] # None => worker'[r] \in {worker[r], None}
           /\ status[r] \notin Terminal /\ status'[r] \in Terminal =>
                  worker'[r] = None /\ ~audit'[r] /\ (status'[r] = "completed" => output'[r])
<1> USE DEF Lifecycle!Becomes, Lifecycle!KeepsWork, Lifecycle!Active
<1>1. CASE Lifecycle!Stays(r) \/ Lifecycle!Created(r) \/ Lifecycle!Claimed(r) \/ Lifecycle!Works(r)
  BY <1>1 DEF Lifecycle!Stays, Lifecycle!Created, Lifecycle!Claimed, Lifecycle!Works
<1>2. CASE Lifecycle!ToldToStop(r) \/ Lifecycle!GivenBack(r)
  BY <1>2 DEF Lifecycle!ToldToStop, Lifecycle!GivenBack
<1>3. CASE Lifecycle!Failed(r) \/ Lifecycle!Ended(r)
  BY <1>3 DEF Lifecycle!Failed, Lifecycle!Ended
<1>4. QED
  BY <1>1, <1>2, <1>3, LifecycleAllows

\* The row of an ended run is whole, and nothing that is over comes back: both follow from
\* the lifecycle alone, so they hold for every program that implements it.
THEOREM EndedRunsStayWhole == Spec => []EndedIsWhole /\ NothingComesBack
<1>1. ImplementsLifecycle => []EndedIsWhole
  <2>1. Lifecycle!Init => EndedIsWhole
    BY DEF Lifecycle!Init, EndedIsWhole
  <2>2. EndedIsWhole /\ [Lifecycle!Next]_(Lifecycle!vars) => EndedIsWhole'
    <3>1. ASSUME EndedIsWhole, Lifecycle!Next PROVE EndedIsWhole'
      BY <3>1, LifecycleMeans DEF EndedIsWhole, Lifecycle!Stays, Lifecycle!KeepsWork
    <3>2. ASSUME EndedIsWhole, UNCHANGED Lifecycle!vars PROVE EndedIsWhole'
      BY <3>2 DEF EndedIsWhole, Lifecycle!vars
    <3>3. QED
      BY <3>1, <3>2
  <2>3. QED
    BY <2>1, <2>2, PTL DEF ImplementsLifecycle, Lifecycle!Spec
<1>2. [Lifecycle!Next]_(Lifecycle!vars) =>
        [\A r \in Run :
          /\ status[r] \in Terminal =>
                 /\ status'[r] = status[r] /\ worker'[r] = worker[r]
                 /\ output'[r] = output[r] /\ audit'[r] = audit[r]
          /\ status[r] = "cancel_requested" =>
                 status'[r] \in {"cancel_requested", "cancelled", "failed"}
          /\ worker[r] # None => worker'[r] \in {worker[r], None}]_vars
  <2>1. ASSUME NEW r \in Run, Lifecycle!Next
        PROVE  /\ status[r] \in Terminal =>
                      /\ status'[r] = status[r] /\ worker'[r] = worker[r]
                      /\ output'[r] = output[r] /\ audit'[r] = audit[r]
               /\ status[r] = "cancel_requested" =>
                      status'[r] \in {"cancel_requested", "cancelled", "failed"}
               /\ worker[r] # None => worker'[r] \in {worker[r], None}
    BY <2>1, LifecycleMeans DEF Lifecycle!Stays, Lifecycle!KeepsWork
  <2>2. QED
    BY <2>1 DEF Lifecycle!vars
<1>3. QED
  BY <1>1, <1>2, LifecycleCorrect, PTL DEF ImplementsLifecycle, Lifecycle!Spec, NothingComesBack

-----------------------------------------------------------------------------
(* The contract of the chat and resume runs.                               *)

\* A chat or resume run that owes a cleanup or is asked to stop was claimed (auxiliary).
RootShape ==
    \A r \in Root : cleanup[r] \/ status[r] = "cancel_requested" => started[r]

\* One row of a chat or resume run stays what it is.
RootStays(r) == status'[r] = status[r] /\ cleanup'[r] = cleanup[r] /\ started'[r] = started[r]

\* The row stays, or goes through one of the actions that ThreadRuns names.
RootStep(r) ==
    \/ RootStays(r)
    \/ /\ ~cleanup[r] /\ ~cleanup'[r] /\ started'[r]
       /\ status[r] = "pending" /\ status'[r] = "running"
    \/ /\ started'[r] = started[r]
       /\ \/ status[r] = "running" /\ status'[r] = "pending" /\ cleanup'[r]
          \/ /\ started[r] /\ cleanup'[r] = cleanup[r]
             /\ status[r] \in {"pending", "running"} /\ status'[r] = "cancel_requested"
          \/ ~started[r] /\ status[r] = "pending" /\ status'[r] = "cancelled" /\ ~cleanup'[r]
          \/ /\ cleanup'[r]
             /\ \/ /\ status[r] = "running"
                   /\ status'[r] \in {"completed", "interrupted", "failed"}
                \/ status[r] = "cancel_requested" /\ status'[r] \in {"cancelled", "failed"}
          \/ MayRelease(r) /\ ~cleanup'[r] /\ status'[r] = status[r]
          \/ /\ status[r] \in Active /\ status'[r] = "failed" /\ ~cleanup'[r]
             /\ StorageMigration

\* How the mapping sees a step that changes run r and no other chat or resume run.
LEMMA OneRootChanges ==
    ASSUME TypeOK, TypeOK', NEW r \in Root, \A x \in Root \ {r} : RootStays(x)
    PROVE  /\ [x \in Root |-> status[x]]' = [[x \in Root |-> status[x]] EXCEPT ![r] = status'[r]]
           /\ status'[r] = status[r] => UNCHANGED [x \in Root |-> status[x]]
           /\ cleanup'[r] => [x \in Root |-> cleanup[x]]'
                                = [[x \in Root |-> cleanup[x]] EXCEPT ![r] = TRUE]
           /\ ~cleanup'[r] => [x \in Root |-> cleanup[x]]'
                                = [[x \in Root |-> cleanup[x]] EXCEPT ![r] = FALSE]
           /\ (cleanup'[r] <=> cleanup[r]) => UNCHANGED [x \in Root |-> cleanup[x]]
           /\ started'[r] => {x \in Root : started[x]}' = {x \in Root : started[x]} \cup {r}
           /\ started'[r] = started[r] => UNCHANGED {x \in Root : started[x]}
<1>1. /\ cleanup[r] \in BOOLEAN /\ cleanup'[r] \in BOOLEAN
  BY DEF TypeOK, Run
<1>2. /\ cleanup'[r] => cleanup'[r] = TRUE
      /\ ~cleanup'[r] => cleanup'[r] = FALSE
      /\ (cleanup'[r] <=> cleanup[r]) => cleanup'[r] = cleanup[r]
  BY <1>1
<1>3. \A x \in Root : cleanup'[x] = IF x = r THEN cleanup'[r] ELSE cleanup[x]
  BY DEF RootStays
<1>4. /\ cleanup'[r] => [x \in Root |-> cleanup[x]]'
                           = [[x \in Root |-> cleanup[x]] EXCEPT ![r] = TRUE]
      /\ ~cleanup'[r] => [x \in Root |-> cleanup[x]]'
                           = [[x \in Root |-> cleanup[x]] EXCEPT ![r] = FALSE]
      /\ (cleanup'[r] <=> cleanup[r]) => UNCHANGED [x \in Root |-> cleanup[x]]
  BY <1>2, <1>3
<1>5. /\ [x \in Root |-> status[x]]' = [[x \in Root |-> status[x]] EXCEPT ![r] = status'[r]]
      /\ status'[r] = status[r] => UNCHANGED [x \in Root |-> status[x]]
  BY DEF RootStays
<1>6. /\ started'[r] => {x \in Root : started[x]}' = {x \in Root : started[x]} \cup {r}
      /\ started'[r] = started[r] => UNCHANGED {x \in Root : started[x]}
  BY DEF RootStays
<1>7. QED
  BY <1>4, <1>5, <1>6

\* One run of the thread makes one step.
RunMoves == \E r \in Runs!Run : Runs!RunStep(r)

\* Only a run that is active or owes a cleanup changes, and there is one at a time, so
\* what happens to every single run is what happens to the thread.
LEMMA RootsMakeThread ==
    ASSUME TypeOK, TypeOK', CleanupFence, UNCHANGED latest, \A r \in Root : RootStep(r)
    PROVE  RunMoves \/ UNCHANGED Runs!runs
<1>1. CASE \A r \in Root : RootStays(r)
  BY <1>1 DEF RootStays, Runs!runs
<1>2. ASSUME NEW r \in Root, ~RootStays(r) PROVE RunMoves
  <2>1. RootStep(r) /\ r \in Runs!Run
    BY DEF Root, Runs!Run
  <2>2. status[r] \in Active \/ cleanup[r]
    BY <1>2, <2>1 DEF RootStep, MayRelease
  <2>3. \A x \in Root \ {r} : status[x] \notin Active /\ ~cleanup[x]
    BY <2>2 DEF CleanupFence
  <2>4. \A x \in Root \ {r} : RootStays(x)
    BY <2>3 DEF RootStep, MayRelease
  <2>5. ASSUME NEW from, NEW to, status[r] \in from, status'[r] \in to
        PROVE  Runs!Moves(r, from, to)
    BY <2>4, <2>5, OneRootChanges DEF Runs!Moves
  <2>6. /\ [x \in Root |-> cleanup[x]][r] <=> cleanup[r]
        /\ r \in {x \in Root : started[x]} <=> started[r]
    OBVIOUS
  <2>7. CASE /\ ~cleanup[r] /\ ~cleanup'[r] /\ started'[r]
             /\ status[r] = "pending" /\ status'[r] = "running"
    <3>1. Runs!Moves(r, {"pending"}, {"running"})
      BY <2>5, <2>7
    <3>2. Runs!Claim(r)
      BY <2>4, <2>6, <2>7, <3>1, OneRootChanges DEF Runs!Claim
    <3>3. QED
      BY <2>1, <3>2 DEF RunMoves, Runs!RunStep
  <2>8. CASE /\ started'[r] = started[r]
             /\ status[r] = "running" /\ status'[r] = "pending" /\ cleanup'[r]
    <3>1. Runs!Moves(r, {"running"}, {"pending"})
      BY <2>5, <2>8
    <3>2. Runs!Retry(r)
      BY <2>4, <2>8, <3>1, OneRootChanges DEF Runs!Retry
    <3>3. QED
      BY <2>1, <3>2 DEF RunMoves, Runs!RunStep
  <2>9. CASE /\ started'[r] = started[r] /\ started[r] /\ cleanup'[r] = cleanup[r]
             /\ status[r] \in {"pending", "running"} /\ status'[r] = "cancel_requested"
    <3>1. Runs!Moves(r, {"pending", "running"}, {"cancel_requested"})
      BY <2>5, <2>9
    <3>2. Runs!Stop(r)
      BY <2>4, <2>6, <2>9, <3>1, OneRootChanges DEF Runs!Stop
    <3>3. QED
      BY <2>1, <3>2 DEF RunMoves, Runs!RunStep
  <2>10. CASE /\ started'[r] = started[r] /\ ~started[r] /\ ~cleanup'[r]
              /\ status[r] = "pending" /\ status'[r] = "cancelled"
    <3>1. Runs!Moves(r, {"pending"}, {"cancelled"})
      BY <2>5, <2>10
    <3>2. Runs!Withdraw(r)
      BY <2>4, <2>6, <2>10, <3>1, OneRootChanges DEF Runs!Withdraw
    <3>3. QED
      BY <2>1, <3>2 DEF RunMoves, Runs!RunStep
  <2>11. CASE /\ started'[r] = started[r] /\ cleanup'[r]
              /\ \/ /\ status[r] = "running"
                    /\ status'[r] \in {"completed", "interrupted", "failed"}
                 \/ status[r] = "cancel_requested" /\ status'[r] \in {"cancelled", "failed"}
    <3>1. \/ Runs!Moves(r, {"running"}, {"completed", "interrupted", "failed"})
          \/ Runs!Moves(r, {"cancel_requested"}, {"cancelled", "failed"})
      BY <2>5, <2>11
    <3>2. Runs!Finish(r)
      BY <2>4, <2>11, <3>1, OneRootChanges DEF Runs!Finish
    <3>3. QED
      BY <2>1, <3>2 DEF RunMoves, Runs!RunStep
  <2>12. CASE /\ started'[r] = started[r] /\ cleanup[r] /\ ~cleanup'[r]
              /\ status'[r] = status[r]
    <3>1. Runs!Release(r)
      BY <2>4, <2>6, <2>12, OneRootChanges DEF Runs!Release
    <3>2. QED
      BY <2>1, <3>1 DEF RunMoves, Runs!RunStep
  <2>13. CASE /\ started'[r] = started[r] /\ ~cleanup'[r]
              /\ status[r] \in Active /\ status'[r] = "failed"
    <3>1. Runs!Moves(r, Runs!Active, {"failed"})
      BY <2>5, <2>13 DEF Runs!Active
    <3>2. Runs!Migrate(r)
      BY <2>4, <2>13, <3>1, OneRootChanges DEF Runs!Migrate
    <3>3. QED
      BY <2>1, <3>2 DEF RunMoves, Runs!RunStep
  <2>14. QED
    BY <1>2, <2>1, <2>7, <2>8, <2>9, <2>10, <2>11, <2>12, <2>13 DEF RootStep, MayRelease
<1>3. QED
  BY <1>1, <1>2

\* A row of a tree that is closed stays, is told to stop, or is cancelled before anybody
\* claimed it, and then it owes nothing.
LEMMA ClosedRootStops ==
    ASSUME Inv, RootShape, NEW c \in Root,
           status'[c] = status[c] \/ (status[c] \in Active /\ status'[c] = Stopped(c)),
           UNCHANGED <<started[c], cleanup[c]>>
    PROVE  RootStep(c)
<1>1. CASE status'[c] = status[c]
  BY <1>1 DEF RootStep, RootStays
<1>2. CASE status[c] \in Active /\ status'[c] = Stopped(c) /\ NeverStarted(c)
  BY <1>2 DEF Stopped, NeverStarted, RootShape, RootStep
<1>3. CASE status[c] \in Active /\ status'[c] = Stopped(c) /\ ~NeverStarted(c)
  <2>1. started[c]
    BY <1>3 DEF NeverStarted, RootShape, Inv, AttemptMatchesOwner, Run
  <2>2. QED
    BY <1>3, <2>1 DEF Stopped, RootStep, RootStays
<1>4. QED
  BY <1>1, <1>2, <1>3

\* The terminal transaction of its owner ends one run and stops others.
LEMMA SetTerminalRoots ==
    ASSUME Inv, RootShape, NEW t \in Token, NEW q \in Run, NEW st \in Terminal,
           SetTerminal(q, t, st), UNCHANGED started,
           \/ status[q] = "running" /\ st # "cancelled"
           \/ status[q] = "cancel_requested" /\ st = "cancelled"
    PROVE  \A r \in Root : RootStep(r)
<1>1. q \notin Descendants(q)
  BY NotBelowItself DEF Inv
<1>2. status' = CloseTree([status EXCEPT ![q] = st], q) /\ st \in Status /\ TypeOK
  BY DEF SetTerminal, Inv, Status
<1>3. /\ status'[q] = st
      /\ \A c \in Run \ {q} : \/ status'[c] = status[c]
                              \/ status[c] \in Active /\ status'[c] = Stopped(c)
  BY <1>1, <1>2, ClosedTree
<1>4. /\ \A c \in Run \ {q} : cleanup'[c] = cleanup[c]
      /\ q \in Root => cleanup'[q]
  BY RunTypesDisjoint DEF SetTerminal, Inv, TypeOK, Root
<1>5. ASSUME NEW r \in Root PROVE RootStep(r)
  <2>1. CASE r = q
    BY <1>3, <1>4, <2>1 DEF RootStep
  <2>2. CASE r # q
    <3>1. r \in Run \ {q} /\ UNCHANGED <<started[r], cleanup[r]>>
      BY <1>4, <2>2 DEF Run
    <3>2. QED
      BY <1>3, <3>1, ClosedRootStops
  <2>3. QED
    BY <2>1, <2>2
<1>6. QED
  BY <1>5

\* The retry release gives one run back and stops others.
LEMMA ReleaseRoots ==
    ASSUME Inv, RootShape, NEW t \in Token, ReleaseForRetry(t)
    PROVE  \A r \in Root : RootStep(r)
<1> DEFINE q == job[t]
<1>1. q \in Run
  BY DEF ReleaseForRetry, Inv, InvocationShape, TypeOK
<1>2. CASE ~IsLeaseOwner(q, t)
  BY <1>2 DEF ReleaseForRetry, RootStep, RootStays
<1>3. CASE IsLeaseOwner(q, t)
  <2>1. /\ status' = CloseTree([status EXCEPT ![q] = "pending"], q) /\ status[q] = "running"
        /\ cleanup' = [cleanup EXCEPT ![q] = q \notin Sub] /\ UNCHANGED started
    BY <1>3 DEF ReleaseForRetry, IsLeaseOwner
  <2>2. "pending" \in Status /\ TypeOK /\ q \notin Descendants(q)
    BY <1>1, <2>1, NotBelowItself DEF Status, Inv
  <2>3. /\ status'[q] = "pending"
        /\ \A c \in Run \ {q} : \/ status'[c] = status[c]
                                \/ status[c] \in Active /\ status'[c] = Stopped(c)
    BY <1>1, <2>1, <2>2, ClosedTree
  <2>4. /\ \A c \in Run \ {q} : cleanup'[c] = cleanup[c]
        /\ q \in Root => cleanup'[q]
    BY <1>1, <2>1, RunTypesDisjoint DEF Inv, TypeOK, Root
  <2> HIDE DEF q
  <2>5. ASSUME NEW r \in Root PROVE RootStep(r)
    <3>1. CASE r = q
      BY <2>1, <2>3, <2>4, <3>1 DEF RootStep
    <3>2. CASE r # q
      <4>1. r \in Run \ {q} /\ UNCHANGED <<started[r], cleanup[r]>>
        BY <2>1, <2>4, <3>2 DEF Run
      <4>2. QED
        BY <2>3, <4>1, ClosedRootStops
    <3>3. QED
      BY <3>1, <3>2
  <2>6. QED
    BY <2>5
<1>4. QED
  BY <1>2, <1>3

\* A claim starts a run that owes nothing, or repeats what was done.
LEMMA ClaimRoots ==
    ASSUME Inv, RootShape, NEW t \in Token, Claim(t)
    PROVE  \A r \in Root : RootStep(r)
<1> DEFINE q == job[t]
<1>1. q \in Run
  BY DEF Claim, Inv, InvocationShape, TypeOK
<1>2. CASE ~MayClaim(q, t)
  BY <1>2 DEF Claim, RootStep, RootStays
<1>3. CASE MayClaim(q, t)
  <2>1. /\ UNCHANGED cleanup /\ ~cleanup[q] /\ started'[q]
        /\ status'[q] = IF status[q] = "pending" THEN "running" ELSE status[q]
        /\ \A c \in Run \ {q} : status'[c] = status[c] /\ started'[c] = started[c]
    BY <1>1, <1>3 DEF Claim, MayClaim, Inv, TypeOK
  <2>2. started[q] \in BOOLEAN /\ started'[q] = TRUE
    BY <1>1, <1>3 DEF Claim, Inv, TypeOK
  <2>3. q \in Root /\ status[q] # "pending" => started[q]
    BY <1>1, <1>3, NoneIsNoValue DEF MayClaim, OwnsLive, RootShape, Inv, AttemptMatchesOwner
  <2> HIDE DEF q
  <2>4. ASSUME NEW r \in Root PROVE RootStep(r)
    <3>1. CASE r = q /\ status[q] = "pending"
      BY <2>1, <3>1 DEF RootStep
    <3>2. CASE r = q /\ status[q] # "pending"
      <4>1. started'[r] = started[r]
        BY <2>2, <2>3, <3>2
      <4>2. QED
        BY <2>1, <3>2, <4>1 DEF RootStep, RootStays
    <3>3. CASE r # q
      BY <2>1, <3>3 DEF RootStep, RootStays, Run
    <3>4. QED
      BY <3>1, <3>2, <3>3
  <2>5. QED
    BY <2>4
<1>4. QED
  BY <1>2, <1>3

\* What an invocation does to a chat or resume run is one action of the contract, or none.
LEMMA InvocationRoots ==
    ASSUME Inv, RootShape, NEW t \in Token, Invocation(t)
    PROVE  \A r \in Root : RootStep(r)
<1>0. pc[t] # "idle" => job[t] \in Run
  BY DEF Inv, InvocationShape, TypeOK
<1>1. ASSUME UNCHANGED <<status, started, cleanup>> PROVE \A r \in Root : RootStep(r)
  BY <1>1 DEF RootStep, RootStays
<1>2. CASE \/ Prepare(t) \/ ConfirmCancel(t) \/ UseRuntime(t) \/ SavePartialOutput(t)
           \/ \E label \in {"cancelled", "retry", "failing"} : Raise(t, label)
           \/ \E running \in BOOLEAN : WriteAudit(t, running)
  BY <1>1, <1>2 DEF Prepare, ConfirmCancel, UseRuntime, SavePartialOutput, Raise, WriteAudit,
                    rowVars
<1>3. ASSUME NEW ok, NEW error, RequireCleanup(t, ok, error) PROVE \A r \in Root : RootStep(r)
  <2>1. /\ UNCHANGED <<status, started>>
        /\ \A c \in Run : cleanup'[c] = cleanup[c] \/ (MayRelease(c) /\ ~cleanup'[c])
    BY <1>3 DEF RequireCleanup, ReleaseRuntime, KeepRuntime, Inv, TypeOK
  <2>2. QED
    BY <2>1 DEF RootStep, RootStays, Run
<1>4. CASE CleanupBeforeClaim(t) \/ Settle(t) \/ CleanTerminal(t)
  BY <1>3, <1>4 DEF CleanupBeforeClaim, Settle, CleanTerminal
<1>5. ASSUME NEW st \in {"completed", "interrupted"}, NEW bound, SaveAndEnd(t, st, bound)
      PROVE  \A r \in Root : RootStep(r)
  BY <1>0, <1>1, <1>5, SetTerminalRoots DEF SaveAndEnd, IsLeaseOwner
<1>6. ASSUME NEW st \in Terminal, MarkTerminal(t, st), pc[t] # "idle"
      PROVE  \A r \in Root : RootStep(r)
  BY <1>0, <1>1, <1>6, SetTerminalRoots DEF MarkTerminal, MaySetTerminal
<1>7. CASE \/ FinishUserCancel(t) \/ Fail(t)
           \/ \E st \in {"completed", "interrupted", "cancelled"} : EndStream(t, st)
  BY <1>6, <1>7 DEF FinishUserCancel, Fail, EndStream
<1>8. ASSUME NEW from, NEW to, FinishChildren(t, from, to) PROVE \A r \in Root : RootStep(r)
  <2>1. status \in [Run -> Status] /\ UNCHANGED <<started, cleanup>>
    BY <1>8 DEF FinishChildren, Inv, TypeOK, Status
  <2>2. \A c \in Run : \/ status'[c] = status[c]
                       \/ status[c] \in Active /\ status'[c] = Stopped(c)
    BY <1>8, <2>1, CloseTreeEffect DEF FinishChildren
  <2>3. QED
    BY <2>1, <2>2, ClosedRootStops DEF Run
<1>9. CASE Finally(t) \/ RecloseTree(t)
  BY <1>8, <1>9 DEF Finally, RecloseTree
<1>10. QED
  BY <1>2, <1>4, <1>5, <1>7, <1>9, ClaimRoots, ReleaseRoots DEF Invocation

\* So is what users, the reconciler and the storage migration do.
LEMMA OutsideRoots ==
    ASSUME Inv, RootShape,
           \/ \E q \in Run : RequestCancel(q)
           \/ \E S \in SUBSET Run : ReconcileLeases(S)
           \/ \E q \in Root : ReconcileCleanup(q)
           \/ StorageMigration
    PROVE  \A r \in Root : RootStep(r)
<1>1. ASSUME NEW q \in Run, RequestCancel(q), NEW r \in Root PROVE RootStep(r)
  <2>1. CancelLocked(q) \in [Run -> Status] /\ r \in Run
    BY DEF CancelLocked, Stopped, Inv, TypeOK, Status, Run
  <2>2. \A c \in Run : \/ CancelLocked(q)[c] = status[c]
                       \/ status[c] \in Active /\ CancelLocked(q)[c] = Stopped(c)
    BY DEF CancelLocked, Inv, TypeOK
  <2>3. status'[r] = status[r] \/ (status[r] \in Active /\ status'[r] = Stopped(r))
    BY <1>1, <2>1, <2>2, CloseTreeEffect DEF RequestCancel
  <2>4. cleanup'[r] = cleanup[r]
    <3>1. NeverStarted(q) /\ q \in Root => cleanup[q] = FALSE
      BY DEF NeverStarted, RootShape, Inv, TypeOK
    <3>2. QED
      BY <1>1, <2>1, <3>1 DEF RequestCancel, Inv, TypeOK
  <2>5. UNCHANGED started
    BY <1>1 DEF RequestCancel
  <2>6. QED
    BY <2>3, <2>4, <2>5, ClosedRootStops
<1>2. ASSUME NEW S \in SUBSET Run, ReconcileLeases(S), NEW r \in Root PROVE RootStep(r)
  <2>1. CASE r \in S
    <3>1. status[r] \in Leased /\ status'[r] = "failed" /\ cleanup'[r] /\ UNCHANGED started
      BY <1>2, <2>1, RunTypesDisjoint DEF ReconcileLeases, Orphaned, Root
    <3>2. QED
      BY <3>1 DEF RootStep
  <2>2. CASE r \notin S
    <3>1. r \in UNION {Descendants(q) : q \in S} => status[r] \in Active
      BY DEF Descendants
    <3>2. /\ status'[r] = status[r] \/ (status[r] \in Active /\ status'[r] = Stopped(r))
          /\ UNCHANGED <<started[r], cleanup[r]>>
      BY <1>2, <2>2, <3>1 DEF ReconcileLeases, Run
    <3>3. QED
      BY <3>2, ClosedRootStops
  <2>3. QED
    BY <2>1, <2>2
<1>3. ASSUME NEW q \in Root, ReconcileCleanup(q), NEW r \in Root PROVE RootStep(r)
  BY <1>3 DEF ReconcileCleanup, ReleaseRuntime, RootStep, RootStays, Inv, TypeOK, Run
<1>4. ASSUME StorageMigration, NEW r \in Root PROVE RootStep(r)
  BY <1>4 DEF StorageMigration, RootStep, RootStays, Run
<1>5. QED
  BY <1>1, <1>2, <1>3, <1>4

\* A step that adds no run does one thing to every chat or resume run.
LEMMA RootsStep ==
    Inv /\ RootShape /\ [Next]_vars => Creation \/ \A r \in Root : RootStep(r)
<1> SUFFICES ASSUME Inv, RootShape, [Next]_vars PROVE Creation \/ \A r \in Root : RootStep(r)
  OBVIOUS
<1>1. CASE \/ \E t \in Token, r \in Run : Deliver(t, r)
           \/ \E t \in Token : Heartbeat(t) \/ LoseLease(t) \/ Crash(t)
           \/ Tick
           \/ UNCHANGED vars
  <2>1. UNCHANGED <<status, started, cleanup>>
    BY <1>1 DEF Deliver, Heartbeat, LoseLease, Crash, Tick, rowVars, vars
  <2>2. QED
    BY <2>1 DEF RootStep, RootStays
<1>2. QED
  BY <1>1, InvocationRoots, OutsideRoots DEF Next, Creation

\* Every step keeps RootShape.
LEMMA RootShapeStep == Inv /\ RootShape /\ [Next]_vars => RootShape'
<1> SUFFICES ASSUME Inv, RootShape, [Next]_vars PROVE RootShape'
  OBVIOUS
<1>1. CASE \A r \in Root : RootStep(r)
  <2>1. \A r \in Root : status[r] = "running" => started[r]
    BY NoneIsNoValue DEF Inv, AttemptMatchesOwner, Run
  <2>2. QED
    BY <1>1, <2>1 DEF RootStep, RootStays, RootShape
<1>2. CASE Creation
  <2>1. ASSUME NEW c, NEW by, CreateRow(c, by) PROVE RootShape'
    BY <2>1 DEF CreateRow, RootShape, Inv, TypeOK, Run
  <2>2. QED
    BY <1>2, <2>1 DEF Creation, CreateChat, CreateResume, StartSubagent
<1>3. QED
  BY <1>1, <1>2, RootsStep

\* A chat or resume run is added to the thread; a subagent is none of its business.
LEMMA CreationAdds ==
    ASSUME Inv, Creation
    PROVE  RunMoves \/ UNCHANGED Runs!runs
<1>1. ASSUME NEW r \in Root, NEW by, CreateRow(r, by), ~ThreadBusy, latest' = r,
             r \in Resume => latest # None /\ status[latest] = "interrupted"
      PROVE  RunMoves
  <2>1. r \in Runs!Run /\ ~Runs!Occupied
    BY <1>1 DEF Root, Runs!Run, Runs!Occupied, Runs!Active, ThreadBusy
  <2>2. latest # None => latest \in Root
    BY DEF Inv, TypeOK
  <2>3. r \in Resume => Runs!Waits
    BY <1>1, <2>2 DEF Runs!Waits
  <2>4. [x \in Root |-> status[x]]' = [[x \in Root |-> status[x]] EXCEPT ![r] = "pending"]
    BY <1>1 DEF CreateRow, Inv, TypeOK, Run
  <2>5. Runs!Add(r)
    BY <1>1, <2>1, <2>3, <2>4 DEF CreateRow, Runs!Add
  <2>6. QED
    BY <2>1, <2>5 DEF RunMoves, Runs!RunStep
<1>2. ASSUME NEW r \in Chat, CreateChat(r) PROVE RunMoves
  BY <1>1, <1>2, RunTypesDisjoint DEF CreateChat, Root
<1>3. ASSUME NEW r \in Resume, CreateResume(r) PROVE RunMoves
  BY <1>1, <1>3 DEF CreateResume, Root
<1>4. ASSUME NEW t \in Token, NEW c \in Sub, StartSubagent(t, c) PROVE UNCHANGED Runs!runs
  <2>1. \A r \in Root : status'[r] = status[r]
    BY <1>4, RunTypesDisjoint DEF StartSubagent, CreateRow, Inv, TypeOK, Root
  <2>2. UNCHANGED <<started, cleanup, latest>>
    BY <1>4 DEF StartSubagent, CreateRow
  <2>3. QED
    BY <2>1, <2>2 DEF Runs!runs
<1>5. QED
  BY <1>2, <1>3, <1>4 DEF Creation

\* The chat and resume runs of a thread keep the contract on which its request queue is
\* built: seen through status, started_at and runtime_cleanup_pending, every behaviour of
\* the workers, the reconcilers and the users is a behaviour of ThreadRuns.
THEOREM ThreadRunsCorrect == Spec => ImplementsThreadRuns
<1>1. Init => Inv /\ CleanupFence /\ RootShape /\ Runs!Init
  <2>1. Init => TypeOK
    BY InitType
  <2>2. Init => InvocationShape /\ AttemptMatchesOwner
    BY NoneIsNoValue DEF Init, InvocationShape, AttemptMatchesOwner
  <2>3. Init => TreeShape /\ QuietStart /\ CleanupFence /\ RootShape
    BY DEF Init, TreeShape, QuietStart, CleanupFence, RootShape, Root, Run
  <2>4. Init => Runs!Init
    BY DEF Init, Runs!Init, Runs!Run, Root, Run
  <2>5. QED
    BY <2>1, <2>2, <2>3, <2>4 DEF Inv
<1>2. Inv /\ CleanupFence /\ RootShape /\ [Next]_vars => Inv' /\ CleanupFence' /\ RootShape'
  BY TypeStep, ShapeStep, OwnerStep, TreeStep, QuietStep, FenceStep, RootShapeStep DEF Inv
<1>3. Inv /\ CleanupFence /\ RootShape /\ [Next]_vars => [Runs!Next]_(Runs!vars)
  <2> SUFFICES ASSUME Inv, CleanupFence, RootShape, [Next]_vars
               PROVE  Runs!Next
    OBVIOUS
  <2>1. TypeOK /\ TypeOK'
    BY TypeStep DEF Inv
  <2>2. ASSUME Creation PROVE RunMoves \/ UNCHANGED Runs!runs
    BY <2>2, CreationAdds
  <2>3. ASSUME ~Creation, \A r \in Root : RootStep(r) PROVE RunMoves \/ UNCHANGED Runs!runs
    BY <2>1, <2>3, CreatorStays, RootsMakeThread
  <2>4. RunMoves \/ UNCHANGED Runs!runs
    BY <2>2, <2>3, RootsStep
  <2>5. Runs!Look
    BY DEF Runs!Look
  <2>6. QED
    BY <2>4, <2>5 DEF Runs!Next, RunMoves
<1>4. QED
  BY <1>1, <1>2, <1>3, PTL DEF Spec, ImplementsThreadRuns, Runs!Spec

-----------------------------------------------------------------------------
(* Subagents keep their thread busy.                                       *)

\* The run that started a subagent was claimed (auxiliary).
SubagentShape == \A c \in Sub : status[c] # "absent" => started[creator[c]]

\* Only an executing run starts subagents, and no run forgets that it was claimed.
LEMMA SubagentShapeStep ==
    Inv /\ RootShape /\ SubagentShape /\ [Next]_vars => SubagentShape'
<1> SUFFICES ASSUME Inv, RootShape, SubagentShape, [Next]_vars PROVE SubagentShape'
  OBVIOUS
<1>1. CASE ~Creation
  <2>1. InactiveStays /\ UNCHANGED creator /\ \A r \in Root : RootStep(r)
    BY <1>1, InactiveStep, CreatorStays, RootsStep DEF Inv
  <2>2. \A r \in Root : started[r] => started'[r]
    BY <2>1 DEF RootStep, RootStays
  <2>3. \A c \in Sub : status'[c] # "absent" => status[c] # "absent" /\ creator[c] \in Root
    BY <2>1 DEF InactiveStays, Run, Inv, TreeShape
  <2>4. QED
    BY <2>1, <2>2, <2>3 DEF SubagentShape
<1>2. ASSUME NEW r \in Run, NEW by, CreateRow(r, by), r \in Sub => started[by] PROVE SubagentShape'
  BY <1>2 DEF CreateRow, SubagentShape, Inv, TypeOK
<1>3. ASSUME NEW r \in Root, CreateChat(r) \/ CreateResume(r) PROVE SubagentShape'
  BY <1>2, <1>3, RunTypesDisjoint DEF CreateChat, CreateResume, Root, Run
<1>4. ASSUME NEW t \in Token, NEW c \in Sub, StartSubagent(t, c) PROVE SubagentShape'
  <2>1. job[t] \in Run /\ started[job[t]]
    BY <1>4, NoneIsNoValue DEF StartSubagent, Inv, InvocationShape, AttemptMatchesOwner, TypeOK
  <2>2. QED
    BY <1>2, <1>4, <2>1 DEF StartSubagent, Run
<1>5. QED
  BY <1>1, <1>3, <1>4 DEF Creation, Root

\* The run that started an active subagent is active or still owes its cleanup: it was
\* claimed, so it cannot vanish, and its runtime is not released under the subagent.
LEMMA HoldStep ==
    Inv /\ RootShape /\ SubagentShape /\ SubagentsHoldThread /\ [Next]_vars =>
        SubagentsHoldThread'
<1> SUFFICES ASSUME Inv, RootShape, SubagentShape, SubagentsHoldThread, [Next]_vars
             PROVE  SubagentsHoldThread'
  OBVIOUS
<1>1. CASE StorageMigration
  BY <1>1 DEF StorageMigration, SubagentsHoldThread, Run
<1>2. CASE ~Creation /\ ~StorageMigration
  <2>1. InactiveStays /\ UNCHANGED creator /\ \A r \in Root : RootStep(r)
    BY <1>2, InactiveStep, CreatorStays, RootsStep DEF Inv
  <2>2. ASSUME NEW c \in Sub, status'[c] \in Active
        PROVE  status'[creator[c]] \in Active \/ cleanup'[creator[c]]
    <3> DEFINE p == creator[c]
    <3>1. status[c] \in Active /\ c \in Run
      BY <2>1, <2>2 DEF InactiveStays, Run
    <3>2. p \in Root /\ started[p] /\ c # p
      BY <3>1, RunTypesDisjoint DEF SubagentShape, Inv, TreeShape, Root
    <3>3. status[p] \in Active \/ cleanup[p]
      BY <3>1 DEF SubagentsHoldThread
    <3>4. ~MayRelease(p)
      BY <3>1, <3>2 DEF MayRelease
    <3>5. RootStep(p)
      BY <2>1, <3>2
    <3> HIDE DEF p
    <3>6. status'[p] \in Active \/ cleanup'[p]
      BY <1>2, <3>2, <3>3, <3>4, <3>5 DEF RootStep, RootStays
    <3>7. QED
      BY <3>6 DEF p
  <2>3. QED
    BY <2>1, <2>2 DEF SubagentsHoldThread
<1>3. ASSUME NEW r \in Run, NEW by \in Run \cup {None}, CreateRow(r, by),
             r \in Sub => by \in Root /\ status[by] = "running"
      PROVE  SubagentsHoldThread'
  <2>1. \A c \in Run : /\ status'[c] = IF c = r THEN "pending" ELSE status[c]
                       /\ creator'[c] = IF c = r THEN by ELSE creator[c]
                       /\ cleanup'[c] = cleanup[c]
    BY <1>3 DEF CreateRow, Inv, TypeOK
  <2>2. \A c \in Sub : status[c] \in Active => creator[c] \in Root
    BY DEF Inv, TreeShape
  <2>3. QED
    BY <1>3, <2>1, <2>2 DEF SubagentsHoldThread, Run
<1>4. ASSUME NEW r \in Root, CreateChat(r) \/ CreateResume(r) PROVE SubagentsHoldThread'
  BY <1>3, <1>4, RunTypesDisjoint DEF CreateChat, CreateResume, Root, Run, Inv, TypeOK
<1>5. ASSUME NEW t \in Token, NEW c \in Sub, StartSubagent(t, c) PROVE SubagentsHoldThread'
  <2>1. job[t] \in Root
    BY <1>5 DEF StartSubagent, Inv, InvocationShape, TypeOK, Root, Run
  <2>2. QED
    BY <1>3, <1>5, <2>1 DEF StartSubagent, Run
<1>6. QED
  BY <1>1, <1>2, <1>4, <1>5 DEF Creation, Root

\* The execution tree is closed: a subagent only works below a running run, and as long as
\* one is not confirmed, the run that started it keeps the next one of the thread out.
THEOREM ExecutionTreeClosedCorrect == Spec => []ExecutionTreeClosed
<1>1. Init => Inv /\ RootShape /\ SubagentShape /\ SubagentsHoldThread
  <2>1. Init => TypeOK
    BY InitType
  <2>2. Init => InvocationShape /\ AttemptMatchesOwner
    BY NoneIsNoValue DEF Init, InvocationShape, AttemptMatchesOwner
  <2>3. Init => TreeShape /\ QuietStart /\ RootShape /\ SubagentShape /\ SubagentsHoldThread
    BY DEF Init, TreeShape, QuietStart, RootShape, SubagentShape, SubagentsHoldThread, Root, Run
  <2>4. QED
    BY <2>1, <2>2, <2>3 DEF Inv
<1>2. Inv /\ [Next]_vars => Inv'
  BY TypeStep, ShapeStep, OwnerStep, TreeStep, QuietStep DEF Inv
<1>3. SubagentsStop /\ SubagentsHoldThread => ExecutionTreeClosed
  BY DEF ExecutionTreeClosed
<1>4. QED
  BY <1>1, <1>2, <1>3, SubagentsStopCorrect, RootShapeStep, SubagentShapeStep, HoldStep, PTL
     DEF Spec
=============================================================================
