--------------------------- MODULE AgentRunProofs ---------------------------
(* Proofs about AgentRun, for every set of runs, tokens and every lease.   *)
EXTENDS AgentRun, TLAPS

USE DEF Terminal, Leased, Active

\* What the status columns may hold.
Status == {"absent"} \cup Active \cup Terminal

\* Closing a tree keeps the rows well typed, leaves every row outside the tree
\* alone, and only stops rows that were active.
LEMMA CloseTreeEffect ==
    ASSUME NEW st \in [Run -> Status], NEW r
    PROVE  /\ CloseTree(st, r) \in [Run -> Status]
           /\ Descendants(r) \subseteq Run
           /\ \A c \in Descendants(r) : status[c] \in Active
           /\ \A c \in Run : CloseTree(st, r)[c] = IF c \in Descendants(r) THEN Stopped(c) ELSE st[c]
<1>1. \A c : Stopped(c) \in Status
  BY DEF Stopped, Status
<1>2. CloseTree(st, r) \in [Run -> Status]
  BY <1>1 DEF CloseTree
<1>3. Descendants(r) \subseteq Run /\ \A c \in Descendants(r) : status[c] \in Active
  BY DEF Descendants
<1>4. QED
  BY <1>2, <1>3 DEF CloseTree

\* The terminal transaction is well typed.
LEMMA SetTerminalType ==
    ASSUME TypeOK, NEW t \in Token, NEW r, NEW st \in Terminal, SetTerminal(r, t, st)
    PROVE  /\ status'  \in [Run -> Status]
           /\ worker'  \in [Run -> Token \cup {None}]
           /\ lease'   \in [Run -> 0..LeaseTicks]
           /\ cleanup' \in [Run -> BOOLEAN]
           /\ audit'   \in [Run -> BOOLEAN]
           /\ outcome' \in [Token -> Outcome]
<1>1. [status EXCEPT ![r] = st] \in [Run -> Status]
  BY DEF TypeOK, Status
<1>2. status' \in [Run -> Status]
  BY <1>1, CloseTreeEffect DEF SetTerminal
<1>3. lease' \in [Run -> 0..LeaseTicks]
  <2>1. 0 \in 0..LeaseTicks
    BY LeaseIsPositive
  <2>2. QED
    BY <2>1 DEF TypeOK, SetTerminal
<1>4. (r \notin Sub) \in BOOLEAN /\ worker' \in [Run -> Token \cup {None}]
  BY DEF TypeOK, SetTerminal
<1>5. cleanup' \in [Run -> BOOLEAN] /\ audit' \in [Run -> BOOLEAN]
  BY <1>4 DEF TypeOK, SetTerminal
<1>6. outcome' \in [Token -> Outcome]
  BY DEF TypeOK, SetTerminal, Outcome
<1>7. QED
  BY <1>2, <1>3, <1>4, <1>5, <1>6

\* A jump keeps the program counters well typed.
LEMMA GotoType ==
    ASSUME TypeOK, NEW t \in Token, NEW label \in PC, Goto(t, label)
    PROVE  pc' \in [Token -> PC]
BY DEF TypeOK, Goto

\* Initially every variable has its type.
LEMMA InitType == Init => TypeOK
BY LeaseIsPositive DEF Init, TypeOK, Outcome, PC, Root, Run

\* Creating a row, of whatever kind, keeps the types.
LEMMA CreateType ==
    ASSUME TypeOK,
           \/ \E r \in Chat : CreateChat(r)
           \/ \E r \in Resume : CreateResume(r)
           \/ \E t \in Token, c \in Sub : StartSubagent(t, c)
    PROVE  TypeOK'
<1>1. ASSUME NEW r \in Run, NEW by \in Run \cup {None}, CreateRow(r, by),
             latest' \in Root \cup {None}
      PROVE  TypeOK'
  BY <1>1 DEF TypeOK, CreateRow
<1>2. ASSUME NEW r \in Chat, CreateChat(r) PROVE TypeOK'
  BY <1>1, <1>2 DEF CreateChat, Root, Run
<1>3. ASSUME NEW r \in Resume, CreateResume(r) PROVE TypeOK'
  BY <1>1, <1>3 DEF CreateResume, Root, Run, TypeOK
<1>4. ASSUME NEW t \in Token, NEW c \in Sub, StartSubagent(t, c) PROVE TypeOK'
  BY <1>1, <1>4 DEF StartSubagent, Root, Run, TypeOK
<1>5. QED
  BY <1>2, <1>3, <1>4

\* A cancel request keeps the types.
LEMMA RequestCancelType ==
    ASSUME TypeOK, NEW r \in Run, RequestCancel(r)
    PROVE  TypeOK'
<1>1. Stopped(r) \in Status
  BY DEF Stopped, Status
<1>2. CancelLocked(r) \in [Run -> Status]
  BY <1>1 DEF CancelLocked, TypeOK, Status
<1>3. status' \in [Run -> Status]
  BY <1>2, CloseTreeEffect DEF RequestCancel
<1>4. cleanup' \in [Run -> BOOLEAN] /\ asked' \in SUBSET Root
  BY DEF RequestCancel, TypeOK
<1>5. QED
  BY <1>3, <1>4 DEF RequestCancel, TypeOK, Status

\* The runtime is released, or not, and the types stay.
LEMMA RequireCleanupType ==
    ASSUME TypeOK, NEW t \in Token, NEW ok \in PC, NEW error \in PC,
           RequireCleanup(t, ok, error)
    PROVE  TypeOK'
<1>1. ASSUME NEW r, ReleaseRuntime(r)
      PROVE  cleanup' \in [Run -> BOOLEAN] /\ sandbox' \in [Token -> {"none", "held", "gone"}]
  BY <1>1 DEF ReleaseRuntime, TypeOK
<1>2. cleanup' \in [Run -> BOOLEAN] /\ sandbox' \in [Token -> {"none", "held", "gone"}]
  BY <1>1 DEF RequireCleanup, KeepRuntime, TypeOK
<1>3. pc' \in [Token -> PC]
  BY GotoType DEF RequireCleanup
<1>4. QED
  BY <1>2, <1>3 DEF RequireCleanup, TypeOK

\* The claim keeps the types.
LEMMA ClaimType ==
    ASSUME TypeOK, NEW t \in Token, Claim(t)
    PROVE  TypeOK'
<1>1. CASE MayClaim(job[t], t)
  <2>1. status' \in [Run -> Status]
    BY <1>1 DEF Claim, TypeOK, Status
  <2>2. worker' \in [Run -> Token \cup {None}]
    BY <1>1 DEF Claim, TypeOK
  <2>3. lease' \in [Run -> 0..LeaseTicks]
    BY <1>1, LeaseIsPositive DEF Claim, TypeOK
  <2>4. started' \in [Run -> BOOLEAN]
    BY <1>1 DEF Claim, TypeOK
  <2>5. outcome' \in [Token -> Outcome]
    BY <1>1 DEF Claim, TypeOK, FinishAttempts, Outcome
  <2>6. pc' \in [Token -> PC]
    BY <1>1 DEF Claim, TypeOK, Goto, PC
  <2>7. QED
    BY <2>1, <2>2, <2>3, <2>4, <2>5, <2>6 DEF Claim, TypeOK, Status
<1>2. CASE ~MayClaim(job[t], t)
  BY <1>2 DEF Claim, TypeOK, Goto, PC
<1>3. QED
  BY <1>1, <1>2

\* The fenced writes and the actions that touch no row keep the types.
LEMMA WriteType ==
    ASSUME TypeOK, NEW t \in Token
    PROVE  /\ \A running \in BOOLEAN : WriteAudit(t, running) => TypeOK'
           /\ SavePartialOutput(t) => TypeOK'
           /\ UseRuntime(t) => TypeOK'
           /\ Heartbeat(t) => TypeOK'
           /\ \A r \in Run : Deliver(t, r) => TypeOK'
           /\ Prepare(t) => TypeOK'
           /\ \A label : Raise(t, label) => TypeOK'
           /\ ConfirmCancel(t) => TypeOK'
           /\ LoseLease(t) => TypeOK'
           /\ Crash(t) => TypeOK'
<1>1. \A running \in BOOLEAN : WriteAudit(t, running) => TypeOK'
  BY DEF WriteAudit, TypeOK
<1>2. SavePartialOutput(t) => TypeOK'
  BY DEF SavePartialOutput, TypeOK
<1>3. UseRuntime(t) => TypeOK'
  BY DEF UseRuntime, TypeOK, rowVars
<1>4. Heartbeat(t) => TypeOK'
  <2>1. LeaseTicks \in 0..LeaseTicks
    BY LeaseIsPositive
  <2>2. QED
    BY <2>1 DEF Heartbeat, TypeOK
<1>5. \A r \in Run : Deliver(t, r) => TypeOK'
  BY DEF Deliver, TypeOK, rowVars, Goto, PC
<1>6. Prepare(t) => TypeOK'
  BY DEF Prepare, TypeOK, rowVars, Goto, PC
<1>7. \A label : Raise(t, label) => TypeOK'
  BY DEF Raise, TypeOK, rowVars, Goto, PC
<1>8. ConfirmCancel(t) => TypeOK'
  BY DEF ConfirmCancel, TypeOK, rowVars, Goto, PC
<1>9. LoseLease(t) => TypeOK'
  BY DEF LoseLease, TypeOK, rowVars, Goto, PC
<1>10. Crash(t) => TypeOK'
  BY DEF Crash, TypeOK, rowVars, Goto, PC
<1>11. QED
  BY <1>1, <1>2, <1>3, <1>4, <1>5, <1>6, <1>7, <1>8, <1>9, <1>10

\* The terminal transactions keep the types.
LEMMA EndType ==
    ASSUME TypeOK, NEW t \in Token
    PROVE  /\ \A st \in {"completed", "interrupted"}, bound \in BOOLEAN :
                    SaveAndEnd(t, st, bound) => TypeOK'
           /\ \A st \in {"completed", "interrupted", "cancelled"} : EndStream(t, st) => TypeOK'
           /\ FinishUserCancel(t) => TypeOK'
           /\ Fail(t) => TypeOK'
<1>1. ASSUME NEW st \in Terminal, MarkTerminal(t, st), pc' \in [Token -> PC] PROVE TypeOK'
  <2>1. CASE SetTerminal(job[t], t, st)
    BY <1>1, <2>1, SetTerminalType DEF MarkTerminal, TypeOK, Status
  <2>2. CASE UNCHANGED <<status, worker, lease, cleanup, audit, outcome>>
    BY <1>1, <2>2 DEF MarkTerminal, TypeOK
  <2>3. QED
    BY <1>1, <2>1, <2>2 DEF MarkTerminal
<1>2. \A label \in PC : Goto(t, label) => pc' \in [Token -> PC]
  BY GotoType
<1>3. ASSUME NEW st \in {"completed", "interrupted"}, NEW bound \in BOOLEAN,
             SaveAndEnd(t, st, bound)
      PROVE  TypeOK'
  <2>1. pc' \in [Token -> PC]
    BY <1>2, <1>3 DEF SaveAndEnd, PC
  <2>2. CASE UNCHANGED <<status, worker, lease, cleanup, output, audit, outcome>>
    BY <1>3, <2>1, <2>2 DEF SaveAndEnd, TypeOK
  <2>3. CASE /\ output' = [output EXCEPT ![job[t]] = @ \/ bound]
             /\ SetTerminal(job[t], t, st)
    <3>1. output' \in [Run -> BOOLEAN]
      BY <2>3 DEF TypeOK
    <3>2. QED
      BY <1>3, <2>1, <2>3, <3>1, SetTerminalType DEF SaveAndEnd, TypeOK, Status
  <2>4. QED
    BY <1>3, <2>2, <2>3 DEF SaveAndEnd
<1>4. ASSUME NEW st \in {"completed", "interrupted", "cancelled"}, EndStream(t, st)
      PROVE  TypeOK'
  BY <1>1, <1>2, <1>4 DEF EndStream, PC
<1>5. FinishUserCancel(t) => TypeOK'
  BY <1>1, <1>2 DEF FinishUserCancel, PC
<1>6. Fail(t) => TypeOK'
  BY <1>1, <1>2 DEF Fail, PC
<1>7. QED
  BY <1>3, <1>4, <1>5, <1>6

\* The retry release and the closing of the tree in the finally block.
LEMMA ReleaseType ==
    ASSUME TypeOK, NEW t \in Token
    PROVE  /\ ReleaseForRetry(t) => TypeOK'
           /\ \A from, to \in PC : FinishChildren(t, from, to) => TypeOK'
<1>1. ASSUME ReleaseForRetry(t) PROVE TypeOK'
  <2>1. pc' \in [Token -> PC]
    BY <1>1 DEF ReleaseForRetry, Goto, PC, TypeOK
  <2>2. CASE IsLeaseOwner(job[t], t)
    <3>1. [status EXCEPT ![job[t]] = "pending"] \in [Run -> Status]
      BY DEF TypeOK, Status
    <3>2. CloseTree([status EXCEPT ![job[t]] = "pending"], job[t]) \in [Run -> Status]
      BY <3>1, CloseTreeEffect
    <3>3. status' \in [Run -> Status]
      BY <1>1, <2>2, <3>2 DEF ReleaseForRetry
    <3>4. worker' \in [Run -> Token \cup {None}] /\ lease' \in [Run -> 0..LeaseTicks]
      BY <1>1, <2>2, LeaseIsPositive DEF ReleaseForRetry, TypeOK
    <3>5. (job[t] \notin Sub) \in BOOLEAN
      OBVIOUS
    <3>6. cleanup' \in [Run -> BOOLEAN]
      BY <1>1, <2>2, <3>5 DEF ReleaseForRetry, TypeOK
    <3>7. outcome' \in [Token -> Outcome]
      BY <1>1, <2>2 DEF ReleaseForRetry, TypeOK, Outcome
    <3>8. QED
      BY <1>1, <2>1, <3>3, <3>4, <3>6, <3>7 DEF ReleaseForRetry, TypeOK, Status
  <2>3. CASE ~IsLeaseOwner(job[t], t)
    BY <1>1, <2>1, <2>3 DEF ReleaseForRetry, TypeOK
  <2>4. QED
    BY <2>2, <2>3
<1>2. ASSUME NEW from \in PC, NEW to \in PC, FinishChildren(t, from, to) PROVE TypeOK'
  <2>1. pc' \in [Token -> PC]
    BY <1>2, GotoType DEF FinishChildren
  <2>2. status \in [Run -> Status]
    BY DEF TypeOK, Status
  <2>3. CloseTree(status, job[t]) \in [Run -> Status]
    BY <2>2, CloseTreeEffect
  <2>4. QED
    BY <1>2, <2>1, <2>2, <2>3 DEF FinishChildren, TypeOK, Status
<1>3. QED
  BY <1>1, <1>2

\* The passing of time, the reconciler and the storage migration.
LEMMA ReconcileType ==
    ASSUME TypeOK
    PROVE  /\ Tick => TypeOK'
           /\ \A S \in SUBSET Run : ReconcileLeases(S) => TypeOK'
           /\ \A r \in Root : ReconcileCleanup(r) => TypeOK'
           /\ StorageMigration => TypeOK'
<1>1. Tick => TypeOK'
  BY LeaseIsPositive DEF Tick, TypeOK
<1>2. ASSUME NEW S \in SUBSET Run, ReconcileLeases(S) PROVE TypeOK'
  <2>1. \A c : Stopped(c) \in Status
    BY DEF Stopped, Status
  <2>2. status' \in [Run -> Status]
    BY <1>2, <2>1 DEF ReconcileLeases, TypeOK, Status
  <2>3. worker' \in [Run -> Token \cup {None}]
    BY <1>2 DEF ReconcileLeases, TypeOK
  <2>4. lease' \in [Run -> 0..LeaseTicks]
    BY <1>2, LeaseIsPositive DEF ReconcileLeases, TypeOK
  <2>5. cleanup' \in [Run -> BOOLEAN] /\ audit' \in [Run -> BOOLEAN]
    BY <1>2 DEF ReconcileLeases, TypeOK
  <2>6. outcome' \in [Token -> Outcome]
    BY <1>2 DEF ReconcileLeases, TypeOK, Outcome
  <2>7. QED
    BY <1>2, <2>2, <2>3, <2>4, <2>5, <2>6 DEF ReconcileLeases, TypeOK, Status
<1>3. ASSUME NEW r \in Root, ReconcileCleanup(r) PROVE TypeOK'
  BY <1>3 DEF ReconcileCleanup, ReleaseRuntime, TypeOK
<1>4. ASSUME StorageMigration PROVE TypeOK'
  <2>1. status' \in [Run -> Status]
    BY <1>4 DEF StorageMigration, TypeOK, Status
  <2>2. worker' \in [Run -> Token \cup {None}]
    BY <1>4 DEF StorageMigration, TypeOK
  <2>3. lease' \in [Run -> 0..LeaseTicks]
    BY <1>4, LeaseIsPositive DEF StorageMigration, TypeOK
  <2>4. cleanup' \in [Run -> BOOLEAN] /\ audit' \in [Run -> BOOLEAN]
    BY <1>4 DEF StorageMigration, TypeOK
  <2>5. outcome' \in [Token -> Outcome]
    BY <1>4 DEF StorageMigration, TypeOK, Outcome
  <2>6. QED
    BY <1>4, <2>1, <2>2, <2>3, <2>4, <2>5 DEF StorageMigration, TypeOK, Status
<1>5. QED
  BY <1>1, <1>2, <1>3, <1>4

\* Every step keeps the types.
LEMMA TypeStep == TypeOK /\ [Next]_vars => TypeOK'
<1>1. ASSUME TypeOK, NEW t \in Token, Invocation(t) PROVE TypeOK'
  <2>1. CASE CleanupBeforeClaim(t) \/ Settle(t) \/ CleanTerminal(t)
    BY <1>1, <2>1, RequireCleanupType DEF CleanupBeforeClaim, Settle, CleanTerminal, PC
  <2>2. CASE Claim(t)
    BY <1>1, <2>2, ClaimType
  <2>3. CASE Finally(t) \/ RecloseTree(t) \/ ReleaseForRetry(t)
    BY <1>1, <2>3, ReleaseType DEF Finally, RecloseTree, PC
  <2>4. CASE \/ \E running \in BOOLEAN : WriteAudit(t, running)
             \/ SavePartialOutput(t) \/ UseRuntime(t) \/ Prepare(t) \/ ConfirmCancel(t)
             \/ \E label \in {"cancelled", "retry", "failing"} : Raise(t, label)
    BY <1>1, <2>4, WriteType
  <2>5. CASE \/ \E st \in {"completed", "interrupted"}, bound \in BOOLEAN :
                    SaveAndEnd(t, st, bound)
             \/ \E st \in {"completed", "interrupted", "cancelled"} : EndStream(t, st)
             \/ FinishUserCancel(t) \/ Fail(t)
    BY <1>1, <2>5, EndType
  <2>6. QED
    BY <1>1, <2>1, <2>2, <2>3, <2>4, <2>5 DEF Invocation
<1>2. ASSUME TypeOK, [Next]_vars PROVE TypeOK'
  <2>1. CASE UNCHANGED vars
    BY <1>2, <2>1 DEF TypeOK, vars
  <2>2. CASE \/ \E r \in Chat : CreateChat(r)
             \/ \E r \in Resume : CreateResume(r)
             \/ \E t \in Token, c \in Sub : StartSubagent(t, c)
    BY <1>2, <2>2, CreateType
  <2>3. CASE \E r \in Run : RequestCancel(r)
    BY <1>2, <2>3, RequestCancelType
  <2>4. CASE \E t \in Token : (\E r \in Run : Deliver(t, r)) \/ Heartbeat(t) \/ LoseLease(t) \/ Crash(t)
    BY <1>2, <2>4, WriteType
  <2>5. CASE \E t \in Token : Invocation(t)
    BY <1>1, <1>2, <2>5
  <2>6. CASE \/ Tick \/ StorageMigration
             \/ \E S \in SUBSET Run : ReconcileLeases(S)
             \/ \E r \in Root : ReconcileCleanup(r)
    BY <1>2, <2>6, ReconcileType
  <2>7. QED
    BY <1>2, <2>1, <2>2, <2>3, <2>4, <2>5, <2>6 DEF Next
<1>3. QED
  BY <1>2

\* Every variable keeps its type: in particular no transaction writes a status
\* outside the eight of agent_run_repository.py.
THEOREM TypeCorrect == Spec => []TypeOK
BY InitType, TypeStep, PTL DEF Spec

=============================================================================
