------------------------- MODULE DurableTaskProofs -------------------------
(* Proofs about DurableTask, for every set of tasks and workers and every  *)
(* limit.                                                                  *)
EXTENDS DurableTask, FiniteSetTheorems, TLAPS

USE DEF Terminal, Active

\* A task that may still be claimed has attempts left (auxiliary).
AttemptsLeft ==
    \A t \in Task :
        /\ status[t] = "absent" => attempts[t] = 0
        /\ status[t] = "pending" => attempts[t] < MaxAttempts

\* A process_task that runs has a task (auxiliary).
HasJob == \A w \in Worker : pc[w] # "idle" => job[w] \in Task

\* The types of what EndRow writes, and of where a process_task is.
RowsTyped ==
    /\ status \in [Task -> {"absent", "deleted"} \cup Active \cup Terminal]
    /\ keyed  \in [Task -> BOOLEAN]
    /\ owner  \in [Task -> Worker \cup {None}]
    /\ lease  \in [Task -> 0..LeaseTicks]

\* The two ends of the range of a lease.
LEMMA LeaseRange == 0 \in 0..LeaseTicks /\ LeaseTicks \in 0..LeaseTicks
BY LimitsPositive

\* The shared row updates keep the types.
LEMMA RowType ==
    ASSUME TypeOK, NEW t
    PROVE  /\ \A st \in Terminal : EndRow(t, st) => RowsTyped'
           /\ KeepRow => RowsTyped' /\ open' \in [Task -> BOOLEAN]
           /\ FailureHook(t) => open' \in [Task -> BOOLEAN]
           /\ \A hook : RequestCancel(t, hook) =>
                  RowsTyped' /\ open' \in [Task -> BOOLEAN] /\ cancel' \in [Task -> BOOLEAN]
<1>1. ASSUME NEW st \in Terminal, EndRow(t, st) PROVE RowsTyped'
  BY <1>1, LeaseRange DEF EndRow, RowsTyped, TypeOK
<1>2. KeepRow => RowsTyped' /\ open' \in [Task -> BOOLEAN]
  BY DEF KeepRow, RowsTyped, TypeOK
<1>3. FailureHook(t) => open' \in [Task -> BOOLEAN]
  BY DEF FailureHook, TypeOK
<1>4. ASSUME NEW hook, RequestCancel(t, hook)
      PROVE  RowsTyped' /\ open' \in [Task -> BOOLEAN] /\ cancel' \in [Task -> BOOLEAN]
  <2>1. cancel' \in [Task -> BOOLEAN]
    BY <1>4 DEF RequestCancel, TypeOK
  <2>2. CASE status[t] = "pending"
    <3>1. EndRow(t, "cancelled") /\ (FailureHook(t) \/ UNCHANGED open)
      BY <1>4, <2>2 DEF RequestCancel
    <3>2. QED
      BY <1>1, <1>3, <2>1, <3>1 DEF TypeOK
  <2>3. CASE status[t] # "pending"
    BY <1>2, <1>4, <2>1, <2>3 DEF RequestCancel
  <2>4. QED
    BY <2>2, <2>3
<1>5. QED
  BY <1>1, <1>2, <1>3, <1>4

\* So does leaving a task.
LEMMA LeaveType ==
    ASSUME TypeOK, NEW w \in Worker, Leave(w)
    PROVE  pc' \in [Worker -> PC] /\ job' \in [Worker -> Task \cup {None}]
BY DEF Leave, Goto, TypeOK, PC

\* Every step keeps HasJob.
LEMMA HasJobStep == TypeOK /\ HasJob /\ [Next]_vars => HasJob'
<1> SUFFICES ASSUME TypeOK, HasJob, [Next]_vars PROVE HasJob'
  OBVIOUS
<1>1. ASSUME NEW t \in Task, NEW opens \in BOOLEAN, CreateTask(t, opens) PROVE HasJob'
  BY <1>1 DEF CreateTask, HasJob, TypeOK
<1>2. ASSUME NEW t \in Task, ReadForCancel(t) PROVE HasJob'
  BY <1>2 DEF ReadForCancel, HasJob, TypeOK
<1>3. ASSUME NEW t \in Task, CancelTask(t) PROVE HasJob'
  BY <1>3 DEF CancelTask, RequestCancel, EndRow, KeepRow, FailureHook, HasJob, TypeOK
<1>4. ASSUME NEW t \in Task, DeleteTerminal(t) PROVE HasJob'
  BY <1>4 DEF DeleteTerminal, HasJob, TypeOK
<1>5. ASSUME NEW t \in Task, Publish(t) PROVE HasJob'
  BY <1>5 DEF Publish, HasJob, TypeOK
<1>6. ASSUME NEW t \in Task, SettleUnbuildable(t) PROVE HasJob'
  BY <1>6 DEF SettleUnbuildable, EndRow, FailureHook, HasJob, TypeOK
<1>7. ASSUME NEW w \in Worker, NEW t \in Task, Deliver(w, t) PROVE HasJob'
  BY <1>7 DEF Deliver, Goto, HasJob, TypeOK
<1>8. ASSUME NEW w \in Worker, CancelBeforeClaim(w) PROVE HasJob'
  BY <1>8 DEF CancelBeforeClaim, RequestCancel, EndRow, KeepRow, FailureHook, Leave, Goto,
     HasJob, TypeOK
<1>9. ASSUME NEW w \in Worker, CountRunning(w) PROVE HasJob'
  BY <1>9 DEF CountRunning, Leave, Goto, HasJob, TypeOK
<1>10. ASSUME NEW w \in Worker, Claim(w) PROVE HasJob'
  BY <1>10 DEF Claim, EndRow, Leave, Goto, HasJob, TypeOK
<1>11. ASSUME NEW w \in Worker, Checkpoint(w) PROVE HasJob'
  BY <1>11 DEF Checkpoint, IsLiveOwner, HasJob, TypeOK
<1>12. ASSUME NEW w \in Worker, NEW label \in Attempt, EndHandler(w, label) PROVE HasJob'
  BY <1>12 DEF EndHandler, Goto, HasJob, TypeOK
<1>13. ASSUME NEW w \in Worker, Finish(w) PROVE HasJob'
  BY <1>13 DEF Finish, FinishOwned, IsLiveOwner, EndRow, KeepRow, FailureHook, Leave, Goto,
     HasJob, TypeOK
<1>14. ASSUME NEW w \in Worker, RequeueOwned(w) PROVE HasJob'
  BY <1>14 DEF RequeueOwned, IsLiveOwner, BackToPending, EndRow, Leave, Goto, HasJob, TypeOK
<1>15. ASSUME NEW w \in Worker, ReleaseInterrupted(w) PROVE HasJob'
  BY <1>15 DEF ReleaseInterrupted, IsLiveOwner, EndRow, KeepRow, FailureHook, Leave, Goto,
     HasJob, TypeOK
<1>16. ASSUME NEW w \in Worker, LoseLease(w) PROVE HasJob'
  BY <1>16 DEF LoseLease, Leave, Goto, HasJob, TypeOK
<1>17. ASSUME NEW w \in Worker, Crash(w) PROVE HasJob'
  BY <1>17 DEF Crash, Leave, Goto, HasJob, TypeOK
<1>18. CASE Tick
  BY <1>18 DEF Tick, HasJob, TypeOK
<1>19. ASSUME NEW w \in Worker, Heartbeat(w) PROVE HasJob'
  BY <1>19 DEF Heartbeat, IsLiveOwner, HasJob, TypeOK
<1>20. ASSUME NEW S \in SUBSET Task, ReconcileLeases(S) PROVE HasJob'
  BY <1>20 DEF ReconcileLeases, HasJob, TypeOK
<1>21. CASE UNCHANGED vars
  BY <1>21 DEF vars, HasJob, TypeOK
<1>22. QED
  BY <1>1, <1>2, <1>3, <1>4, <1>5, <1>6, <1>7, <1>8, <1>9, <1>10, <1>11, <1>12, <1>13, <1>14,
     <1>15, <1>16, <1>17, <1>18, <1>19, <1>20, <1>21 DEF Next, ClaimStep, EndAttempt

\* Every step keeps AttemptsLeft.
LEMMA AttemptsLeftStep == TypeOK /\ HasJob /\ AttemptsLeft /\ [Next]_vars => AttemptsLeft'
<1> SUFFICES ASSUME TypeOK, HasJob, AttemptsLeft, [Next]_vars PROVE AttemptsLeft'
  OBVIOUS
<1>1. ASSUME NEW t \in Task, NEW opens \in BOOLEAN, CreateTask(t, opens) PROVE AttemptsLeft'
  BY <1>1, LimitsPositive DEF CreateTask, AttemptsLeft, TypeOK
<1>2. ASSUME NEW t \in Task, ReadForCancel(t) PROVE AttemptsLeft'
  BY <1>2 DEF ReadForCancel, AttemptsLeft, TypeOK
<1>3. ASSUME NEW t \in Task, CancelTask(t) PROVE AttemptsLeft'
  BY <1>3 DEF CancelTask, RequestCancel, EndRow, KeepRow, FailureHook, AttemptsLeft, TypeOK
<1>4. ASSUME NEW t \in Task, DeleteTerminal(t) PROVE AttemptsLeft'
  BY <1>4 DEF DeleteTerminal, AttemptsLeft, TypeOK
<1>5. ASSUME NEW t \in Task, Publish(t) PROVE AttemptsLeft'
  BY <1>5 DEF Publish, AttemptsLeft, TypeOK
<1>6. ASSUME NEW t \in Task, SettleUnbuildable(t) PROVE AttemptsLeft'
  BY <1>6 DEF SettleUnbuildable, EndRow, FailureHook, AttemptsLeft, TypeOK
<1>7. ASSUME NEW w \in Worker, NEW t \in Task, Deliver(w, t) PROVE AttemptsLeft'
  BY <1>7 DEF Deliver, Goto, AttemptsLeft, TypeOK
<1>8. ASSUME NEW w \in Worker, CancelBeforeClaim(w) PROVE AttemptsLeft'
  BY <1>8 DEF CancelBeforeClaim, RequestCancel, EndRow, KeepRow, FailureHook, Leave, Goto,
     AttemptsLeft, TypeOK
<1>9. ASSUME NEW w \in Worker, CountRunning(w) PROVE AttemptsLeft'
  BY <1>9 DEF CountRunning, Leave, Goto, AttemptsLeft, TypeOK
<1>10. ASSUME NEW w \in Worker, Claim(w) PROVE AttemptsLeft'
  BY <1>10 DEF Claim, EndRow, Leave, Goto, AttemptsLeft, TypeOK
<1>11. ASSUME NEW w \in Worker, Checkpoint(w) PROVE AttemptsLeft'
  BY <1>11 DEF Checkpoint, IsLiveOwner, AttemptsLeft, TypeOK
<1>12. ASSUME NEW w \in Worker, NEW label \in Attempt, EndHandler(w, label) PROVE AttemptsLeft'
  BY <1>12 DEF EndHandler, Goto, AttemptsLeft, TypeOK
<1>13. ASSUME NEW w \in Worker, Finish(w) PROVE AttemptsLeft'
  BY <1>13 DEF Finish, FinishOwned, IsLiveOwner, EndRow, KeepRow, FailureHook, Leave, Goto,
     AttemptsLeft, TypeOK
<1>14. ASSUME NEW w \in Worker, RequeueOwned(w) PROVE AttemptsLeft'
  BY <1>14, LimitsPositive DEF RequeueOwned, IsLiveOwner, BackToPending, EndRow, Leave, Goto,
     AttemptsLeft, TypeOK
<1>15. ASSUME NEW w \in Worker, ReleaseInterrupted(w) PROVE AttemptsLeft'
  BY <1>15 DEF ReleaseInterrupted, IsLiveOwner, EndRow, KeepRow, FailureHook, Leave, Goto,
     AttemptsLeft, TypeOK
<1>16. ASSUME NEW w \in Worker, LoseLease(w) PROVE AttemptsLeft'
  BY <1>16 DEF LoseLease, Leave, Goto, AttemptsLeft, TypeOK
<1>17. ASSUME NEW w \in Worker, Crash(w) PROVE AttemptsLeft'
  BY <1>17 DEF Crash, Leave, Goto, AttemptsLeft, TypeOK
<1>18. CASE Tick
  BY <1>18 DEF Tick, AttemptsLeft, TypeOK
<1>19. ASSUME NEW w \in Worker, Heartbeat(w) PROVE AttemptsLeft'
  BY <1>19 DEF Heartbeat, IsLiveOwner, AttemptsLeft, TypeOK
<1>20. ASSUME NEW S \in SUBSET Task, ReconcileLeases(S) PROVE AttemptsLeft'
  BY <1>20 DEF ReconcileLeases, AttemptsLeft, TypeOK
<1>21. CASE UNCHANGED vars
  BY <1>21 DEF vars, AttemptsLeft, TypeOK
<1>22. QED
  BY <1>1, <1>2, <1>3, <1>4, <1>5, <1>6, <1>7, <1>8, <1>9, <1>10, <1>11, <1>12, <1>13, <1>14,
     <1>15, <1>16, <1>17, <1>18, <1>19, <1>20, <1>21 DEF Next, ClaimStep, EndAttempt

\* Every step keeps the types.
LEMMA TypeStep == TypeOK /\ HasJob /\ AttemptsLeft /\ [Next]_vars => TypeOK'
<1> SUFFICES ASSUME TypeOK, HasJob, AttemptsLeft, [Next]_vars PROVE TypeOK'
  OBVIOUS
<1>1. ASSUME NEW t \in Task, NEW opens \in BOOLEAN, CreateTask(t, opens) PROVE TypeOK'
  BY <1>1 DEF CreateTask, TypeOK
<1>2. ASSUME NEW t \in Task, ReadForCancel(t) PROVE TypeOK'
  BY <1>2 DEF ReadForCancel, TypeOK
<1>3. ASSUME NEW t \in Task, CancelTask(t) PROVE TypeOK'
  <2>1. seen' \in [Task -> {"none", "pending", "other"}]
    BY <1>3 DEF CancelTask, TypeOK
  <2>2. QED
    BY <1>3, <2>1, RowType DEF CancelTask, RowsTyped, TypeOK
<1>4. ASSUME NEW t \in Task, DeleteTerminal(t) PROVE TypeOK'
  BY <1>4 DEF DeleteTerminal, TypeOK
<1>5. ASSUME NEW t \in Task, Publish(t) PROVE TypeOK'
  BY <1>5 DEF Publish, TypeOK
<1>6. ASSUME NEW t \in Task, SettleUnbuildable(t) PROVE TypeOK'
  BY <1>6, LimitsPositive DEF SettleUnbuildable, EndRow, FailureHook, TypeOK
<1>7. ASSUME NEW w \in Worker, NEW t \in Task, Deliver(w, t) PROVE TypeOK'
  BY <1>7 DEF Deliver, Goto, TypeOK, PC
<1>8. ASSUME NEW w \in Worker, CancelBeforeClaim(w) PROVE TypeOK'
  BY <1>8, RowType, LeaveType DEF CancelBeforeClaim, RowsTyped, TypeOK
<1>9. ASSUME NEW w \in Worker, CountRunning(w) PROVE TypeOK'
  BY <1>9 DEF CountRunning, Leave, Goto, TypeOK, PC
<1>10. ASSUME NEW w \in Worker, Claim(w) PROVE TypeOK'
  <2> DEFINE t == job[w]
  <2>1. t \in Task /\ gate' \in Worker \cup {None}
    BY <1>10 DEF Claim, HasJob, TypeOK
  <2>2. CASE status[t] = "pending" /\ ~cancel[t]
    <3>1. attempts' \in [Task -> 0..MaxAttempts]
      BY <1>10, <2>1, <2>2, LimitsPositive DEF Claim, AttemptsLeft, TypeOK
    <3>2. RowsTyped'
      BY <1>10, <2>2, LimitsPositive DEF Claim, RowsTyped, TypeOK
    <3>3. pc' \in [Worker -> PC] /\ UNCHANGED job
      BY <1>10, <2>2 DEF Claim, Goto, PC, Attempt, TypeOK
    <3>4. QED
      BY <1>10, <2>1, <3>1, <3>2, <3>3 DEF Claim, RowsTyped, TypeOK
  <2>3. CASE ~(status[t] = "pending" /\ ~cancel[t])
    <3>1. RowsTyped'
      BY <1>10, <2>3, RowType DEF Claim, RowsTyped, TypeOK
    <3>2. QED
      BY <1>10, <2>1, <2>3, <3>1, LeaveType DEF Claim, RowsTyped, TypeOK
  <2>4. QED
    BY <2>2, <2>3
<1>11. ASSUME NEW w \in Worker, Checkpoint(w) PROVE TypeOK'
  BY <1>11 DEF Checkpoint, IsLiveOwner, TypeOK
<1>12. ASSUME NEW w \in Worker, NEW label \in Attempt, EndHandler(w, label) PROVE TypeOK'
  BY <1>12 DEF EndHandler, Goto, TypeOK, PC
<1>13. ASSUME NEW w \in Worker, Finish(w) PROVE TypeOK'
  <2>1. ASSUME NEW label, NEW st \in Terminal, NEW closes \in BOOLEAN,
               FinishOwned(w, label, st, closes)
        PROVE  TypeOK'
    <3>1. RowsTyped'
      BY <2>1, RowType DEF FinishOwned
    <3>2. open' \in [Task -> BOOLEAN]
      BY <2>1, RowType DEF FinishOwned, TypeOK
    <3>3. QED
      BY <2>1, <3>1, <3>2, LeaveType DEF FinishOwned, RowsTyped, TypeOK
  <2>2. QED
    BY <1>13, <2>1 DEF Finish
<1>14. ASSUME NEW w \in Worker, RequeueOwned(w) PROVE TypeOK'
  <2>1. CASE UNCHANGED <<status, keyed, owner, lease>> /\ Leave(w)
    BY <1>14, <2>1, LeaveType DEF RequeueOwned, TypeOK
  <2>2. CASE EndRow(job[w], "cancelled") /\ Leave(w)
    BY <1>14, <2>2, LeaveType, RowType DEF RequeueOwned, RowsTyped, TypeOK
  <2>3. CASE UNCHANGED <<status, keyed, owner, lease, job>> /\ Goto(w, "failing")
    BY <1>14, <2>3 DEF RequeueOwned, Goto, PC, Attempt, TypeOK
  <2>4. CASE BackToPending(job[w]) /\ UNCHANGED keyed /\ Leave(w)
    <3>1. RowsTyped'
      BY <2>4, LeaseRange DEF BackToPending, RowsTyped, TypeOK
    <3>2. QED
      BY <1>14, <2>4, <3>1, LeaveType DEF RequeueOwned, RowsTyped, TypeOK
  <2>5. QED
    BY <1>14, <2>1, <2>2, <2>3, <2>4 DEF RequeueOwned
<1>15. ASSUME NEW w \in Worker, ReleaseInterrupted(w) PROVE TypeOK'
  BY <1>15, RowType, LeaveType DEF ReleaseInterrupted, RowsTyped, TypeOK
<1>16. ASSUME NEW w \in Worker, LoseLease(w) PROVE TypeOK'
  BY <1>16 DEF LoseLease, Leave, Goto, TypeOK, PC
<1>17. ASSUME NEW w \in Worker, Crash(w) PROVE TypeOK'
  BY <1>17, LimitsPositive DEF Crash, Leave, Goto, TypeOK, PC
<1>18. CASE Tick
  BY <1>18, LimitsPositive DEF Tick, TypeOK
<1>19. ASSUME NEW w \in Worker, Heartbeat(w) PROVE TypeOK'
  BY <1>19, LeaseRange DEF Heartbeat, TypeOK
<1>20. ASSUME NEW S \in SUBSET Task, ReconcileLeases(S) PROVE TypeOK'
  BY <1>20 DEF ReconcileLeases, TypeOK
<1>21. CASE UNCHANGED vars
  BY <1>21 DEF vars, TypeOK
<1>22. QED
  BY <1>1, <1>2, <1>3, <1>4, <1>5, <1>6, <1>7, <1>8, <1>9, <1>10, <1>11, <1>12, <1>13, <1>14,
     <1>15, <1>16, <1>17, <1>18, <1>19, <1>20, <1>21 DEF Next, ClaimStep, EndAttempt

\* The initial rows are well typed.
LEMMA TypeInit == Init => TypeOK /\ HasJob /\ AttemptsLeft
<1> SUFFICES ASSUME Init PROVE TypeOK /\ HasJob /\ AttemptsLeft
  OBVIOUS
<1>1. 0 \in 0..LeaseTicks /\ 0 \in 0..MaxAttempts /\ 0 \in 0..MaxFaults /\ 0 < MaxAttempts
  BY LimitsPositive
<1>2. QED
  BY <1>1 DEF Init, TypeOK, PC, HasJob, AttemptsLeft

\* Every variable keeps its type; in particular no row is claimed more often than
\* max_attempts, however its messages are repeated and its workers die.
THEOREM TaskTypeCorrect == Spec => []TypeOK
BY TypeInit, TypeStep, HasJobStep, AttemptsLeftStep, PTL DEF Spec

-----------------------------------------------------------------------------
(* One attempt at a time.                                                  *)

\* Every step keeps OneExecution.
LEMMA OneExecutionStep == TypeOK /\ HasJob /\ OneExecution /\ [Next]_vars => OneExecution'
<1> SUFFICES ASSUME TypeOK, HasJob, OneExecution, [Next]_vars PROVE OneExecution'
  OBVIOUS
<1>1. ASSUME NEW t \in Task, NEW opens \in BOOLEAN, CreateTask(t, opens) PROVE OneExecution'
  BY <1>1 DEF CreateTask, OneExecution, TypeOK
<1>2. ASSUME NEW t \in Task, ReadForCancel(t) PROVE OneExecution'
  BY <1>2 DEF ReadForCancel, OneExecution, TypeOK
<1>3. ASSUME NEW t \in Task, CancelTask(t) PROVE OneExecution'
  BY <1>3 DEF CancelTask, RequestCancel, EndRow, KeepRow, FailureHook, OneExecution, HasJob,
     TypeOK, Attempt
<1>4. ASSUME NEW t \in Task, DeleteTerminal(t) PROVE OneExecution'
  BY <1>4 DEF DeleteTerminal, OneExecution, TypeOK
<1>5. ASSUME NEW t \in Task, Publish(t) PROVE OneExecution'
  BY <1>5 DEF Publish, OneExecution, TypeOK
<1>6. ASSUME NEW t \in Task, SettleUnbuildable(t) PROVE OneExecution'
  BY <1>6 DEF SettleUnbuildable, EndRow, FailureHook, OneExecution, TypeOK
<1>7. ASSUME NEW w \in Worker, NEW t \in Task, Deliver(w, t) PROVE OneExecution'
  BY <1>7 DEF Deliver, Goto, OneExecution, TypeOK, Attempt
<1>8. ASSUME NEW w \in Worker, CancelBeforeClaim(w) PROVE OneExecution'
  BY <1>8 DEF CancelBeforeClaim, RequestCancel, EndRow, KeepRow, FailureHook, Leave, Goto,
     OneExecution, HasJob, TypeOK, Attempt
<1>9. ASSUME NEW w \in Worker, CountRunning(w) PROVE OneExecution'
  BY <1>9 DEF CountRunning, Leave, Goto, OneExecution, TypeOK, Attempt
<1>10. ASSUME NEW w \in Worker, Claim(w) PROVE OneExecution'
  BY <1>10 DEF Claim, EndRow, Leave, Goto, OneExecution, HasJob, TypeOK, Attempt
<1>11. ASSUME NEW w \in Worker, Checkpoint(w) PROVE OneExecution'
  BY <1>11 DEF Checkpoint, IsLiveOwner, OneExecution, TypeOK
<1>12. ASSUME NEW w \in Worker, NEW label \in Attempt, EndHandler(w, label) PROVE OneExecution'
  BY <1>12 DEF EndHandler, Goto, OneExecution, TypeOK, Attempt
<1>13. ASSUME NEW w \in Worker, Finish(w) PROVE OneExecution'
  BY <1>13 DEF Finish, FinishOwned, IsLiveOwner, EndRow, KeepRow, FailureHook, Leave, Goto,
     OneExecution, HasJob, TypeOK, Attempt
<1>14. ASSUME NEW w \in Worker, RequeueOwned(w) PROVE OneExecution'
  BY <1>14 DEF RequeueOwned, IsLiveOwner, BackToPending, EndRow, Leave, Goto, OneExecution,
     HasJob, TypeOK, Attempt
<1>15. ASSUME NEW w \in Worker, ReleaseInterrupted(w) PROVE OneExecution'
  BY <1>15 DEF ReleaseInterrupted, IsLiveOwner, EndRow, KeepRow, FailureHook, Leave, Goto,
     OneExecution, HasJob, TypeOK, Attempt
<1>16. ASSUME NEW w \in Worker, LoseLease(w) PROVE OneExecution'
  BY <1>16 DEF LoseLease, Leave, Goto, OneExecution, TypeOK, Attempt
<1>17. ASSUME NEW w \in Worker, Crash(w) PROVE OneExecution'
  BY <1>17 DEF Crash, Leave, Goto, OneExecution, TypeOK, Attempt
<1>18. CASE Tick
  BY <1>18 DEF Tick, OneExecution, TypeOK
<1>19. ASSUME NEW w \in Worker, Heartbeat(w) PROVE OneExecution'
  BY <1>19 DEF Heartbeat, IsLiveOwner, OneExecution, TypeOK
<1>20. ASSUME NEW S \in SUBSET Task, ReconcileLeases(S) PROVE OneExecution'
  BY <1>20 DEF ReconcileLeases, OneExecution, HasJob, TypeOK, Attempt
<1>21. CASE UNCHANGED vars
  BY <1>21 DEF vars, OneExecution, TypeOK
<1>22. QED
  BY <1>1, <1>2, <1>3, <1>4, <1>5, <1>6, <1>7, <1>8, <1>9, <1>10, <1>11, <1>12, <1>13, <1>14,
     <1>15, <1>16, <1>17, <1>18, <1>19, <1>20, <1>21 DEF Next, ClaimStep, EndAttempt

\* A handler is never started while an earlier attempt may still be running it: an
\* attempt works on its own running task or on one that has ended.
THEOREM OneExecutionCorrect == Spec => []OneExecution
<1>1. Init => OneExecution
  BY DEF Init, OneExecution, Attempt
<1>2. QED
  BY <1>1, TypeInit, TypeStep, HasJobStep, AttemptsLeftStep, OneExecutionStep, PTL DEF Spec

-----------------------------------------------------------------------------
(* The capacity gate.                                                      *)

\* Who has counted holds the gate, and what was counted still holds (auxiliary).
CountHolds ==
    \A w \in Worker : pc[w] = "counted" =>
        gate = w /\ Cardinality(Running \ Legacy) < MaxRunning

\* When fewer tasks are running the count does not grow.
LEMMA FewerRunning ==
    ASSUME Running' \subseteq Running
    PROVE  /\ Cardinality(Running \ Legacy) \in Nat
           /\ Cardinality(Running' \ Legacy) \in Nat
           /\ Cardinality(Running' \ Legacy) <= Cardinality(Running \ Legacy)
<1>1. IsFiniteSet(Running \ Legacy)
  BY TasksFinite, FS_Subset DEF Running
<1>2. Running' \ Legacy \subseteq Running \ Legacy
  OBVIOUS
<1>3. QED
  BY <1>1, <1>2, FS_Subset, FS_CardinalityType

\* Only a claim adds a running task.
LEMMA OnlyClaimAdds ==
    TypeOK /\ HasJob /\ [Next]_vars =>
        (\E w \in Worker : Claim(w)) \/ Running' \subseteq Running
<1> SUFFICES ASSUME TypeOK, HasJob, [Next]_vars, ~\E w \in Worker : Claim(w)
             PROVE  Running' \subseteq Running
  OBVIOUS
<1>1. ASSUME NEW t \in Task, NEW opens \in BOOLEAN, CreateTask(t, opens)
      PROVE  Running' \subseteq Running
  BY <1>1 DEF CreateTask, Running, TypeOK
<1>2. ASSUME NEW t \in Task, ReadForCancel(t) PROVE Running' \subseteq Running
  BY <1>2 DEF ReadForCancel, Running, TypeOK
<1>3. ASSUME NEW t \in Task, CancelTask(t) PROVE Running' \subseteq Running
  BY <1>3 DEF CancelTask, RequestCancel, EndRow, KeepRow, FailureHook, Running, TypeOK
<1>4. ASSUME NEW t \in Task, DeleteTerminal(t) PROVE Running' \subseteq Running
  BY <1>4 DEF DeleteTerminal, Running, TypeOK
<1>5. ASSUME NEW t \in Task, Publish(t) PROVE Running' \subseteq Running
  BY <1>5 DEF Publish, Running, TypeOK
<1>6. ASSUME NEW t \in Task, SettleUnbuildable(t) PROVE Running' \subseteq Running
  BY <1>6 DEF SettleUnbuildable, EndRow, FailureHook, Running, TypeOK
<1>7. ASSUME NEW w \in Worker, NEW t \in Task, Deliver(w, t) PROVE Running' \subseteq Running
  BY <1>7 DEF Deliver, Goto, Running, TypeOK
<1>8. ASSUME NEW w \in Worker, CancelBeforeClaim(w) PROVE Running' \subseteq Running
  BY <1>8 DEF CancelBeforeClaim, RequestCancel, EndRow, KeepRow, FailureHook, Leave, Goto,
     Running, TypeOK
<1>9. ASSUME NEW w \in Worker, CountRunning(w) PROVE Running' \subseteq Running
  BY <1>9 DEF CountRunning, Leave, Goto, Running, TypeOK
<1>10. ASSUME NEW w \in Worker, Claim(w) PROVE Running' \subseteq Running
  BY <1>10
<1>11. ASSUME NEW w \in Worker, Checkpoint(w) PROVE Running' \subseteq Running
  BY <1>11 DEF Checkpoint, IsLiveOwner, Running, TypeOK
<1>12. ASSUME NEW w \in Worker, NEW label \in Attempt, EndHandler(w, label)
       PROVE  Running' \subseteq Running
  BY <1>12 DEF EndHandler, Goto, Running, TypeOK
<1>13. ASSUME NEW w \in Worker, Finish(w) PROVE Running' \subseteq Running
  BY <1>13 DEF Finish, FinishOwned, IsLiveOwner, EndRow, KeepRow, FailureHook, Leave, Goto,
     Running, TypeOK
<1>14. ASSUME NEW w \in Worker, RequeueOwned(w) PROVE Running' \subseteq Running
  BY <1>14 DEF RequeueOwned, IsLiveOwner, BackToPending, EndRow, Leave, Goto, Running, TypeOK
<1>15. ASSUME NEW w \in Worker, ReleaseInterrupted(w) PROVE Running' \subseteq Running
  BY <1>15 DEF ReleaseInterrupted, IsLiveOwner, EndRow, KeepRow, FailureHook, Leave, Goto,
     Running, TypeOK
<1>16. ASSUME NEW w \in Worker, LoseLease(w) PROVE Running' \subseteq Running
  BY <1>16 DEF LoseLease, Leave, Goto, Running, TypeOK
<1>17. ASSUME NEW w \in Worker, Crash(w) PROVE Running' \subseteq Running
  BY <1>17 DEF Crash, Leave, Goto, Running, TypeOK
<1>18. CASE Tick
  BY <1>18 DEF Tick, Running, TypeOK
<1>19. ASSUME NEW w \in Worker, Heartbeat(w) PROVE Running' \subseteq Running
  BY <1>19 DEF Heartbeat, IsLiveOwner, Running, TypeOK
<1>20. ASSUME NEW S \in SUBSET Task, ReconcileLeases(S) PROVE Running' \subseteq Running
  BY <1>20 DEF ReconcileLeases, Running, TypeOK
<1>21. CASE UNCHANGED vars
  BY <1>21 DEF vars, Running, TypeOK
<1>22. QED
  BY <1>1, <1>2, <1>3, <1>4, <1>5, <1>6, <1>7, <1>8, <1>9, <1>10, <1>11, <1>12, <1>13, <1>14,
     <1>15, <1>16, <1>17, <1>18, <1>19, <1>20, <1>21 DEF Next, ClaimStep, EndAttempt

\* Any other step keeps what was counted.
LEMMA CountKept ==
    ASSUME TypeOK, CountHolds, Running' \subseteq Running,
           \A w \in Worker : pc'[w] = "counted" => pc[w] = "counted" /\ gate' = gate
    PROVE  CountHolds'
BY FewerRunning, LimitsPositive DEF CountHolds

\* Every step keeps CountHolds.
LEMMA CountStep == TypeOK /\ HasJob /\ CountHolds /\ [Next]_vars => CountHolds'
<1> SUFFICES ASSUME TypeOK, HasJob, CountHolds, [Next]_vars PROVE CountHolds'
  OBVIOUS
<1>1. ASSUME NEW t \in Task, NEW opens \in BOOLEAN, CreateTask(t, opens) PROVE CountHolds'
  BY <1>1, CountKept DEF CreateTask, Running, CountHolds, TypeOK
<1>2. ASSUME NEW t \in Task, ReadForCancel(t) PROVE CountHolds'
  BY <1>2, CountKept DEF ReadForCancel, Running, CountHolds, TypeOK
<1>3. ASSUME NEW t \in Task, CancelTask(t) PROVE CountHolds'
  BY <1>3, CountKept DEF CancelTask, RequestCancel, EndRow, KeepRow, FailureHook, Running,
     CountHolds, TypeOK
<1>4. ASSUME NEW t \in Task, DeleteTerminal(t) PROVE CountHolds'
  BY <1>4, CountKept DEF DeleteTerminal, Running, CountHolds, TypeOK
<1>5. ASSUME NEW t \in Task, Publish(t) PROVE CountHolds'
  BY <1>5, CountKept DEF Publish, Running, CountHolds, TypeOK
<1>6. ASSUME NEW t \in Task, SettleUnbuildable(t) PROVE CountHolds'
  BY <1>6, CountKept DEF SettleUnbuildable, EndRow, FailureHook, Running, CountHolds, TypeOK
<1>7. ASSUME NEW w \in Worker, NEW t \in Task, Deliver(w, t) PROVE CountHolds'
  BY <1>7, CountKept DEF Deliver, Goto, Running, CountHolds, TypeOK
<1>8. ASSUME NEW w \in Worker, CancelBeforeClaim(w) PROVE CountHolds'
  BY <1>8, CountKept DEF CancelBeforeClaim, RequestCancel, EndRow, KeepRow, FailureHook, Leave,
     Goto, Running, CountHolds, TypeOK
<1>9. ASSUME NEW w \in Worker, CountRunning(w) PROVE CountHolds'
  <2>1. \A v \in Worker : pc[v] # "counted"
    BY <1>9, NoneIsNoWorker DEF CountRunning, CountHolds
  <2>2. UNCHANGED status
    BY <1>9 DEF CountRunning
  <2>3. CASE Cardinality(Running) >= MaxRunning
    BY <1>9, <2>1, <2>3 DEF CountRunning, Leave, Goto, CountHolds, TypeOK
  <2>4. CASE ~(Cardinality(Running) >= MaxRunning)
    <3>1. IsFiniteSet(Running)
      BY TasksFinite, FS_Subset DEF Running
    <3>2. Cardinality(Running \ Legacy) <= Cardinality(Running) /\ Cardinality(Running) \in Nat
          /\ Cardinality(Running \ Legacy) \in Nat
      BY <3>1, FS_Subset, FS_CardinalityType
    <3>3. Cardinality(Running \ Legacy) < MaxRunning
      BY <2>4, <3>2, LimitsPositive
    <3>4. (Running \ Legacy)' = Running \ Legacy
      BY <2>2 DEF Running
    <3>5. \A v \in Worker : pc'[v] = "counted" => v = w /\ gate' = w
      BY <1>9, <2>1, <2>4 DEF CountRunning, Goto, TypeOK
    <3>6. QED
      BY <3>3, <3>4, <3>5 DEF CountHolds
  <2>5. QED
    BY <2>3, <2>4
<1>10. ASSUME NEW w \in Worker, Claim(w) PROVE CountHolds'
  <2>1. \A v \in Worker : pc'[v] # "counted"
    BY <1>10 DEF Claim, Leave, Goto, CountHolds, TypeOK
  <2>2. QED
    BY <2>1 DEF CountHolds
<1>11. ASSUME NEW w \in Worker, Checkpoint(w) PROVE CountHolds'
  BY <1>11, CountKept DEF Checkpoint, IsLiveOwner, Running, CountHolds, TypeOK
<1>12. ASSUME NEW w \in Worker, NEW label \in Attempt, EndHandler(w, label) PROVE CountHolds'
  BY <1>12, CountKept DEF EndHandler, Goto, Running, CountHolds, TypeOK, Attempt
<1>13. ASSUME NEW w \in Worker, Finish(w) PROVE CountHolds'
  BY <1>13, CountKept DEF Finish, FinishOwned, IsLiveOwner, EndRow, KeepRow, FailureHook, Leave,
     Goto, Running, CountHolds, TypeOK
<1>14. ASSUME NEW w \in Worker, RequeueOwned(w) PROVE CountHolds'
  BY <1>14, CountKept DEF RequeueOwned, IsLiveOwner, BackToPending, EndRow, Leave, Goto,
     Running, CountHolds, TypeOK
<1>15. ASSUME NEW w \in Worker, ReleaseInterrupted(w) PROVE CountHolds'
  BY <1>15, CountKept DEF ReleaseInterrupted, IsLiveOwner, EndRow, KeepRow, FailureHook, Leave,
     Goto, Running, CountHolds, TypeOK
<1>16. ASSUME NEW w \in Worker, LoseLease(w) PROVE CountHolds'
  BY <1>16, CountKept DEF LoseLease, Leave, Goto, Running, CountHolds, TypeOK
<1>17. ASSUME NEW w \in Worker, Crash(w) PROVE CountHolds'
  BY <1>17, CountKept DEF Crash, Leave, Goto, Running, CountHolds, TypeOK
<1>18. CASE Tick
  BY <1>18, CountKept DEF Tick, Running, CountHolds, TypeOK
<1>19. ASSUME NEW w \in Worker, Heartbeat(w) PROVE CountHolds'
  BY <1>19, CountKept DEF Heartbeat, IsLiveOwner, Running, CountHolds, TypeOK
<1>20. ASSUME NEW S \in SUBSET Task, ReconcileLeases(S) PROVE CountHolds'
  BY <1>20, CountKept DEF ReconcileLeases, Running, CountHolds, TypeOK
<1>21. CASE UNCHANGED vars
  BY <1>21, CountKept DEF vars, Running, CountHolds, TypeOK
<1>22. QED
  BY <1>1, <1>2, <1>3, <1>4, <1>5, <1>6, <1>7, <1>8, <1>9, <1>10, <1>11, <1>12, <1>13, <1>14,
     <1>15, <1>16, <1>17, <1>18, <1>19, <1>20, <1>21 DEF Next, ClaimStep, EndAttempt

\* Every step keeps CapacityBounded.
LEMMA CapacityStep ==
    TypeOK /\ HasJob /\ CountHolds /\ CapacityBounded /\ [Next]_vars => CapacityBounded'
<1> SUFFICES ASSUME TypeOK, HasJob, CountHolds, CapacityBounded, [Next]_vars
             PROVE  CapacityBounded'
  OBVIOUS
<1>1. CASE Running' \subseteq Running
  BY <1>1, FewerRunning, LimitsPositive DEF CapacityBounded
<1>2. ASSUME NEW w \in Worker, Claim(w) PROVE CapacityBounded'
  <2>1. Running' \subseteq Running \cup {job[w]} /\ pc[w] = "counted"
    BY <1>2 DEF Claim, EndRow, Running, TypeOK
  <2>2. IsFiniteSet(Running \ Legacy)
    BY TasksFinite, FS_Subset DEF Running
  <2>3. /\ IsFiniteSet((Running \ Legacy) \cup {job[w]})
        /\ Cardinality((Running \ Legacy) \cup {job[w]}) <= Cardinality(Running \ Legacy) + 1
        /\ Cardinality(Running \ Legacy) \in Nat
    <3> DEFINE R == Running \ Legacy
    <3>1. IsFiniteSet(R)
      BY <2>2
    <3> HIDE DEF R
    <3>2. /\ IsFiniteSet(R \cup {job[w]})
          /\ Cardinality(R \cup {job[w]}) = IF job[w] \in R THEN Cardinality(R) ELSE Cardinality(R) + 1
      BY <3>1, FS_AddElement
    <3>3. Cardinality(R) \in Nat
      BY <3>1, FS_CardinalityType
    <3>4. QED
      BY <3>2, <3>3 DEF R
  <2>4. (Running \ Legacy)' \subseteq (Running \ Legacy) \cup {job[w]}
    BY <2>1
  <2>5. Cardinality((Running \ Legacy)') <= Cardinality((Running \ Legacy) \cup {job[w]})
        /\ Cardinality((Running \ Legacy)') \in Nat
        /\ Cardinality((Running \ Legacy) \cup {job[w]}) \in Nat
    BY <2>3, <2>4, FS_Subset, FS_CardinalityType
  <2>6. Cardinality(Running \ Legacy) < MaxRunning
    BY <2>1 DEF CountHolds
  <2>7. QED
    BY <2>3, <2>5, <2>6, LimitsPositive DEF CapacityBounded
<1>3. QED
  BY <1>1, <1>2, OnlyClaimAdds

\* The claims of all workers together never exceed DURABLE_TASK_MAX_RUNNING,
\* although each one counts first and updates its row later.
THEOREM CapacityCorrect == Spec => []CapacityBounded
<1>1. Init => CountHolds /\ CapacityBounded
  <2> SUFFICES ASSUME Init PROVE CountHolds /\ CapacityBounded
    OBVIOUS
  <2>1. Running \ Legacy = {}
    BY DEF Init, Running
  <2>2. QED
    BY <2>1, FS_EmptySet, LimitsPositive DEF Init, CountHolds, CapacityBounded
<1>2. QED
  BY <1>1, TypeInit, TypeStep, HasJobStep, AttemptsLeftStep, CountStep, CapacityStep, PTL DEF Spec

-----------------------------------------------------------------------------
(* Keys.                                                                   *)

\* The key is with the active task, and with one only (auxiliary).
KeyHeld ==
    /\ \A t \in Deduped : status[t] \in Active => keyed[t]
    /\ \A a, b \in Deduped : keyed[a] /\ keyed[b] => a = b

\* Every step keeps KeyHeld.
LEMMA KeyStep == TypeOK /\ HasJob /\ KeyHeld /\ [Next]_vars => KeyHeld'
<1> SUFFICES ASSUME TypeOK, HasJob, KeyHeld, [Next]_vars PROVE KeyHeld'
  OBVIOUS
<1>1. ASSUME NEW t \in Task, NEW opens \in BOOLEAN, CreateTask(t, opens) PROVE KeyHeld'
  BY <1>1, RolesAreTasks DEF CreateTask, KeyHeld, TypeOK
<1>2. ASSUME NEW t \in Task, ReadForCancel(t) PROVE KeyHeld'
  BY <1>2 DEF ReadForCancel, KeyHeld, TypeOK
<1>3. ASSUME NEW t \in Task, CancelTask(t) PROVE KeyHeld'
  BY <1>3, RolesAreTasks DEF CancelTask, RequestCancel, EndRow, KeepRow, FailureHook, KeyHeld,
     TypeOK
<1>4. ASSUME NEW t \in Task, DeleteTerminal(t) PROVE KeyHeld'
  BY <1>4 DEF DeleteTerminal, KeyHeld, TypeOK
<1>5. ASSUME NEW t \in Task, Publish(t) PROVE KeyHeld'
  BY <1>5 DEF Publish, KeyHeld, TypeOK
<1>6. ASSUME NEW t \in Task, SettleUnbuildable(t) PROVE KeyHeld'
  BY <1>6 DEF SettleUnbuildable, EndRow, FailureHook, KeyHeld, TypeOK
<1>7. ASSUME NEW w \in Worker, NEW t \in Task, Deliver(w, t) PROVE KeyHeld'
  BY <1>7 DEF Deliver, Goto, KeyHeld, TypeOK
<1>8. ASSUME NEW w \in Worker, CancelBeforeClaim(w) PROVE KeyHeld'
  BY <1>8, RolesAreTasks DEF CancelBeforeClaim, RequestCancel, EndRow, KeepRow, FailureHook,
     Leave, Goto, KeyHeld, TypeOK
<1>9. ASSUME NEW w \in Worker, CountRunning(w) PROVE KeyHeld'
  BY <1>9 DEF CountRunning, Leave, Goto, KeyHeld, TypeOK
<1>10. ASSUME NEW w \in Worker, Claim(w) PROVE KeyHeld'
  BY <1>10, RolesAreTasks DEF Claim, EndRow, Leave, Goto, KeyHeld, TypeOK
<1>11. ASSUME NEW w \in Worker, Checkpoint(w) PROVE KeyHeld'
  BY <1>11 DEF Checkpoint, IsLiveOwner, KeyHeld, TypeOK
<1>12. ASSUME NEW w \in Worker, NEW label \in Attempt, EndHandler(w, label) PROVE KeyHeld'
  BY <1>12 DEF EndHandler, Goto, KeyHeld, TypeOK
<1>13. ASSUME NEW w \in Worker, Finish(w) PROVE KeyHeld'
  BY <1>13, RolesAreTasks DEF Finish, FinishOwned, IsLiveOwner, EndRow, KeepRow, FailureHook,
     Leave, Goto, KeyHeld, TypeOK
<1>14. ASSUME NEW w \in Worker, RequeueOwned(w) PROVE KeyHeld'
  BY <1>14, RolesAreTasks DEF RequeueOwned, IsLiveOwner, BackToPending, EndRow, Leave, Goto,
     KeyHeld, TypeOK
<1>15. ASSUME NEW w \in Worker, ReleaseInterrupted(w) PROVE KeyHeld'
  BY <1>15, RolesAreTasks DEF ReleaseInterrupted, IsLiveOwner, EndRow, KeepRow, FailureHook,
     Leave, Goto, KeyHeld, TypeOK
<1>16. ASSUME NEW w \in Worker, LoseLease(w) PROVE KeyHeld'
  BY <1>16 DEF LoseLease, Leave, Goto, KeyHeld, TypeOK
<1>17. ASSUME NEW w \in Worker, Crash(w) PROVE KeyHeld'
  BY <1>17 DEF Crash, Leave, Goto, KeyHeld, TypeOK
<1>18. CASE Tick
  BY <1>18 DEF Tick, KeyHeld, TypeOK
<1>19. ASSUME NEW w \in Worker, Heartbeat(w) PROVE KeyHeld'
  BY <1>19 DEF Heartbeat, IsLiveOwner, KeyHeld, TypeOK
<1>20. ASSUME NEW S \in SUBSET Task, ReconcileLeases(S) PROVE KeyHeld'
  BY <1>20, RolesAreTasks DEF ReconcileLeases, KeyHeld, TypeOK
<1>21. CASE UNCHANGED vars
  BY <1>21 DEF vars, KeyHeld, TypeOK
<1>22. QED
  BY <1>1, <1>2, <1>3, <1>4, <1>5, <1>6, <1>7, <1>8, <1>9, <1>10, <1>11, <1>12, <1>13, <1>14,
     <1>15, <1>16, <1>17, <1>18, <1>19, <1>20, <1>21 DEF Next, ClaimStep, EndAttempt

\* Among the tasks of one (type, dedupe_key) at most one is active, also in the gap
\* between an attempt and its retry.
THEOREM OneTaskPerKeyCorrect == Spec => []OneTaskPerKey
<1>1. Init => KeyHeld
  BY LegacyRowsHaveNoKey, RolesAreTasks DEF Init, KeyHeld
<1>2. KeyHeld => OneTaskPerKey
  BY DEF KeyHeld, OneTaskPerKey
<1>3. QED
  BY <1>1, <1>2, TypeInit, TypeStep, HasJobStep, AttemptsLeftStep, KeyStep, PTL DEF Spec

-----------------------------------------------------------------------------
(* The failure hook.                                                       *)

\* What makes FailureConverged inductive: a task that the migration found is never
\* published, so no attempt works on it; only a retryable type, which has no hook,
\* goes back to pending; so a pending task with a hook carries no cancellation, and
\* a cancel_task that read "running" will not find it pending.
HookInv ==
    /\ \A t \in Legacy : ~wake[t]
    /\ \A w \in Worker : pc[w] # "idle" => job[w] \notin Legacy
    /\ \A w \in Worker : pc[w] = "retry" => job[w] \notin Hooked
    /\ \A t \in Hooked : /\ t \notin Legacy /\ status[t] = "pending" => ~cancel[t]
                         /\ status[t] = "absent" => ~cancel[t]
                         /\ seen[t] # "none" => status[t] # "absent"
                         /\ seen[t] = "other" => status[t] # "pending"

\* Every step keeps HookInv.
LEMMA HookStep == TypeOK /\ HasJob /\ HookInv /\ [Next]_vars => HookInv'
<1> SUFFICES ASSUME TypeOK, HasJob, HookInv, [Next]_vars PROVE HookInv'
  OBVIOUS
<1>1. ASSUME NEW t \in Task, NEW opens \in BOOLEAN, CreateTask(t, opens) PROVE HookInv'
  BY <1>1 DEF CreateTask, HookInv, TypeOK
<1>2. ASSUME NEW t \in Task, ReadForCancel(t) PROVE HookInv'
  BY <1>2 DEF ReadForCancel, HookInv, TypeOK
<1>3. ASSUME NEW t \in Task, CancelTask(t) PROVE HookInv'
  BY <1>3, RolesAreTasks DEF CancelTask, RequestCancel, EndRow, KeepRow, FailureHook, HookInv,
     TypeOK
<1>4. ASSUME NEW t \in Task, DeleteTerminal(t) PROVE HookInv'
  BY <1>4 DEF DeleteTerminal, HookInv, TypeOK
<1>5. ASSUME NEW t \in Task, Publish(t) PROVE HookInv'
  BY <1>5 DEF Publish, HookInv, TypeOK
<1>6. ASSUME NEW t \in Task, SettleUnbuildable(t) PROVE HookInv'
  BY <1>6 DEF SettleUnbuildable, EndRow, FailureHook, HookInv, TypeOK
<1>7. ASSUME NEW w \in Worker, NEW t \in Task, Deliver(w, t) PROVE HookInv'
  BY <1>7 DEF Deliver, Goto, HookInv, TypeOK
<1>8. ASSUME NEW w \in Worker, CancelBeforeClaim(w) PROVE HookInv'
  BY <1>8, RolesAreTasks DEF CancelBeforeClaim, RequestCancel, EndRow, KeepRow, FailureHook,
     Leave, Goto, HookInv, TypeOK
<1>9. ASSUME NEW w \in Worker, CountRunning(w) PROVE HookInv'
  BY <1>9 DEF CountRunning, Leave, Goto, HookInv, TypeOK
<1>10. ASSUME NEW w \in Worker, Claim(w) PROVE HookInv'
  BY <1>10, RolesAreTasks DEF Claim, EndRow, Leave, Goto, HookInv, TypeOK
<1>11. ASSUME NEW w \in Worker, Checkpoint(w) PROVE HookInv'
  BY <1>11 DEF Checkpoint, IsLiveOwner, HookInv, TypeOK
<1>12. ASSUME NEW w \in Worker, NEW label \in Attempt, EndHandler(w, label) PROVE HookInv'
  BY <1>12, RegistrySeparates DEF EndHandler, Goto, HookInv, TypeOK
<1>13. ASSUME NEW w \in Worker, Finish(w) PROVE HookInv'
  BY <1>13, RolesAreTasks DEF Finish, FinishOwned, IsLiveOwner, EndRow, KeepRow, FailureHook,
     Leave, Goto, HookInv, TypeOK
<1>14. ASSUME NEW w \in Worker, RequeueOwned(w) PROVE HookInv'
  BY <1>14, RolesAreTasks DEF RequeueOwned, IsLiveOwner, BackToPending, EndRow, Leave, Goto,
     HookInv, TypeOK
<1>15. ASSUME NEW w \in Worker, ReleaseInterrupted(w) PROVE HookInv'
  BY <1>15, RolesAreTasks DEF ReleaseInterrupted, IsLiveOwner, EndRow, KeepRow, FailureHook,
     Leave, Goto, HookInv, TypeOK
<1>16. ASSUME NEW w \in Worker, LoseLease(w) PROVE HookInv'
  BY <1>16 DEF LoseLease, Leave, Goto, HookInv, TypeOK
<1>17. ASSUME NEW w \in Worker, Crash(w) PROVE HookInv'
  BY <1>17 DEF Crash, Leave, Goto, HookInv, TypeOK
<1>18. CASE Tick
  BY <1>18 DEF Tick, HookInv, TypeOK
<1>19. ASSUME NEW w \in Worker, Heartbeat(w) PROVE HookInv'
  BY <1>19 DEF Heartbeat, IsLiveOwner, HookInv, TypeOK
<1>20. ASSUME NEW S \in SUBSET Task, ReconcileLeases(S) PROVE HookInv'
  BY <1>20, RolesAreTasks DEF ReconcileLeases, HookInv, TypeOK
<1>21. CASE UNCHANGED vars
  BY <1>21 DEF vars, HookInv, TypeOK
<1>22. QED
  BY <1>1, <1>2, <1>3, <1>4, <1>5, <1>6, <1>7, <1>8, <1>9, <1>10, <1>11, <1>12, <1>13, <1>14,
     <1>15, <1>16, <1>17, <1>18, <1>19, <1>20, <1>21 DEF Next, ClaimStep, EndAttempt

\* Every step keeps FailureConverged.
LEMMA ConvergedStep ==
    TypeOK /\ HasJob /\ HookInv /\ FailureConverged /\ [Next]_vars => FailureConverged'
<1> SUFFICES ASSUME TypeOK, HasJob, HookInv, FailureConverged, [Next]_vars PROVE FailureConverged'
  OBVIOUS
<1>1. ASSUME NEW t \in Task, NEW opens \in BOOLEAN, CreateTask(t, opens) PROVE FailureConverged'
  BY <1>1 DEF CreateTask, FailureConverged, HookInv, TypeOK
<1>2. ASSUME NEW t \in Task, ReadForCancel(t) PROVE FailureConverged'
  BY <1>2 DEF ReadForCancel, FailureConverged, HookInv, TypeOK
<1>3. ASSUME NEW t \in Task, CancelTask(t) PROVE FailureConverged'
  BY <1>3, RolesAreTasks DEF CancelTask, RequestCancel, EndRow, KeepRow, FailureHook,
     FailureConverged, HookInv, TypeOK
<1>4. ASSUME NEW t \in Task, DeleteTerminal(t) PROVE FailureConverged'
  BY <1>4 DEF DeleteTerminal, FailureConverged, HookInv, TypeOK
<1>5. ASSUME NEW t \in Task, Publish(t) PROVE FailureConverged'
  BY <1>5 DEF Publish, FailureConverged, HookInv, TypeOK
<1>6. ASSUME NEW t \in Task, SettleUnbuildable(t) PROVE FailureConverged'
  BY <1>6 DEF SettleUnbuildable, EndRow, FailureHook, FailureConverged, HookInv, TypeOK
<1>7. ASSUME NEW w \in Worker, NEW t \in Task, Deliver(w, t) PROVE FailureConverged'
  BY <1>7 DEF Deliver, Goto, FailureConverged, HookInv, TypeOK
<1>8. ASSUME NEW w \in Worker, CancelBeforeClaim(w) PROVE FailureConverged'
  BY <1>8, RolesAreTasks DEF CancelBeforeClaim, RequestCancel, EndRow, KeepRow, FailureHook,
     Leave, Goto, FailureConverged, HookInv, TypeOK
<1>9. ASSUME NEW w \in Worker, CountRunning(w) PROVE FailureConverged'
  BY <1>9 DEF CountRunning, Leave, Goto, FailureConverged, HookInv, TypeOK
<1>10. ASSUME NEW w \in Worker, Claim(w) PROVE FailureConverged'
  BY <1>10, RolesAreTasks DEF Claim, EndRow, Leave, Goto, FailureConverged, HookInv, TypeOK
<1>11. ASSUME NEW w \in Worker, Checkpoint(w) PROVE FailureConverged'
  BY <1>11 DEF Checkpoint, IsLiveOwner, FailureConverged, HookInv, TypeOK
<1>12. ASSUME NEW w \in Worker, NEW label \in Attempt, EndHandler(w, label) PROVE FailureConverged'
  BY <1>12 DEF EndHandler, Goto, FailureConverged, HookInv, TypeOK
<1>13. ASSUME NEW w \in Worker, Finish(w) PROVE FailureConverged'
  <2>1. ASSUME NEW label, NEW st \in Terminal, NEW closes \in BOOLEAN, st # "success" => ~closes,
               FinishOwned(w, label, st, closes)
        PROVE  FailureConverged'
    <3>1. CASE ~IsLiveOwner(job[w], w)
      BY <2>1, <3>1 DEF FinishOwned, KeepRow, FailureConverged
    <3>2. CASE IsLiveOwner(job[w], w) /\ (cancel[job[w]] \/ st # "success")
      <4>1. open' = [open EXCEPT ![job[w]] = @ /\ job[w] \notin Hooked]
        BY <2>1, <3>2 DEF FinishOwned, FailureHook
      <4>2. job[w] \in Hooked => ~open'[job[w]]
        BY <4>1, RolesAreTasks DEF TypeOK
      <4>3. \A u \in Task \ {job[w]} : status'[u] = status[u] /\ open'[u] = open[u]
        BY <2>1, <3>2, <4>1 DEF FinishOwned, EndRow, TypeOK
      <4>4. QED
        BY <4>2, <4>3, RolesAreTasks DEF FailureConverged
    <3>3. CASE IsLiveOwner(job[w], w) /\ ~cancel[job[w]] /\ st = "success"
      <4>1. open' = [open EXCEPT ![job[w]] = @ /\ ~closes]
        BY <2>1, <3>3 DEF FinishOwned
      <4>2. status' = [status EXCEPT ![job[w]] = "success"]
        BY <2>1, <3>3 DEF FinishOwned, EndRow
      <4>3. \A u \in Task \ {job[w]} : status'[u] = status[u] /\ open'[u] = open[u]
        BY <4>1, <4>2 DEF TypeOK
      <4>4. job[w] \in Hooked => status'[job[w]] \notin {"failed", "cancelled"}
        BY <4>2, RolesAreTasks DEF TypeOK
      <4>5. QED
        BY <4>3, <4>4, RolesAreTasks DEF FailureConverged
    <3>4. QED
      BY <3>1, <3>2, <3>3
  <2>2. QED
    BY <1>13, <2>1 DEF Finish
<1>14. ASSUME NEW w \in Worker, RequeueOwned(w) PROVE FailureConverged'
  BY <1>14, RolesAreTasks DEF RequeueOwned, IsLiveOwner, BackToPending, EndRow, Leave, Goto,
     FailureConverged, HookInv, TypeOK
<1>15. ASSUME NEW w \in Worker, ReleaseInterrupted(w) PROVE FailureConverged'
  BY <1>15, RolesAreTasks DEF ReleaseInterrupted, IsLiveOwner, EndRow, KeepRow, FailureHook,
     Leave, Goto, FailureConverged, HookInv, TypeOK
<1>16. ASSUME NEW w \in Worker, LoseLease(w) PROVE FailureConverged'
  BY <1>16 DEF LoseLease, Leave, Goto, FailureConverged, HookInv, TypeOK
<1>17. ASSUME NEW w \in Worker, Crash(w) PROVE FailureConverged'
  BY <1>17 DEF Crash, Leave, Goto, FailureConverged, HookInv, TypeOK
<1>18. CASE Tick
  BY <1>18 DEF Tick, FailureConverged, HookInv, TypeOK
<1>19. ASSUME NEW w \in Worker, Heartbeat(w) PROVE FailureConverged'
  BY <1>19 DEF Heartbeat, IsLiveOwner, FailureConverged, HookInv, TypeOK
<1>20. ASSUME NEW S \in SUBSET Task, ReconcileLeases(S) PROVE FailureConverged'
  BY <1>20, RolesAreTasks DEF ReconcileLeases, FailureConverged, HookInv, TypeOK
<1>21. CASE UNCHANGED vars
  BY <1>21 DEF vars, FailureConverged, HookInv, TypeOK
<1>22. QED
  BY <1>1, <1>2, <1>3, <1>4, <1>5, <1>6, <1>7, <1>8, <1>9, <1>10, <1>11, <1>12, <1>13, <1>14,
     <1>15, <1>16, <1>17, <1>18, <1>19, <1>20, <1>21 DEF Next, ClaimStep, EndAttempt

\* A failed or cancelled task leaves no intermediate domain state behind, whichever
\* of the six paths ended it and whatever a late attempt still writes.
THEOREM FailureConvergedCorrect == Spec => []FailureConverged
<1>1. Init => HookInv /\ FailureConverged
  BY RolesAreTasks DEF Init, HookInv, FailureConverged
<1>2. QED
  BY <1>1, TypeInit, TypeStep, HasJobStep, AttemptsLeftStep, HookStep, ConvergedStep, PTL DEF Spec

-----------------------------------------------------------------------------
(* The life of a task.                                                     *)

\* What the label of an attempt says about its task (auxiliary): only a retryable
\* type is given back, and "cancelled" is what a handler that was told to stop says.
LabelsMean ==
    \A w \in Worker : /\ pc[w] = "retry" => job[w] \in Retryable
                      /\ pc[w] = "cancelled" => cancel[job[w]]

\* Every step keeps LabelsMean.
LEMMA LabelStep == TypeOK /\ HasJob /\ LabelsMean /\ [Next]_vars => LabelsMean'
<1> SUFFICES ASSUME TypeOK, HasJob, LabelsMean, [Next]_vars PROVE LabelsMean'
  OBVIOUS
<1>1. ASSUME NEW t \in Task, NEW opens \in BOOLEAN, CreateTask(t, opens) PROVE LabelsMean'
  BY <1>1 DEF CreateTask, HasJob, LabelsMean, TypeOK
<1>2. ASSUME NEW t \in Task, ReadForCancel(t) PROVE LabelsMean'
  BY <1>2 DEF ReadForCancel, HasJob, LabelsMean, TypeOK
<1>3. ASSUME NEW t \in Task, CancelTask(t) PROVE LabelsMean'
  BY <1>3 DEF CancelTask, RequestCancel, HasJob, LabelsMean, TypeOK
<1>4. ASSUME NEW t \in Task, DeleteTerminal(t) PROVE LabelsMean'
  BY <1>4 DEF DeleteTerminal, HasJob, LabelsMean, TypeOK
<1>5. ASSUME NEW t \in Task, Publish(t) PROVE LabelsMean'
  BY <1>5 DEF Publish, HasJob, LabelsMean, TypeOK
<1>6. ASSUME NEW t \in Task, SettleUnbuildable(t) PROVE LabelsMean'
  BY <1>6 DEF SettleUnbuildable, HasJob, LabelsMean, TypeOK
<1>7. ASSUME NEW w \in Worker, NEW t \in Task, Deliver(w, t) PROVE LabelsMean'
  BY <1>7 DEF Deliver, Goto, HasJob, LabelsMean, TypeOK
<1>8. ASSUME NEW w \in Worker, CancelBeforeClaim(w) PROVE LabelsMean'
  BY <1>8 DEF CancelBeforeClaim, RequestCancel, Leave, Goto, HasJob, LabelsMean, TypeOK
<1>9. ASSUME NEW w \in Worker, CountRunning(w) PROVE LabelsMean'
  BY <1>9 DEF CountRunning, Leave, Goto, HasJob, LabelsMean, TypeOK
<1>10. ASSUME NEW w \in Worker, Claim(w) PROVE LabelsMean'
  BY <1>10 DEF Claim, Leave, Goto, HasJob, LabelsMean, TypeOK
<1>11. ASSUME NEW w \in Worker, Checkpoint(w) PROVE LabelsMean'
  BY <1>11 DEF Checkpoint, HasJob, LabelsMean, TypeOK
<1>12. ASSUME NEW w \in Worker, NEW label \in Attempt, EndHandler(w, label) PROVE LabelsMean'
  BY <1>12 DEF EndHandler, Goto, HasJob, LabelsMean, TypeOK
<1>13. ASSUME NEW w \in Worker, Finish(w) PROVE LabelsMean'
  BY <1>13 DEF Finish, FinishOwned, Leave, Goto, HasJob, LabelsMean, TypeOK
<1>14. ASSUME NEW w \in Worker, RequeueOwned(w) PROVE LabelsMean'
  BY <1>14 DEF RequeueOwned, Leave, Goto, HasJob, LabelsMean, TypeOK
<1>15. ASSUME NEW w \in Worker, ReleaseInterrupted(w) PROVE LabelsMean'
  BY <1>15 DEF ReleaseInterrupted, Leave, Goto, HasJob, LabelsMean, TypeOK
<1>16. ASSUME NEW w \in Worker, LoseLease(w) PROVE LabelsMean'
  BY <1>16 DEF LoseLease, Leave, Goto, HasJob, LabelsMean, TypeOK
<1>17. ASSUME NEW w \in Worker, Crash(w) PROVE LabelsMean'
  BY <1>17 DEF Crash, Leave, Goto, HasJob, LabelsMean, TypeOK
<1>18. CASE Tick
  BY <1>18 DEF Tick, HasJob, LabelsMean, TypeOK
<1>19. ASSUME NEW w \in Worker, Heartbeat(w) PROVE LabelsMean'
  BY <1>19 DEF Heartbeat, HasJob, LabelsMean, TypeOK
<1>20. ASSUME NEW S \in SUBSET Task, ReconcileLeases(S) PROVE LabelsMean'
  BY <1>20 DEF ReconcileLeases, HasJob, LabelsMean, TypeOK
<1>21. CASE UNCHANGED vars
  BY <1>21 DEF vars, HasJob, LabelsMean, TypeOK
<1>22. QED
  BY <1>1, <1>2, <1>3, <1>4, <1>5, <1>6, <1>7, <1>8, <1>9, <1>10, <1>11, <1>12, <1>13, <1>14,
     <1>15, <1>16, <1>17, <1>18, <1>19, <1>20, <1>21 DEF Next, ClaimStep, EndAttempt

\* Nothing that TaskLife sees of t changes (auxiliary).
KeepsLife(t) ==
    /\ status'[t] = status[t] /\ cancel'[t] = cancel[t]
    /\ open'[t] = open[t] /\ attempts'[t] = attempts[t]
    /\ status[t] = "running" => (lease'[t] = 0 <=> lease[t] = 0)

\* Then t stays as it is for TaskLife.
LEMMA KeepsStays ==
    ASSUME NEW t \in Task, KeepsLife(t)
    PROVE  Life!Stays(t)
BY DEF KeepsLife, Life!Stays, Life!KeepsTold, Life!KeepsOpen, Life!KeepsTries

\* One task moves, or none does.
LEMMA OneMoves ==
    ASSUME NEW t \in Task, \A o \in Task \ {t} : KeepsLife(o), Life!Moves(t) \/ KeepsLife(t)
    PROVE  Life!Next
<1>1. \A o \in Task \ {t} : Life!Stays(o)
  BY KeepsStays
<1>2. CASE Life!Moves(t)
  BY <1>1, <1>2 DEF Life!Next
<1>3. CASE KeepsLife(t)
  BY <1>1, <1>3, KeepsStays DEF Life!Next
<1>4. QED
  BY <1>2, <1>3

\* A step that touches no row is a stuttering step of TaskLife.
LEMMA RowsKept ==
    ASSUME UNCHANGED <<status, cancel, lease, attempts, open>>
    PROVE  Life!Next
BY KeepsStays DEF KeepsLife, Life!Next

\* What the end of a row does to it and to the others.
LEMMA RowEnds ==
    ASSUME TypeOK, NEW t \in Task, NEW st, EndRow(t, st), UNCHANGED attempts
    PROVE  /\ status'[t] = st /\ attempts'[t] = attempts[t]
           /\ \A o \in Task \ {t} : status'[o] = status[o] /\ lease'[o] = lease[o]
                                  /\ attempts'[o] = attempts[o]
BY DEF EndRow, TypeOK

\* What the failure hook does.
LEMMA HookCloses ==
    ASSUME TypeOK, NEW t \in Task, FailureHook(t)
    PROVE  /\ open'[t] = (open[t] /\ t \notin Hooked)
           /\ \A o \in Task \ {t} : open'[o] = open[o]
BY DEF FailureHook, TypeOK

\* request_cancel with the hook cancels the task, or does nothing to one that ended;
\* the hook may be missing where there is nothing to close.
LEMMA CancelIsLife ==
    ASSUME TypeOK, NEW t \in Task, NEW hook \in BOOLEAN, RequestCancel(t, hook), UNCHANGED attempts,
           status[t] = "pending" /\ t \in Hooked => hook
    PROVE  Life!Next
<1>1. /\ cancel'[t] = (cancel[t] \/ status[t] \in Active)
      /\ \A o \in Task \ {t} : cancel'[o] = cancel[o]
  BY DEF RequestCancel, TypeOK
<1>2. CASE status[t] = "pending"
  <2>1. EndRow(t, "cancelled") /\ (IF hook THEN FailureHook(t) ELSE UNCHANGED open)
    BY <1>2 DEF RequestCancel
  <2>2. \A o \in Task \ {t} : KeepsLife(o)
    BY <1>1, <2>1, RowEnds, HookCloses DEF KeepsLife
  <2>3. open'[t] = (open[t] /\ t \notin Hooked)
    <3>1. CASE hook
      BY <2>1, <3>1, HookCloses
    <3>2. CASE ~hook
      <4>1. t \notin Hooked /\ open'[t] = open[t]
        BY <1>2, <2>1, <3>2
      <4>2. QED
        BY <4>1 DEF TypeOK
    <3>3. QED
      BY <3>1, <3>2
  <2>4. status'[t] = "cancelled" /\ attempts'[t] = attempts[t] /\ cancel'[t]
    BY <1>1, <1>2, <2>1, RowEnds
  <2>5. Life!Cancelled(t)
    BY <1>2, <2>3, <2>4 DEF Life!Cancelled, Life!Becomes, Life!Converges, Life!KeepsTries
  <2>6. QED
    BY <2>2, <2>5, OneMoves DEF Life!Moves
<1>3. CASE status[t] # "pending"
  <2>1. UNCHANGED <<status, lease, open>>
    BY <1>3 DEF RequestCancel, KeepRow
  <2>2. \A o \in Task \ {t} : KeepsLife(o)
    BY <1>1, <2>1 DEF KeepsLife
  <2>3. CASE status[t] = "running"
    <3>1. cancel'[t] /\ status'[t] = "running" /\ lease'[t] = lease[t] /\ open'[t] = open[t]
          /\ attempts'[t] = attempts[t]
      BY <1>1, <2>1, <2>3
    <3>2. Life!Cancelled(t)
      BY <2>3, <3>1 DEF Life!Cancelled, Life!Becomes, Life!KeepsOpen, Life!KeepsTries
    <3>3. QED
      BY <2>2, <3>2, OneMoves DEF Life!Moves
  <2>4. CASE status[t] # "running"
    <3>1. cancel'[t] = cancel[t]
      BY <1>1, <1>3, <2>4 DEF TypeOK
    <3>2. KeepsLife(t)
      BY <2>1, <3>1 DEF KeepsLife
    <3>3. QED
      BY <2>2, <3>2, OneMoves
  <2>5. QED
    BY <2>3, <2>4
<1>4. QED
  BY <1>2, <1>3

\* finish_owned and release_interrupted_owner: the end of a live attempt.
LEMMA EndIsLife ==
    ASSUME TypeOK, NEW t \in Task, NEW st \in Terminal, EndRow(t, st),
           UNCHANGED <<cancel, attempts>>,
           status[t] = "running", lease[t] > 0,
           st = "cancelled" => cancel[t],
           \/ FailureHook(t) /\ (st = "success" => ~cancel[t])
           \/ /\ st = "success" /\ ~cancel[t]
              /\ \E closes \in BOOLEAN : open' = [open EXCEPT ![t] = @ /\ ~closes]
    PROVE  Life!Next
<1>1. /\ open'[t] => open[t]
      /\ st # "success" => open'[t] = (open[t] /\ t \notin Hooked)
      /\ \A o \in Task \ {t} : open'[o] = open[o]
  <2>1. CASE FailureHook(t)
    BY <2>1, HookCloses
  <2>2. CASE st = "success" /\ \E closes \in BOOLEAN : open' = [open EXCEPT ![t] = @ /\ ~closes]
    BY <2>2 DEF TypeOK
  <2>3. QED
    BY <2>1, <2>2
<1>2. \A o \in Task \ {t} : KeepsLife(o)
  BY <1>1, RowEnds DEF KeepsLife
<1>3. status'[t] = st /\ attempts'[t] = attempts[t] /\ cancel'[t] = cancel[t]
  BY RowEnds
<1>4. st = "success" => ~cancel[t]
  OBVIOUS
<1>5. Life!Finished(t)
  BY <1>1, <1>3, <1>4 DEF Life!Finished, Life!Becomes, Life!Converges, Life!KeepsTold,
     Life!KeepsTries, TypeOK
<1>6. QED
  BY <1>2, <1>5, OneMoves DEF Life!Moves

\* TaskLife counts as FiniteSets does.
LEMMA SameCardinality == \A S : Life!Cardinality(S) = Cardinality(S)
BY DEF Life!Cardinality, Cardinality

\* What the steps of TaskLife need to know of the rows (auxiliary).
LifeInv == HookInv /\ CountHolds /\ KeyHeld /\ LabelsMean

\* Every step is a step of TaskLife.
LEMMA LifeStep == TypeOK /\ HasJob /\ AttemptsLeft /\ LifeInv /\ [Next]_vars => Life!Next
<1> SUFFICES ASSUME TypeOK, HasJob, AttemptsLeft, LifeInv, [Next]_vars PROVE Life!Next
  OBVIOUS
<1>1. ASSUME NEW t \in Task, NEW opens \in BOOLEAN, CreateTask(t, opens) PROVE Life!Next
  <2>1. \A o \in Task \ {t} : KeepsLife(o)
    BY <1>1 DEF CreateTask, KeepsLife, TypeOK
  <2>2. t \in Deduped => \A o \in Deduped : status[o] \notin Active
    BY <1>1 DEF CreateTask, LifeInv, KeyHeld
  <2>3. t \in Deduped => \A o \in Deduped :
          (IF status[o] = "running" /\ lease[o] = 0 THEN "lost" ELSE status[o]) \notin Life!Active
    BY <2>2, RolesAreTasks DEF Life!Active, TypeOK
  <2>4. status[t] = "absent" /\ status'[t] = "pending" /\ (open'[t] => t \in Hooked)
        /\ cancel'[t] = cancel[t] /\ attempts'[t] = attempts[t]
    BY <1>1 DEF CreateTask, TypeOK
  <2>5. Life!Created(t)
    BY <2>3, <2>4, RolesAreTasks DEF Life!Created, Life!Becomes, Life!KeepsTold, Life!KeepsTries
  <2>6. QED
    BY <2>1, <2>5, OneMoves DEF Life!Moves
<1>2. ASSUME NEW t \in Task, ReadForCancel(t) PROVE Life!Next
  BY <1>2, RowsKept DEF ReadForCancel
<1>3. ASSUME NEW t \in Task, CancelTask(t) PROVE Life!Next
  <2>1. status[t] = "pending" /\ t \in Hooked => seen[t] = "pending"
    BY <1>3 DEF CancelTask, LifeInv, HookInv, TypeOK
  <2>2. QED
    BY <1>3, <2>1, CancelIsLife DEF CancelTask
<1>4. ASSUME NEW t \in Task, DeleteTerminal(t) PROVE Life!Next
  <2>1. \A o \in Task \ {t} : KeepsLife(o)
    BY <1>4 DEF DeleteTerminal, KeepsLife, TypeOK
  <2>2. Life!Deleted(t)
    BY <1>4 DEF DeleteTerminal, Life!Deleted, Life!Becomes, Life!KeepsTold, Life!KeepsOpen,
       Life!KeepsTries, TypeOK
  <2>3. QED
    BY <2>1, <2>2, OneMoves DEF Life!Moves
<1>5. ASSUME NEW t \in Task, Publish(t) PROVE Life!Next
  BY <1>5, RowsKept DEF Publish
<1>6. ASSUME NEW t \in Task, SettleUnbuildable(t) PROVE Life!Next
  <2> DEFINE st == IF cancel[t] THEN "cancelled" ELSE "failed"
  <2>1. EndRow(t, st) /\ FailureHook(t) /\ UNCHANGED <<cancel, attempts>>
        /\ status[t] = "pending" /\ t \in Legacy
    BY <1>6 DEF SettleUnbuildable
  <2>2. status'[t] = st /\ attempts'[t] = attempts[t] /\ cancel'[t] = cancel[t]
        /\ open'[t] = (open[t] /\ t \notin Hooked)
    BY <2>1, RowEnds, HookCloses
  <2>3. \A o \in Task \ {t} : KeepsLife(o)
    BY <2>1, RowEnds, HookCloses DEF KeepsLife
  <2>4. Life!Refused(t)
    BY <2>1, <2>2 DEF Life!Refused, Life!Becomes, Life!Converges, Life!KeepsTold, Life!KeepsTries
  <2>5. QED
    BY <2>3, <2>4, OneMoves DEF Life!Moves
<1>7. ASSUME NEW w \in Worker, NEW t \in Task, Deliver(w, t) PROVE Life!Next
  BY <1>7, RowsKept DEF Deliver
<1>8. ASSUME NEW w \in Worker, CancelBeforeClaim(w) PROVE Life!Next
  <2>1. job[w] \in Task
    BY <1>8 DEF CancelBeforeClaim, HasJob
  <2>2. QED
    BY <1>8, <2>1, CancelIsLife DEF CancelBeforeClaim
<1>9. ASSUME NEW w \in Worker, CountRunning(w) PROVE Life!Next
  BY <1>9, RowsKept DEF CountRunning
<1>10. ASSUME NEW w \in Worker, Claim(w) PROVE Life!Next
  <2>0. PICK t \in Task : t = job[w]
    BY <1>10 DEF Claim, HasJob
  <2>1. t \notin Legacy /\ pc[w] = "counted" /\ UNCHANGED <<cancel, open>>
    BY <1>10, <2>0 DEF Claim, HasJob, LifeInv, HookInv
  <2>2. CASE status[t] = "pending" /\ ~cancel[t]
    <3>1. /\ status' = [status EXCEPT ![t] = "running"]
          /\ lease' = [lease EXCEPT ![t] = LeaseTicks]
          /\ attempts' = [attempts EXCEPT ![t] = @ + 1]
      BY <1>10, <2>0, <2>2 DEF Claim
    <3>2. \A o \in Task \ {t} : KeepsLife(o)
      BY <2>1, <3>1 DEF KeepsLife, TypeOK
    <3>3. status'[t] = "running" /\ lease'[t] # 0 /\ attempts'[t] = attempts[t] + 1
      BY <2>1, <3>1, LimitsPositive DEF TypeOK
    <3>4. Life!Executed = Running \ Legacy
      BY DEF Life!Executed, Running, TypeOK
    <3>5. Life!Cardinality(Life!Executed) < MaxRunning
      BY <2>1, <3>4, SameCardinality DEF LifeInv, CountHolds
    <3>6. Life!Started(t)
      BY <2>1, <2>2, <3>3, <3>5 DEF Life!Started, Life!Becomes, Life!KeepsTold, Life!KeepsOpen
    <3>7. QED
      BY <2>1, <3>2, <3>6, OneMoves DEF Life!Moves
  <2>3. CASE status[t] = "pending" /\ cancel[t]
    <3>1. EndRow(t, "cancelled") /\ UNCHANGED attempts
      BY <1>10, <2>0, <2>3 DEF Claim
    <3>2. t \notin Hooked
      BY <2>1, <2>3 DEF LifeInv, HookInv
    <3>3. \A o \in Task \ {t} : KeepsLife(o)
      BY <2>1, <3>1, RowEnds DEF KeepsLife
    <3>4. status'[t] = "cancelled" /\ attempts'[t] = attempts[t] /\ cancel'[t]
      BY <2>1, <2>3, <3>1, RowEnds
    <3>5. open'[t] = (open[t] /\ t \notin Hooked)
      BY <2>1, <3>2 DEF TypeOK
    <3>6. Life!Cancelled(t)
      BY <2>1, <2>3, <3>4, <3>5 DEF Life!Cancelled, Life!Becomes, Life!Converges, Life!KeepsTries
    <3>7. QED
      BY <2>1, <3>3, <3>6, OneMoves DEF Life!Moves
  <2>4. CASE status[t] # "pending"
    BY <1>10, <2>0, <2>4, RowsKept DEF Claim
  <2>5. QED
    BY <2>2, <2>3, <2>4
<1>11. ASSUME NEW w \in Worker, Checkpoint(w) PROVE Life!Next
  <2>0. PICK t \in Task : t = job[w]
    BY <1>11 DEF Checkpoint, HasJob, Attempt
  <2>1. t \in Hooked /\ status[t] = "running" /\ lease[t] > 0
    BY <1>11, <2>0, RolesAreTasks DEF Checkpoint, IsLiveOwner
  <2>2. open' = [open EXCEPT ![t] = ~@] /\ UNCHANGED <<status, cancel, lease, attempts>>
    BY <1>11, <2>0 DEF Checkpoint
  <2>3. \A o \in Task \ {t} : KeepsLife(o)
    BY <2>2 DEF KeepsLife, TypeOK
  <2>4. Life!Writes(t)
    BY <2>1, <2>2 DEF Life!Writes, Life!Becomes, Life!KeepsTold, Life!KeepsTries, TypeOK
  <2>5. QED
    BY <2>1, <2>3, <2>4, OneMoves DEF Life!Moves
<1>12. ASSUME NEW w \in Worker, NEW label \in Attempt, EndHandler(w, label) PROVE Life!Next
  BY <1>12, RowsKept DEF EndHandler
<1>13. ASSUME NEW w \in Worker, Finish(w) PROVE Life!Next
  <2>1. ASSUME NEW label \in Attempt, NEW st \in Terminal, NEW closes \in BOOLEAN,
               FinishOwned(w, label, st, closes),
               st = "cancelled" => label = "cancelled"
        PROVE  Life!Next
    <3> DEFINE t == job[w]
               end == IF cancel[t] THEN "cancelled" ELSE st
    <3>1. t \in Task /\ UNCHANGED <<cancel, attempts>>
      BY <2>1 DEF FinishOwned, HasJob, Attempt
    <3>2. CASE ~IsLiveOwner(t, w)
      BY <2>1, <3>2, RowsKept DEF FinishOwned, KeepRow
    <3>3. CASE IsLiveOwner(t, w)
      <4>1. EndRow(t, end) /\ status[t] = "running" /\ lease[t] > 0
        BY <2>1, <3>3 DEF FinishOwned, IsLiveOwner
      <4>2. st = "cancelled" => cancel[t]
        BY <2>1 DEF FinishOwned, LifeInv, LabelsMean
      <4>3. \/ FailureHook(t) /\ (end = "success" => ~cancel[t])
            \/ end = "success" /\ ~cancel[t] /\ open' = [open EXCEPT ![t] = @ /\ ~closes]
        BY <2>1, <3>3 DEF FinishOwned
      <4>4. end \in Terminal /\ (end = "cancelled" => cancel[t])
        BY <4>2
      <4> HIDE DEF end, t
      <4>5. QED
        BY <3>1, <4>1, <4>3, <4>4, EndIsLife
    <3>4. QED
      BY <3>2, <3>3
  <2>2. QED
    BY <1>13, <2>1 DEF Finish, Attempt
<1>14. ASSUME NEW w \in Worker, RequeueOwned(w) PROVE Life!Next
  <2>0. PICK t \in Task : t = job[w]
    BY <1>14 DEF RequeueOwned, HasJob
  <2>1. t \in Retryable /\ UNCHANGED <<cancel, attempts, open>>
    BY <1>14, <2>0 DEF RequeueOwned, HasJob, LifeInv, LabelsMean
  <2>2. CASE UNCHANGED <<status, lease>>
    BY <2>1, <2>2, RowsKept
  <2>3. CASE EndRow(t, "cancelled") /\ IsLiveOwner(t, w) /\ cancel[t]
    <3>1. FailureHook(t)
      BY <2>1, RegistrySeparates DEF FailureHook, TypeOK
    <3>2. QED
      BY <2>1, <2>3, <3>1, EndIsLife DEF IsLiveOwner
  <2>4. CASE BackToPending(t) /\ IsLiveOwner(t, w) /\ ~cancel[t] /\ ~(attempts[t] >= MaxAttempts)
    <3>1. \A o \in Task \ {t} : KeepsLife(o)
      BY <2>1, <2>4 DEF BackToPending, KeepsLife, TypeOK
    <3>2. status'[t] = "pending" /\ status[t] = "running" /\ lease[t] > 0
      BY <2>1, <2>4 DEF BackToPending, IsLiveOwner, TypeOK
    <3>3. attempts[t] < MaxAttempts
      BY <2>1, <2>4, LimitsPositive DEF TypeOK
    <3>4. Life!GivenBack(t)
      BY <2>1, <2>4, <3>2, <3>3 DEF Life!GivenBack, Life!Becomes, Life!KeepsTold,
         Life!KeepsOpen, Life!KeepsTries
    <3>5. QED
      BY <2>1, <3>1, <3>4, OneMoves DEF Life!Moves
  <2>5. QED
    BY <1>14, <2>0, <2>2, <2>3, <2>4 DEF RequeueOwned
<1>15. ASSUME NEW w \in Worker, ReleaseInterrupted(w) PROVE Life!Next
  <2> DEFINE t == job[w]
  <2>1. t \in Task /\ UNCHANGED <<cancel, attempts>>
    BY <1>15 DEF ReleaseInterrupted, HasJob
  <2>2. CASE IsLiveOwner(t, w)
    BY <1>15, <2>1, <2>2, EndIsLife DEF ReleaseInterrupted, IsLiveOwner
  <2>3. CASE ~IsLiveOwner(t, w)
    BY <1>15, <2>3, RowsKept DEF ReleaseInterrupted, KeepRow
  <2>4. QED
    BY <2>2, <2>3
<1>16. ASSUME NEW w \in Worker, LoseLease(w) PROVE Life!Next
  BY <1>16, RowsKept DEF LoseLease
<1>17. ASSUME NEW w \in Worker, Crash(w) PROVE Life!Next
  BY <1>17, RowsKept DEF Crash
<1>18. CASE Tick
  <2>1. ASSUME NEW t \in Task PROVE Life!Stays(t) \/ Life!Lost(t)
    <3>1. CASE KeepsLife(t)
      BY <3>1, KeepsStays
    <3>2. CASE ~KeepsLife(t)
      <4>1. status[t] = "running" /\ lease[t] # 0 /\ lease'[t] = 0
        BY <1>18, <3>2, LimitsPositive DEF Tick, KeepsLife, TypeOK
      <4>2. QED
        BY <1>18, <4>1 DEF Tick, Life!Lost, Life!Becomes, Life!KeepsTold, Life!KeepsOpen,
           Life!KeepsTries
    <3>3. QED
      BY <3>1, <3>2
  <2>2. QED
    BY <2>1 DEF Life!Next
<1>19. ASSUME NEW w \in Worker, Heartbeat(w) PROVE Life!Next
  <2>1. job[w] \in Task /\ lease[job[w]] > 0
    BY <1>19 DEF Heartbeat, IsLiveOwner, HasJob, Attempt
  <2>2. \A o \in Task : KeepsLife(o)
    BY <1>19, <2>1, LimitsPositive DEF Heartbeat, KeepsLife, TypeOK
  <2>3. QED
    BY <2>2, KeepsStays DEF Life!Next
<1>20. ASSUME NEW S \in SUBSET Task, ReconcileLeases(S) PROVE Life!Next
  <2>1. ASSUME NEW t \in Task PROVE Life!Stays(t) \/ Life!Failed(t)
    <3>1. open'[t] = (open[t] /\ t \notin S \cap Hooked)
      BY <1>20 DEF ReconcileLeases
    <3>2. CASE t \notin S
      <4>1. open'[t] = open[t]
        BY <3>1, <3>2 DEF TypeOK
      <4>2. KeepsLife(t)
        BY <1>20, <3>2, <4>1 DEF ReconcileLeases, KeepsLife
      <4>3. QED
        BY <4>2, KeepsStays
    <3>3. CASE t \in S
      <4>1. open'[t] = (open[t] /\ t \notin Hooked)
        BY <3>1, <3>3
      <4>2. status[t] = "running" /\ lease[t] = 0 /\ status'[t] = "failed"
            /\ cancel'[t] = cancel[t] /\ attempts'[t] = attempts[t]
        BY <1>20, <3>3 DEF ReconcileLeases
      <4>3. QED
        BY <4>1, <4>2 DEF Life!Failed, Life!Becomes, Life!Converges, Life!KeepsTold, Life!KeepsTries
    <3>4. QED
      BY <3>2, <3>3
  <2>2. QED
    BY <2>1 DEF Life!Next
<1>21. CASE UNCHANGED vars
  BY <1>21, RowsKept DEF vars
<1>22. QED
  BY <1>1, <1>2, <1>3, <1>4, <1>5, <1>6, <1>7, <1>8, <1>9, <1>10, <1>11, <1>12, <1>13, <1>14,
     <1>15, <1>16, <1>17, <1>18, <1>19, <1>20, <1>21 DEF Next, ClaimStep, EndAttempt

\* Every step keeps LifeInv.
LEMMA LifeInvStep == TypeOK /\ HasJob /\ LifeInv /\ [Next]_vars => LifeInv'
BY HookStep, CountStep, KeyStep, LabelStep DEF LifeInv

\* The rows that the migration found, and nothing else, is there at the start.
LEMMA LifeInit == Init => LifeInv /\ Life!Init
<1> SUFFICES ASSUME Init PROVE LifeInv /\ Life!Init
  OBVIOUS
<1>1. HookInv /\ KeyHeld
  BY RolesAreTasks, LegacyRowsHaveNoKey DEF Init, HookInv, KeyHeld
<1>2. CountHolds /\ LabelsMean
  BY DEF Init, CountHolds, LabelsMean
<1>3. \A t \in Task : lease[t] = 0 /\ status[t] \in {"absent", "pending", "running"}
  BY DEF Init
<1>4. QED
  BY <1>1, <1>2, <1>3 DEF LifeInv, Life!Init, Init

\* Tasks live as the code that enqueues them expects: the one task of a key, the
\* capacity, no new attempt and no success for a task told to stop, no result of an
\* attempt that lost its lease, and the domain state closed in every step that ends a
\* task without success.
THEOREM TaskLifeCorrect == Spec => ImplementsTaskLife
<1>1. TypeOK /\ HasJob /\ AttemptsLeft /\ LifeInv /\ [Next]_vars => [Life!Next]_(Life!vars)
  BY LifeStep
<1>2. QED
  BY <1>1, LifeInvStep, LifeInit, TypeInit, TypeStep, HasJobStep, AttemptsLeftStep, PTL
     DEF Spec, ImplementsTaskLife, Life!Spec

-----------------------------------------------------------------------------
(* Cancellations and late results, which follow from the life of a task.   *)

\* What TaskLife allows a task that was told to stop, and one that is lost.
LEMMA LifeAllows ==
    ASSUME NEW t \in Task, Life!Next, TypeOK, TypeOK'
    PROVE  /\ cancel[t] /\ status[t] \in Active => status'[t] \in {status[t], "failed", "cancelled"}
           /\ status[t] = "running" /\ lease[t] = 0 =>
                 \/ status'[t] = "failed"
                 \/ status'[t] = "running" /\ lease'[t] = 0 /\ open'[t] = open[t]
<1>1. status'[t] # "lost" /\ status[t] # "lost"
  BY DEF TypeOK
<1>2. Life!Stays(t) \/ Life!Lost(t) \/ Life!Failed(t) \/ Life!Moves(t)
  BY DEF Life!Next
<1>3. CASE Life!Stays(t)
  BY <1>1, <1>3 DEF Life!Stays, Life!KeepsOpen
<1>4. CASE Life!Lost(t) \/ Life!Failed(t)
  BY <1>1, <1>4 DEF Life!Lost, Life!Failed, Life!Becomes
<1>5. CASE Life!Moves(t)
  BY <1>1, <1>5 DEF Life!Moves, Life!Becomes, Life!Created, Life!Cancelled, Life!Refused,
     Life!Started, Life!Writes, Life!Finished, Life!GivenBack, Life!Deleted, Life!KeepsOpen
<1>6. QED
  BY <1>2, <1>3, <1>4, <1>5

\* Once a cancellation is recorded the task neither succeeds nor gets another
\* attempt.
THEOREM CancelHonouredCorrect == Spec => CancelHonoured
<1>1. TypeOK /\ TypeOK' /\ Life!Next =>
        [\A t \in Task : cancel[t] /\ status[t] \in Active =>
            status'[t] \in {status[t], "failed", "cancelled"}]_vars
  BY LifeAllows
<1>2. QED
  BY <1>1, LifeStep, LifeInvStep, LifeInit, TypeInit, TypeStep, HasJobStep, AttemptsLeftStep, PTL
     DEF Spec, CancelHonoured

\* A late result is refused: once the lease of an attempt has run out its task can
\* only fail, and no heartbeat revives it.
THEOREM ExpiredOnlyFailsCorrect == Spec => ExpiredOnlyFails
<1>1. TypeOK /\ TypeOK' /\ Life!Next =>
        [\A t \in Task : status[t] = "running" /\ lease[t] = 0 =>
            \/ status'[t] = "failed"
            \/ status'[t] = "running" /\ lease'[t] = 0 /\ open'[t] = open[t]]_vars
  BY LifeAllows
<1>2. QED
  BY <1>1, LifeStep, LifeInvStep, LifeInit, TypeInit, TypeStep, HasJobStep, AttemptsLeftStep, PTL
     DEF Spec, ExpiredOnlyFails

-----------------------------------------------------------------------------
(* Tasks that are executed once, as knowledge and evaluation handlers are.  *)

\* How far task t has got, in the words of KnowledgeFile.
Stage(t) ==
    IF status[t] \in {"absent", "pending"} THEN "waiting"
    ELSE IF status[t] # "running" THEN "ended"
    ELSE IF lease[t] = 0 THEN "expired" ELSE "running"

\* A task of a type without retryable exceptions has one attempt.
OneAttempt ==
    \A t \in Task \ Retryable :
        attempts[t] <= 1 /\ (Stage(t) = "waiting" => attempts[t] = 0)

\* Its stages follow each other, none comes back, and while no live attempt holds the
\* task its domain state is only opened with the task and closed with its end.
StageMove(t) ==
    /\ Stage(t) = "running" => Stage(t)' # "waiting"
    /\ Stage(t) = "expired" => Stage(t)' \in {"expired", "ended"}
    /\ Stage(t) = "ended"   => Stage(t)' = "ended"
    /\ open'[t] # open[t]   =>
          \/ status[t] = "absent"
          \/ Stage(t) = "running"
          \/ Stage(t)' = "ended" /\ ~open'[t]

StagesFollow == [][\A t \in Task \ Retryable : StageMove(t)]_vars

\* What TaskLife allows a task that is not retried.
LEMMA LifeStages ==
    ASSUME NEW t \in Task \ Retryable, Life!Next, TypeOK, TypeOK', OneAttempt
    PROVE  /\ StageMove(t)
           /\ attempts'[t] <= 1
           /\ Stage(t)' = "waiting" => attempts'[t] = 0
<1>1. /\ status[t] # "lost" /\ status'[t] # "lost"
      /\ attempts[t] \in Nat /\ open[t] \in BOOLEAN /\ open'[t] \in BOOLEAN
      /\ attempts[t] <= 1
      /\ status[t] \in {"absent", "pending"} => attempts[t] = 0
  BY DEF TypeOK, OneAttempt, Stage
<1>2. Life!Stays(t) \/ Life!Lost(t) \/ Life!Failed(t) \/ Life!Moves(t)
  BY DEF Life!Next
<1>3. CASE Life!Stays(t)
  BY <1>1, <1>3 DEF Life!Stays, Life!KeepsOpen, Life!KeepsTries, StageMove, Stage
<1>4. CASE Life!Lost(t) \/ Life!Failed(t)
  BY <1>1, <1>4 DEF Life!Lost, Life!Failed, Life!Becomes, Life!KeepsOpen, Life!KeepsTries,
     Life!Converges, StageMove, Stage
<1>5. CASE Life!Moves(t)
  <2>1. CASE Life!Created(t) \/ Life!Cancelled(t) \/ Life!Refused(t)
    BY <1>1, <2>1 DEF Life!Created, Life!Cancelled, Life!Refused, Life!Becomes,
       Life!KeepsOpen, Life!KeepsTries, Life!Converges, StageMove, Stage
  <2>2. CASE Life!Started(t) \/ Life!Writes(t) \/ Life!Finished(t)
    BY <1>1, <2>2 DEF Life!Started, Life!Writes, Life!Finished, Life!Becomes, Life!KeepsOpen,
       Life!KeepsTries, StageMove, Stage
  <2>3. CASE Life!GivenBack(t) \/ Life!Deleted(t)
    BY <1>1, <2>3 DEF Life!GivenBack, Life!Deleted, Life!Becomes, Life!KeepsOpen,
       Life!KeepsTries, StageMove, Stage
  <2>4. QED
    BY <1>5, <2>1, <2>2, <2>3 DEF Life!Moves
<1>6. QED
  BY <1>2, <1>3, <1>4, <1>5

\* A task of a type without retryable exceptions is executed at most once, its stages
\* are the ones KnowledgeFile knows, and nobody but a live attempt opens its domain
\* state after its creation: what the knowledge handlers take for granted.
THEOREM OneAttemptEach == Spec => []OneAttempt /\ StagesFollow
<1>1. Init => OneAttempt
  BY DEF Init, OneAttempt
<1>2. TypeOK /\ TypeOK' /\ OneAttempt /\ [Life!Next]_vars => OneAttempt'
  <2>1. ASSUME TypeOK, TypeOK', OneAttempt, Life!Next PROVE OneAttempt'
    BY <2>1, LifeStages DEF OneAttempt
  <2>2. ASSUME OneAttempt, UNCHANGED vars PROVE OneAttempt'
    BY <2>2 DEF OneAttempt, Stage, vars
  <2>3. QED
    BY <2>1, <2>2
<1>3. TypeOK /\ TypeOK' /\ OneAttempt /\ Life!Next => [\A t \in Task \ Retryable : StageMove(t)]_vars
  BY LifeStages
<1>4. QED
  BY <1>1, <1>2, <1>3, LifeStep, LifeInvStep, LifeInit, TypeInit, TypeStep, HasJobStep,
     AttemptsLeftStep, PTL DEF Spec, StagesFollow
=============================================================================
