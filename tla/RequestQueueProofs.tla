--------------------------- MODULE RequestQueueProofs ---------------------------
(* What RequestQueue promises, proved for every set of requests and resume   *)
(* runs, every set of policies and every number of faults, and that it       *)
(* implements ThreadProtocol.                                                *)
EXTENDS RequestQueue, TLAPS

Policy  == {"enqueue", "reject", "steer"}
Status  == {"absent", "queued", "dispatched", "cancelled", "rejected"}
\* The statuses of the runs.
RunType == [Run -> {"absent"} \cup Active \cup Terminal]

-----------------------------------------------------------------------------
(* Types and the conversation lock.                                        *)

\* The lock and what the intake under it has read.
TxType == [req : Request \cup {None}, policy : Policy,
           step : {"free", "reject", "insert", "dispatch"},
           seen : {"absent"} \cup Active \cup Terminal]

\* Who holds the conversation lock has a request whose row is not committed, and a
\* steer among them found no other (auxiliary).
TxShape ==
    \/ tx = NoTx
    \/ /\ tx.req \in Request
       /\ tx.step \in {"reject", "insert", "dispatch"}
       /\ status[tx.req] = "absent"
       /\ tx.policy = "steer" => ~PendingSteer

\* The head of the queue is one of the requests that wait.
LEMMA HeadWaits == ASSUME NEW S, NEW pol, NEW h \in QueueHead(S, pol) PROVE h \in S
BY DEF QueueHead

\* Starting the run of a request is well typed.
LEMMA StartRunType ==
    ASSUME TypeOK, NEW h \in Request, NEW st \in [Request -> Status], StartRun(h, st)
    PROVE  /\ status' \in [Request -> Status] /\ run' \in RunType /\ latest' = h
           /\ UNCHANGED <<started, cleanup, finished, yielding>>
BY DEF TypeOK, StartRun, Status, RunType, Run, Active

\* What a dispatch of a waiting request leaves of the types.
LEMMA DispatchType ==
    ASSUME TypeOK, NEW h \in Request, StartRun(h, status), sending' = sending \cup {h},
           UNCHANGED <<policy, created, job, tx, calls, clock, faults>>
    PROVE  TypeOK'
<1>1. status \in [Request -> Status] /\ h \in Run
  BY DEF TypeOK, Status, Run
<1>2. QED
  BY <1>1, StartRunType DEF TypeOK, Status, RunType

\* The statuses that the transaction of an intake commits.
Committed(q) == [status EXCEPT ![q] = IF tx.policy = "reject" THEN "rejected" ELSE "queued"]

\* The intake transaction is well typed.
LEMMA IntakeType ==
    ASSUME TypeOK, TxShape, Intake
    PROVE  TypeOK'
<1> USE DEF runVars
<1>1. ASSUME NEW q \in Request, NEW p \in Policies, IntakeChecks(q, p) PROVE TypeOK'
  <2>1. p \in Policy
    BY PoliciesKnown DEF Policy
  <2>2. \E s \in {"reject", "insert"} :
            tx' = [req |-> q, policy |-> p, step |-> s, seen |-> Newest]
    BY <1>1 DEF IntakeChecks
  <2>3. Newest \in {"absent"} \cup Active \cup Terminal
    BY DEF Newest, TypeOK
  <2>4. tx' \in TxType
    BY <2>1, <2>2, <2>3 DEF TxType
  <2>5. QED
    BY <1>1, <2>4 DEF IntakeChecks, TypeOK, TxType, Policy
<1>2. NoTx \in TxType
  BY DEF NoTx, TxType, Policy
<1>3. CASE IntakeReject
  <2>1. tx.policy \in Policy
    BY DEF TypeOK, Policy
  <2>2. status' \in [Request -> Status] /\ policy' \in [Request -> Policy]
    BY <1>3, <2>1 DEF IntakeReject, TypeOK, Status, Policy
  <2>3. tx' = NoTx /\ UNCHANGED <<created, runVars, job, sending, calls, clock, faults>>
    BY <1>3 DEF IntakeReject
  <2>4. QED
    BY <1>2, <2>2, <2>3 DEF TypeOK, TxType, Status, Policy
<1>4. CASE IntakeInsert
  <2>1. clock + 1 \in Nat /\ clock' = clock + 1
        /\ created' = [created EXCEPT ![tx.req] = clock + 1]
    BY <1>4 DEF IntakeInsert, TypeOK
  <2>2. tx' \in TxType
    BY <1>4 DEF IntakeInsert, TypeOK, TxType, Policy
  <2>3. created' \in [Request -> Nat]
    BY <2>1 DEF TypeOK
  <2>4. QED
    BY <1>4, <2>1, <2>2, <2>3 DEF IntakeInsert, TypeOK, TxType, Policy
<1>5. CASE IntakeDispatch
  <2>1. tx.req \in Request /\ tx.policy \in Policy
    BY <1>5 DEF IntakeDispatch, TxShape, NoTx, TypeOK, Policy
  <2>2. Committed(tx.req) \in [Request -> Status] /\ policy' \in [Request -> Policy]
    BY <1>5, <2>1 DEF IntakeDispatch, Committed, TypeOK, Status, Policy
  <2>3. /\ tx' = NoTx /\ UNCHANGED <<created, job, calls, clock, faults>>
        /\ sending' \subseteq sending \cup {tx.req}
    BY <1>5 DEF IntakeDispatch
  <2>4. sending' \in SUBSET Run
    BY <2>1, <2>3 DEF TypeOK, Run
  <2>5. \/ status' = Committed(tx.req) /\ UNCHANGED runVars
        \/ \E h \in Request : StartRun(h, Committed(tx.req))
    <3>1. \A pol : QueueHead(Queued \cup {tx.req}, pol) \subseteq Request
      BY <2>1, HeadWaits DEF Queued
    <3>2. QED
      BY <1>5, <3>1 DEF IntakeDispatch, Committed
  <2>6. /\ status' \in [Request -> Status] /\ run' \in RunType
        /\ latest' \in Run \cup {None} /\ UNCHANGED <<started, cleanup, finished, yielding>>
    BY <2>2, <2>5, StartRunType DEF TypeOK, RunType, Run
  <2>7. QED
    BY <1>2, <2>2, <2>3, <2>4, <2>6 DEF TypeOK, TxType, Status, Policy, RunType
<1>6. CASE IntakeRollback
  <2>1. faults' \in 0..MaxFaults
    BY <1>6, FaultsCounted DEF IntakeRollback, TypeOK
  <2>2. created' \in [Request -> Nat]
    BY <1>6 DEF IntakeRollback, TypeOK
  <2>3. QED
    BY <1>2, <1>6, <2>1, <2>2 DEF IntakeRollback, TypeOK, TxType, Policy
<1>7. QED
  BY <1>1, <1>3, <1>4, <1>5, <1>6 DEF Intake

\* The operations on the waiting requests are well typed.
LEMMA QueueType ==
    ASSUME TypeOK,
           \/ \E q \in Request : RequestCall(q)
           \/ ContinueQueue \/ DispatchNext
           \/ \E m \in Resume : ResumeRun(m)
    PROVE  TypeOK'
<1> USE DEF runVars
<1>1. ASSUME NEW q \in Request, RequestCall(q) PROVE TypeOK'
  <2>1. ASSUME NEW kind \in Kinds, ReadRequest(q, kind) PROVE TypeOK'
    <3>1. calls \cup {<<q, kind>>} \in SUBSET (Request \X Kinds)
      BY DEF TypeOK
    <3>2. QED
      BY <2>1, <3>1 DEF ReadRequest, TypeOK
  <2>2. CASE SteerQueued(q)
    BY <2>2 DEF SteerQueued, Answered, TypeOK
  <2>3. CASE CancelQueued(q)
    BY <2>3 DEF CancelQueued, Answered, TypeOK
  <2>4. QED
    BY <1>1, <2>1, <2>2, <2>3 DEF RequestCall
<1>2. CASE ContinueQueue
  BY <1>2, HeadWaits, DispatchType DEF ContinueQueue, Queued
<1>3. CASE DispatchNext
  <2>1. CASE \E h \in QueueHead(Queued, policy) :
                 StartRun(h, status) /\ sending' = sending \cup {h}
    BY <1>3, <2>1, HeadWaits, DispatchType DEF DispatchNext, Queued
  <2>2. CASE \E r \in Run : sending' = sending \cup {r} /\ UNCHANGED <<status, runVars>>
    BY <1>3, <2>2 DEF DispatchNext, TypeOK
  <2>3. QED
    BY <1>3, <2>1, <2>2 DEF DispatchNext
<1>4. ASSUME NEW m \in Resume, ResumeRun(m) PROVE TypeOK'
  BY <1>4 DEF ResumeRun, TypeOK, Run, Active
<1>5. QED
  BY <1>1, <1>2, <1>3, <1>4

\* Enqueueing, losing and taking jobs is well typed.
LEMMA DeliveryType ==
    ASSUME TypeOK, NEW r \in Run,
           Enqueue(r) \/ LoseHandOver(r) \/ LoseJob(r) \/ ExpireResult(r) \/ TakeJob(r)
    PROVE  TypeOK'
<1> USE DEF runVars
<1>1. CASE Enqueue(r) \/ LoseHandOver(r) \/ LoseJob(r) \/ ExpireResult(r)
  BY <1>1, FaultsCounted DEF Enqueue, LoseHandOver, LoseJob, ExpireResult, TypeOK
<1>2. CASE TakeJob(r)
  BY <1>2 DEF TakeJob, TypeOK, Active
<1>3. QED
  BY <1>1, <1>2

\* The steps of a run are well typed.
LEMMA RunStepType == ASSUME TypeOK, NEW r \in Run, RunStep(r) PROVE TypeOK'
<1>1. CASE YieldToSteer(r) \/ RequestCancel(r) \/ Stamp(r)
  BY <1>1 DEF YieldToSteer, RequestCancel, Stamp, TypeOK, Active
<1>2. CASE Retry(r) \/ CleanRuntime(r)
  <2>1. cleanup' = [cleanup EXCEPT ![r] = TRUE] \/ cleanup' = [cleanup EXCEPT ![r] = FALSE]
    BY <1>2 DEF Retry, CleanRuntime
  <2>2. cleanup' \in [Run -> BOOLEAN]
    BY <2>1 DEF TypeOK
  <2>3. CASE Retry(r)
    BY <2>2, <2>3 DEF Retry, TypeOK, Active
  <2>4. CASE CleanRuntime(r)
    BY <2>2, <2>4 DEF CleanRuntime, TypeOK
  <2>5. QED
    BY <1>2, <2>3, <2>4
<1>3. ASSUME NEW st \in Terminal, Finish(r, st) PROVE TypeOK'
  <2>1. /\ run' \in RunType /\ job' \in [Run -> {"none", "queued", "taken", "kept"}]
    BY <1>3 DEF Finish, TypeOK, RunType
  <2>2. (run[r] # "pending") \in BOOLEAN
    OBVIOUS
  <2>3. cleanup' \in [Run -> BOOLEAN]
    BY <1>3, <2>2 DEF Finish, TypeOK
  <2>4. QED
    BY <1>3, <2>1, <2>3 DEF Finish, TypeOK, RunType
<1>4. QED
  BY <1>1, <1>2, <1>3 DEF RunStep

-----------------------------------------------------------------------------
(* What every step leaves of the lock and the runs.                        *)

\* The thread is occupied by r: it is active, or its runtime is still owed.
Occupies(r) == run[r] \in Active \/ cleanup[r]

\* Deliveries and runs never touch the queue, and they never occupy the thread.
LEMMA BesideQueue ==
    ASSUME TypeOK, NEW r \in Run,
           \/ Enqueue(r) \/ LoseHandOver(r) \/ LoseJob(r) \/ ExpireResult(r) \/ TakeJob(r)
           \/ RunStep(r)
    PROVE  /\ UNCHANGED <<status, policy, created, latest, tx, calls, clock>>
           /\ \A x \in Run : Occupies(x)' => Occupies(x)
<1>1. CASE Enqueue(r) \/ LoseHandOver(r) \/ LoseJob(r) \/ ExpireResult(r)
  BY <1>1 DEF Enqueue, LoseHandOver, LoseJob, ExpireResult, runVars, Occupies
<1>2. CASE TakeJob(r)
  BY <1>2 DEF TakeJob, Occupies, TypeOK, Active
<1>3. CASE YieldToSteer(r) \/ RequestCancel(r) \/ Stamp(r)
  BY <1>3 DEF YieldToSteer, RequestCancel, Stamp, Occupies, TypeOK, Active
<1>4. CASE Retry(r)
  BY <1>4 DEF Retry, Occupies, TypeOK, Active
<1>5. CASE CleanRuntime(r)
  BY <1>5 DEF CleanRuntime, Occupies, TypeOK
<1>6. ASSUME NEW st \in Terminal, Finish(r, st)
      PROVE  /\ UNCHANGED <<status, policy, created, latest, tx, calls, clock>>
             /\ \A x \in Run : Occupies(x)' => Occupies(x)
  BY <1>6 DEF Finish, Occupies, TypeOK
<1>7. QED
  BY <1>1, <1>2, <1>3, <1>4, <1>5, <1>6 DEF RunStep

\* A run that is created on an idle thread is alone there.
LEMMA FirstOccupant ==
    ASSUME TypeOK, ~Busy, NEW h \in Run, run' = [run EXCEPT ![h] = "pending"], UNCHANGED cleanup
    PROVE  \A r \in Run : ~Occupies(r) /\ (Occupies(r)' <=> r = h)
BY DEF TypeOK, Busy, Occupies, Active

\* The operations that create a run do it on an idle thread.
Creates(h) ==
    /\ ~Busy
    /\ run' = [run EXCEPT ![h] = "pending"]
    /\ latest' = h
    /\ UNCHANGED <<cleanup, yielding>>

\* A step of the queue that touches a run creates exactly one, on a free thread.
LEMMA WhoCreates ==
    ASSUME TypeOK, TxShape,
           \/ Intake \/ ContinueQueue \/ DispatchNext
           \/ \E q \in Request : RequestCall(q)
           \/ \E m \in Resume : ResumeRun(m)
    PROVE  UNCHANGED <<run, cleanup, latest, yielding>> \/ \E h \in Run : Creates(h)
<1>1. ASSUME NEW h \in Request, NEW st, StartRun(h, st), ~Busy
      PROVE  \E x \in Run : Creates(x)
  BY <1>1 DEF StartRun, Creates, Run
<1>2. CASE Intake
  <2>1. CASE IntakeDispatch
    <3>1. tx.req \in Request
      BY <2>1 DEF IntakeDispatch, TxShape, NoTx
    <3>2. \A pol : QueueHead(Queued \cup {tx.req}, pol) \subseteq Request
      BY <3>1, HeadWaits DEF Queued
    <3>3. UNCHANGED runVars \/ \E h \in Request, st \in {Committed(tx.req)} : StartRun(h, st) /\ ~Busy
      BY <2>1, <3>2 DEF IntakeDispatch, Committed, ReadyAfter
    <3>4. QED
      BY <1>1, <3>3 DEF runVars
  <2>2. QED
    BY <1>2, <2>1 DEF Intake, IntakeChecks, IntakeReject, IntakeInsert, IntakeRollback, runVars
<1>3. Queued \subseteq Request
  BY DEF Queued
<1>4. CASE ContinueQueue \/ DispatchNext
  <2>1. \/ UNCHANGED runVars
        \/ \E h \in Request : StartRun(h, status) /\ ~Busy
    BY <1>3, <1>4, HeadWaits
       DEF ContinueQueue, DispatchNext, Ready, ReadyAfter, Paused, PausedAfter
  <2>2. QED
    BY <1>1, <2>1 DEF runVars
<1>5. ASSUME NEW m \in Resume, ResumeRun(m) PROVE \E h \in Run : Creates(h)
  BY <1>5 DEF ResumeRun, Creates, Run
<1>6. QED
  BY <1>2, <1>4, <1>5 DEF RequestCall, ReadRequest, SteerQueued, CancelQueued, Answered, runVars

\* Every step keeps TxShape.
LEMMA TxStep == TypeOK /\ TxShape /\ [Next]_vars => TxShape'
<1> SUFFICES ASSUME TypeOK, TxShape, [Next]_vars PROVE TxShape'
  OBVIOUS
<1>1. ASSUME UNCHANGED <<status, policy, tx>> PROVE TxShape'
  BY <1>1 DEF TxShape, PendingSteer, Queued
<1>2. tx' = NoTx => TxShape'
  BY DEF TxShape
<1>3. CASE Intake
  <2>1. ASSUME NEW q \in Request, NEW p \in Policies, IntakeChecks(q, p) PROVE TxShape'
    BY <2>1 DEF IntakeChecks, TxShape, PendingSteer, Queued
  <2>2. CASE IntakeInsert
    BY <2>2 DEF IntakeInsert, TxShape, NoTx, PendingSteer, Queued, TypeOK
  <2>3. QED
    BY <1>2, <1>3, <2>1, <2>2 DEF Intake, IntakeReject, IntakeDispatch, IntakeRollback
<1>4. ASSUME NEW q \in Request, RequestCall(q) PROVE TxShape'
  BY <1>1, <1>2, <1>4 DEF RequestCall, ReadRequest, SteerQueued, CancelQueued, Answered, Unlocked
<1>5. ASSUME ContinueQueue \/ DispatchNext \/ \E m \in Resume : ResumeRun(m) PROVE TxShape'
  BY <1>2, <1>5 DEF ContinueQueue, DispatchNext, ResumeRun, Unlocked
<1>6. CASE UNCHANGED vars
  BY <1>1, <1>6 DEF vars
<1>7. QED
  BY <1>1, <1>3, <1>4, <1>5, <1>6, BesideQueue DEF Next

\* The empty thread is well typed.
LEMMA InitType == Init => TypeOK /\ TxShape
<1> SUFFICES ASSUME Init PROVE TypeOK /\ TxShape
  OBVIOUS
<1>1. tx \in TxType
  BY DEF Init, NoTx, TxType, Policy
<1>2. TxShape
  BY DEF Init, TxShape
<1>3. QED
  BY <1>1, <1>2, FaultsCounted DEF Init, TypeOK, TxType, Policy

\* Every step keeps the types.
LEMMA TypeStep == TypeOK /\ TxShape /\ [Next]_vars => TypeOK' /\ TxShape'
<1> SUFFICES ASSUME TypeOK, TxShape, [Next]_vars PROVE TypeOK'
  BY TxStep
<1>1. CASE UNCHANGED vars
  BY <1>1 DEF vars, TypeOK
<1>2. QED
  BY <1>1, IntakeType, QueueType, DeliveryType, RunStepType DEF Next

\* Every variable always has its type.
THEOREM QueueTypeCorrect == Spec => []TypeOK
BY InitType, TypeStep, PTL DEF Spec

\* The thread never has two runs that are active or owe a cleanup, although the runs
\* move between the reads of an intake and its commit.
THEOREM OneRunAtATimeCorrect == Spec => []OneRunAtATime
<1>1. Init => OneRunAtATime
  BY DEF Init, OneRunAtATime, Active
<1>2. TypeOK /\ TxShape /\ OneRunAtATime /\ [Next]_vars => OneRunAtATime'
  <2> SUFFICES ASSUME TypeOK, TxShape, OneRunAtATime, [Next]_vars PROVE OneRunAtATime'
    OBVIOUS
  <2>1. ASSUME \A r \in Run : Occupies(r)' => Occupies(r) PROVE OneRunAtATime'
    BY <2>1 DEF OneRunAtATime, Occupies
  <2>2. ASSUME NEW h \in Run, Creates(h) PROVE OneRunAtATime'
    BY <2>2, FirstOccupant DEF Creates, OneRunAtATime, Occupies
  <2>3. ASSUME UNCHANGED <<run, cleanup>> PROVE OneRunAtATime'
    BY <2>1, <2>3 DEF Occupies
  <2>4. CASE UNCHANGED vars
    BY <2>3, <2>4 DEF vars
  <2>5. QED
    BY <2>1, <2>2, <2>3, <2>4, WhoCreates, BesideQueue DEF Next
<1>3. QED
  BY <1>1, <1>2, InitType, TypeStep, PTL DEF Spec

-----------------------------------------------------------------------------
(* The steer that follows a run which gave way to it.                      *)

\* A run that gives way is active (auxiliary).
YieldActive == \A r \in yielding : run[r] \in Active

\* Every step keeps YieldActive.
LEMMA YieldStep == TypeOK /\ TxShape /\ YieldActive /\ [Next]_vars => YieldActive'
<1> SUFFICES ASSUME TypeOK, TxShape, YieldActive, [Next]_vars PROVE YieldActive'
  OBVIOUS
<1>1. ~Busy => yielding = {}
  BY DEF Busy, YieldActive, TypeOK
<1>2. ASSUME NEW h \in Run, Creates(h) PROVE YieldActive'
  BY <1>1, <1>2 DEF Creates, YieldActive
<1>3. ASSUME UNCHANGED <<run, yielding>> PROVE YieldActive'
  BY <1>3 DEF YieldActive
<1>4. ASSUME NEW r \in Run,
             \/ Enqueue(r) \/ LoseHandOver(r) \/ LoseJob(r) \/ ExpireResult(r) \/ TakeJob(r)
             \/ RunStep(r)
      PROVE  YieldActive'
  <2>1. CASE Enqueue(r) \/ LoseHandOver(r) \/ LoseJob(r) \/ ExpireResult(r)
    BY <1>3, <2>1 DEF Enqueue, LoseHandOver, LoseJob, ExpireResult, runVars
  <2>2. CASE TakeJob(r) \/ YieldToSteer(r) \/ RequestCancel(r) \/ Stamp(r) \/ CleanRuntime(r)
    BY <2>2
       DEF TakeJob, YieldToSteer, RequestCancel, Stamp, CleanRuntime, YieldActive, TypeOK, Active
  <2>3. CASE Retry(r) \/ \E st \in Terminal : Finish(r, st)
    <3>1. yielding' = yielding \ {r} /\ \A x \in Run \ {r} : run'[x] = run[x]
      BY <2>3 DEF Retry, Finish, TypeOK
    <3>2. yielding \subseteq Run
      BY DEF TypeOK
    <3>3. QED
      BY <3>1, <3>2 DEF YieldActive
  <2>4. QED
    BY <1>4, <2>1, <2>2, <2>3 DEF RunStep
<1>5. CASE UNCHANGED vars
  BY <1>3, <1>5 DEF vars
<1>6. QED
  BY <1>2, <1>3, <1>4, <1>5, WhoCreates DEF Next

\* What a step does to a steer while a run gives way to it.
LEMMA SteerStep ==
    ASSUME TypeOK, TxShape, YieldActive, [Next]_vars, NEW q \in Request, yielding # {}, Steer(q)
    PROVE  Steer(q)' \/ (<<q, "cancel">> \in calls /\ status'[q] = "cancelled")
<1>1. Busy
  BY DEF Busy, YieldActive, TypeOK
<1>2. ASSUME status'[q] = status[q], policy'[q] = policy[q] PROVE Steer(q)'
  BY <1>2 DEF Steer
<1>3. CASE Intake
  <2>1. ASSUME IntakeReject \/ IntakeDispatch PROVE Steer(q)'
    <3>1. tx.req \in Request /\ status[tx.req] = "absent" /\ tx.req # q
      BY <2>1 DEF IntakeReject, IntakeDispatch, TxShape, NoTx, Steer
    <3>2. policy' = [policy EXCEPT ![tx.req] = tx.policy]
      BY <2>1 DEF IntakeReject, IntakeDispatch
    <3>3. \E st : status' = [status EXCEPT ![tx.req] = st]
      BY <1>1, <2>1 DEF IntakeReject, IntakeDispatch, ReadyAfter
    <3>4. QED
      BY <1>2, <3>1, <3>2, <3>3 DEF TypeOK
  <2>2. QED
    BY <1>2, <1>3, <2>1 DEF Intake, IntakeChecks, IntakeInsert, IntakeRollback
<1>4. ASSUME NEW o \in Request, RequestCall(o)
      PROVE  Steer(q)' \/ (<<q, "cancel">> \in calls /\ status'[q] = "cancelled")
  <2>1. ASSUME NEW kind \in Kinds, ReadRequest(o, kind) PROVE Steer(q)'
    BY <1>2, <2>1 DEF ReadRequest
  <2>2. CASE SteerQueued(o)
    BY <2>2 DEF SteerQueued, Steer, TypeOK
  <2>3. CASE CancelQueued(o)
    <3>1. UNCHANGED policy
      BY <2>3 DEF CancelQueued
    <3>2. CASE UNCHANGED status
      BY <1>2, <3>1, <3>2
    <3>3. CASE Answered(o, "cancel") /\ status' = [status EXCEPT ![o] = "cancelled"]
      <4>1. CASE o = q
        BY <3>3, <4>1 DEF Answered, TypeOK
      <4>2. CASE o # q
        BY <1>2, <3>1, <3>3, <4>2 DEF TypeOK
      <4>3. QED
        BY <4>1, <4>2
    <3>4. QED
      BY <1>1, <2>3, <3>2, <3>3 DEF CancelQueued
  <2>4. QED
    BY <1>4, <2>1, <2>2, <2>3 DEF RequestCall
<1>5. CASE ContinueQueue \/ DispatchNext \/ \E m \in Resume : ResumeRun(m)
  <2>1. UNCHANGED <<status, policy>>
    BY <1>1, <1>5
       DEF ContinueQueue, DispatchNext, ResumeRun, Ready, ReadyAfter, Paused, PausedAfter
  <2>2. QED
    BY <1>2, <2>1
<1>6. CASE UNCHANGED vars
  BY <1>2, <1>6 DEF vars
<1>7. QED
  BY <1>2, <1>3, <1>4, <1>5, <1>6, BesideQueue DEF Next

\* The steer to which a run gives way stays the next request, unless a cancellation that
\* read it before it was a steer removes it.
THEOREM YieldKeepsSteerCorrect == Spec => YieldKeepsSteer
<1>1. Init => YieldActive
  BY DEF Init, YieldActive
<1>2. TypeOK /\ TxShape /\ YieldActive /\ [Next]_vars =>
        [\A q \in Request :
            yielding # {} /\ Steer(q) =>
                \/ Steer(q)'
                \/ <<q, "cancel">> \in calls /\ status'[q] = "cancelled"]_vars
  BY SteerStep
<1>3. QED
  BY <1>1, <1>2, InitType, TypeStep, YieldStep, PTL DEF Spec, YieldKeepsSteer

-----------------------------------------------------------------------------
(* The refinement of ThreadProtocol.                                       *)

\* Tickets are drawn under the lock: a request that is being inserted has the last one.
Tickets ==
    /\ \A q \in Queued : created[q] <= clock
    /\ tx.step = "dispatch" =>
           created[tx.req] = clock /\ \A q \in Queued : created[q] < clock

\* A request that was read while it was queued has been admitted.
Admitted == {"queued", "dispatched", "cancelled"}
CallShape == \A q \in Request, kind \in Kinds : <<q, kind>> \in calls => status[q] \in Admitted

\* The inductive invariant of the refinement.
Inv == TypeOK /\ TxShape /\ OneRunAtATime /\ Tickets /\ CallShape

\* The queue as ThreadProtocol sees it.
Known  == {q \in Request : status[q] # "absent"}
Line   == [q \in InLine |-> created[q]]
\* The requests that go before the line.
Steers == Queued \ InLine
\* Who keeps the thread busy.
Holder == {r \in Run : run[r] \in Active \/ cleanup[r]}

\* The head of the queue is a head of the line and the steer.
LEMMA HeadMaps ==
    ASSUME NEW S, NEW pol, NEW l, NEW s, NEW h \in QueueHead(S, pol),
           s = {q \in S : pol[q] = "steer"},
           DOMAIN l = {q \in S : pol[q] # "steer"},
           \A q \in DOMAIN l : l[q] = created[q] /\ l[q] \in Nat
    PROVE  h \in Thread!Head(l, s)
<1>1. h \in S /\ \A o \in S \ {h} : Precedes(pol, h, o)
  BY DEF QueueHead
<1>2. CASE pol[h] = "steer"
  BY <1>1, <1>2 DEF Thread!Head
<1>3. CASE pol[h] # "steer"
  <2>1. s = {}
    BY <1>1, <1>3 DEF Precedes
  <2>2. \A o \in DOMAIN l : l[h] <= l[o]
    BY <1>1, <1>3 DEF Precedes
  <2>3. QED
    BY <1>1, <1>3, <2>1, <2>2 DEF Thread!Head
<1>4. QED
  BY <1>2, <1>3

\* A waiting request is taken out of the line and the steer.
LEMMA LeavesLine ==
    ASSUME Inv, NEW h \in Queued, status' = [status EXCEPT ![h] = "dispatched"]
                                  \/ status' = [status EXCEPT ![h] = "cancelled"],
           UNCHANGED <<policy, created>>
    PROVE  Line' = Thread!Without(Line, h) /\ Steers' = Steers \ {h} /\ Known' = Known
<1>1. Queued' = Queued \ {h} /\ Known' = Known
  BY DEF Queued, Known, Inv, TypeOK
<1>2. InLine' = InLine \ {h}
  BY <1>1 DEF InLine
<1>3. QED
  BY <1>1, <1>2 DEF Line, Steers, Thread!Without

\* A queued request is dispatched outside an intake: the head of the line is served.
LEMMA ServesHead ==
    ASSUME Inv, NEW h \in QueueHead(Queued, policy), StartRun(h, status), ~Busy,
           UNCHANGED <<policy, created, clock>>
    PROVE  Thread!Next
<1>1. h \in Queued /\ h \in Run
  BY HeadWaits DEF Queued, Run
<1>2. Line' = Thread!Without(Line, h) /\ Steers' = Steers \ {h} /\ Known' = Known
  BY <1>1, LeavesLine DEF StartRun
<1>3. \A r \in Run : ~Occupies(r) /\ (Occupies(r)' <=> r = h)
  BY <1>1, FirstOccupant DEF StartRun, Inv
<1>4. Holder = {} /\ Holder' = {h}
  BY <1>1, <1>3 DEF Holder, Occupies
<1>5. /\ Steers = {q \in Queued : policy[q] = "steer"}
      /\ DOMAIN Line = {q \in Queued : policy[q] # "steer"}
      /\ \A q \in DOMAIN Line : Line[q] = created[q] /\ Line[q] \in Nat
  BY DEF Steers, Line, InLine, Queued, Inv, TypeOK
<1>6. h \in Thread!Head(Line, Steers)
  BY <1>5, HeadMaps
<1>7. QED
  BY <1>2, <1>4, <1>6
     DEF Thread!Next, Thread!ServeHead, Thread!Serve, Line, Steers, Known, Holder

\* The commit of an intake: the request arrives, and the head may be served at once.
LEMMA RequestArrives ==
    ASSUME Inv, IntakeDispatch, NEW q \in Request, q = tx.req,
           NEW urgent \in BOOLEAN, urgent <=> tx.policy = "steer"
    PROVE  Thread!Next
<1> DEFINE l == IF urgent THEN Line
                ELSE [o \in DOMAIN Line \cup {q} |-> IF o = q THEN clock ELSE Line[o]]
           s == IF urgent THEN Steers \cup {q} ELSE Steers
<1>1. /\ status[q] = "absent" /\ tx.step = "dispatch"
      /\ urgent => ~PendingSteer
  BY DEF IntakeDispatch, Inv, TxShape, NoTx
<1>2. /\ policy' = [policy EXCEPT ![q] = tx.policy] /\ UNCHANGED <<created, clock>>
      /\ created[q] = clock /\ \A o \in Queued : created[o] < clock
  BY <1>1 DEF IntakeDispatch, Inv, Tickets
<1>3. /\ \A o \in Request : policy'[o] = IF o = q THEN tx.policy ELSE policy[o]
      /\ q \notin Queued /\ Queued \subseteq Request /\ clock \in Nat
      /\ \A o \in Request : created[o] \in Nat
  BY <1>1, <1>2 DEF Queued, Inv, TypeOK
<1>4. /\ q \notin Known
      /\ urgent => Steers = {}
      /\ \A o \in DOMAIN Line : Line[o] < clock
  <2>1. q \notin Known
    BY <1>1 DEF Known
  <2>2. urgent => Steers = {}
    BY <1>1 DEF Steers, InLine, PendingSteer
  <2>3. \A o \in DOMAIN Line : Line[o] < clock
    BY <1>2 DEF Line, InLine
  <2>4. QED
    BY <2>1, <2>2, <2>3
<1>5. /\ s = {o \in Queued \cup {q} : policy'[o] = "steer"}
      /\ DOMAIN l = {o \in Queued \cup {q} : policy'[o] # "steer"}
      /\ \A o \in DOMAIN l : l[o] = created[o] /\ l[o] \in Nat
  <2>1. DOMAIN Line = {o \in Queued : policy[o] # "steer"}
    BY DEF Line, InLine
  <2>2. Steers = {o \in Queued : policy[o] = "steer"}
    BY DEF Steers, InLine
  <2>3. \A o \in DOMAIN Line : Line[o] = created[o] /\ Line[o] \in Nat
    BY <1>3 DEF Line, InLine
  <2>4. s = {o \in Queued \cup {q} : policy'[o] = "steer"}
    <3>1. CASE urgent
      BY <1>3, <2>2, <3>1
    <3>2. CASE ~urgent
      BY <1>3, <2>2, <3>2
    <3>3. QED
      BY <3>1, <3>2
  <2>5. DOMAIN l = {o \in Queued \cup {q} : policy'[o] # "steer"}
    <3>1. CASE urgent
      BY <1>3, <2>1, <3>1
    <3>2. CASE ~urgent
      BY <1>3, <2>1, <3>2
    <3>3. QED
      BY <3>1, <3>2
  <2>6. \A o \in DOMAIN l : l[o] = created[o] /\ l[o] \in Nat
    BY <1>2, <1>3, <2>3
  <2>7. QED
    BY <2>4, <2>5, <2>6
<1>6. ASSUME NEW h, Queued' = (Queued \cup {q}) \ {h}
      PROVE  Line' = Thread!Without(l, h) /\ Steers' = s \ {h}
  <2>1. InLine' = DOMAIN l \ {h}
    BY <1>5, <1>6 DEF InLine
  <2>2. Line' = [o \in InLine' |-> created[o]]
    BY <1>2 DEF Line
  <2>3. Line' = Thread!Without(l, h)
    BY <1>5, <2>1, <2>2 DEF Thread!Without
  <2>4. Steers' = s \ {h}
    BY <1>3, <1>5, <1>6, <2>1 DEF Steers
  <2>5. QED
    BY <2>3, <2>4
<1>7. CASE \E h \in QueueHead(Queued \cup {q}, policy') :
               /\ ReadyAfter(h, tx.seen) /\ (tx.policy = "reject" => h = q)
               /\ StartRun(h, Committed(q))
  <2>1. PICK h \in QueueHead(Queued \cup {q}, policy') :
               /\ ReadyAfter(h, tx.seen) /\ (tx.policy = "reject" => h = q)
               /\ StartRun(h, Committed(q))
    BY <1>7
  <2>2. h \in Queued \cup {q} /\ h \in Request /\ h \in Run
    BY <1>1, <1>3, HeadWaits DEF Run
  <2>3. \A o \in Request : status'[o] = IF o = h THEN "dispatched"
                                        ELSE IF o # q THEN status[o]
                                        ELSE IF tx.policy = "reject" THEN "rejected" ELSE "queued"
    BY <2>1, <2>2 DEF StartRun, Committed, Inv, TypeOK
  <2>4. Queued' = (Queued \cup {q}) \ {h}
    BY <1>1, <1>3, <2>1, <2>3 DEF Queued
  <2>5. Known' = Known \cup {q}
    BY <1>1, <2>2, <2>3 DEF Known, Queued
  <2>6. h \in Thread!Head(l, s)
    BY <1>5, HeadMaps
  <2>7. \A r \in Run : ~Occupies(r) /\ (Occupies(r)' <=> r = h)
    BY <2>1, <2>2, FirstOccupant DEF StartRun, ReadyAfter, Inv
  <2>8. Holder = {} /\ Holder' = {h}
    BY <2>2, <2>7 DEF Holder, Occupies
  <2>9. Line' = Thread!Without(l, h) /\ Steers' = s \ {h}
    BY <1>6, <2>4
  <2>10. Thread!Serve(l, s)
    BY <2>6, <2>8, <2>9 DEF Thread!Serve, Line, Steers, Holder
  <2>11. Thread!Arrive(q, urgent)
    BY <1>2, <1>4, <2>5, <2>10 DEF Thread!Arrive, Line, Steers, Known
  <2>12. QED
    BY <2>11 DEF Thread!Next
<1>8. CASE status' = Committed(q) /\ UNCHANGED runVars
  <2>1. /\ \A o \in Request : status'[o] = IF o # q THEN status[o]
                                           ELSE IF tx.policy = "reject" THEN "rejected" ELSE "queued"
        /\ Holder' = Holder
    BY <1>8 DEF Committed, Inv, TypeOK, runVars, Holder
  <2>2. Known' = Known \cup {q}
    BY <1>1, <2>1 DEF Known
  <2>3. CASE tx.policy = "reject"
    <3>1. Queued' = Queued
      BY <1>1, <2>1, <2>3 DEF Queued
    <3>2. InLine' = InLine
      BY <1>3, <3>1 DEF InLine
    <3>3. Line' = Line /\ Steers' = Steers
      BY <1>2, <3>1, <3>2 DEF Line, Steers
    <3>4. Thread!Refuse(q)
      BY <1>2, <1>4, <2>1, <2>2, <3>3 DEF Thread!Refuse, Line, Steers, Known, Holder
    <3>5. QED
      BY <3>4 DEF Thread!Next
  <2>4. CASE tx.policy # "reject"
    <3>1. Queued' = (Queued \cup {q}) \ {None}
      BY <1>1, <2>1, <2>4, NoneIsNoRun DEF Queued, Run
    <3>2. Line' = Thread!Without(l, None) /\ Steers' = s \ {None}
      BY <1>6, <3>1
    <3>3. None \notin DOMAIN l /\ None \notin s
      BY <1>1, <1>3, <1>5, NoneIsNoRun DEF Run
    <3>4. l = [o \in DOMAIN l |-> l[o]]
      BY DEF Line
    <3>5. Line' = l /\ Steers' = s
      <4> HIDE DEF l, s
      <4>1. DOMAIN l \ {None} = DOMAIN l /\ s \ {None} = s
        BY <3>3
      <4>2. QED
        BY <3>2, <3>4, <4>1 DEF Thread!Without
    <3>6. Thread!Arrive(q, urgent)
      BY <1>2, <1>4, <2>1, <2>2, <3>5 DEF Thread!Arrive, Line, Steers, Known, Holder
    <3>7. QED
      BY <3>6 DEF Thread!Next
  <2>5. QED
    BY <2>3, <2>4
<1>9. QED
  BY <1>2, <1>7, <1>8 DEF IntakeDispatch, Committed

\* The commit of an intake is an arrival.
LEMMA IntakeArrives == ASSUME Inv, IntakeDispatch PROVE Thread!Next
<1>1. tx.req \in Request /\ (tx.policy = "steer") \in BOOLEAN
  BY DEF IntakeDispatch, Inv, TxShape, NoTx
<1>2. PICK q \in Request : q = tx.req
  BY <1>1
<1>3. PICK urgent \in BOOLEAN : urgent <=> tx.policy = "steer"
  BY <1>1
<1>4. QED
  BY <1>2, <1>3, RequestArrives

\* A step that leaves the queue alone and lets no run in is the end of the run that
\* holds the thread, or none.
LEMMA BesideMaps ==
    ASSUME Inv, UNCHANGED <<status, policy, created, clock>>,
           \A x \in Run : Occupies(x)' => Occupies(x)
    PROVE  Thread!Next \/ UNCHANGED Thread!vars
<1>1. Known' = Known /\ Line' = Line /\ Steers' = Steers
  BY DEF Known, Line, Steers, InLine, Queued
<1>2. Holder' \subseteq Holder
  BY DEF Holder, Occupies
<1>3. \A r, o \in Holder : r = o
  BY DEF Holder, Inv, OneRunAtATime
<1>4. Holder' = Holder \/ (Holder # {} /\ Holder' = {})
  BY <1>2, <1>3
<1>5. CASE Holder' = Holder
  BY <1>1, <1>5 DEF Thread!vars, Known, Line, Steers, Holder
<1>6. CASE Holder # {} /\ Holder' = {}
  BY <1>1, <1>6 DEF Thread!Next, Thread!Free, Known, Line, Steers, Holder
<1>7. QED
  BY <1>4, <1>5, <1>6

\* The intake maps to an arrival, a refusal, a ticket or nothing.
LEMMA IntakeMaps == ASSUME Inv, Intake PROVE Thread!Next \/ UNCHANGED Thread!vars
<1>1. CASE \E q \in Request, p \in Policies : IntakeChecks(q, p)
  <2>1. UNCHANGED <<status, policy, created, clock, run, cleanup>>
    BY <1>1 DEF IntakeChecks, runVars
  <2>2. QED
    BY <2>1, BesideMaps DEF Occupies
<1>2. ASSUME IntakeReject \/ IntakeInsert \/ IntakeRollback
      PROVE  tx.req \in Request /\ tx.req \notin Queued /\ tx.req \notin Known
  BY <1>2 DEF IntakeReject, IntakeInsert, IntakeRollback, Unlocked, Inv, TxShape, NoTx, Queued,
              Known
<1>3. ASSUME UNCHANGED runVars PROVE Holder' = Holder
  BY <1>3 DEF runVars, Holder
<1>4. CASE IntakeReject
  <2>1. PICK q \in Request : q = tx.req
    BY <1>2, <1>4
  <2>2. /\ \A o \in Request : status'[o] = IF o = q THEN "rejected" ELSE status[o]
        /\ \A o \in Request \ {q} : policy'[o] = policy[o]
        /\ UNCHANGED <<created, clock, runVars>>
    BY <1>4, <2>1 DEF IntakeReject, Inv, TypeOK
  <2>3. Queued' = Queued /\ Known' = Known \cup {q} /\ q \notin Known /\ q \notin Queued
    BY <1>2, <1>4, <2>1, <2>2 DEF Queued, Known
  <2>4. InLine' = InLine
    BY <2>2, <2>3 DEF InLine, Queued
  <2>5. Line' = Line /\ Steers' = Steers /\ Holder' = Holder
    BY <1>3, <2>2, <2>3, <2>4 DEF Line, Steers
  <2>6. Thread!Refuse(q)
    BY <2>2, <2>3, <2>5 DEF Thread!Refuse, Known, Line, Steers, Holder
  <2>7. QED
    BY <2>6 DEF Thread!Next
<1>5. ASSUME IntakeInsert \/ IntakeRollback
      PROVE  Known' = Known /\ Line' = Line /\ Steers' = Steers /\ Holder' = Holder
  <2>1. /\ UNCHANGED <<status, policy, runVars>>
        /\ \A o \in Queued : created'[o] = created[o]
    BY <1>2, <1>5 DEF IntakeInsert, IntakeRollback, Queued, Inv, TypeOK
  <2>2. Queued' = Queued /\ InLine' = InLine /\ InLine \subseteq Queued /\ Known' = Known
    BY <2>1 DEF Queued, InLine, Known
  <2>3. Line' = Line
    BY <2>1, <2>2 DEF Line
  <2>4. QED
    BY <1>3, <2>1, <2>2, <2>3 DEF Steers
<1>6. CASE IntakeInsert
  <2>1. clock' = clock + 1
    BY <1>6 DEF IntakeInsert
  <2>2. Thread!Draw
    BY <1>5, <1>6, <2>1 DEF Thread!Draw, Known, Line, Steers, Holder
  <2>3. QED
    BY <2>2 DEF Thread!Next
<1>7. CASE IntakeRollback
  <2>1. clock' = clock
    BY <1>7 DEF IntakeRollback
  <2>2. QED
    BY <1>5, <1>7, <2>1 DEF Thread!vars, Known, Line, Steers, Holder
<1>8. QED
  BY <1>1, <1>4, <1>6, <1>7, IntakeArrives DEF Intake

\* The other operations map to one step of the protocol or to none.
LEMMA QueueMaps ==
    ASSUME Inv,
           \/ \E q \in Request : RequestCall(q)
           \/ ContinueQueue \/ DispatchNext
           \/ \E m \in Resume : ResumeRun(m)
    PROVE  Thread!Next \/ UNCHANGED Thread!vars
<1>0. ASSUME UNCHANGED <<status, policy, created, clock, run, cleanup>>
      PROVE  UNCHANGED Thread!vars
  BY <1>0 DEF Thread!vars, InLine, Queued
<1>1. ASSUME NEW q \in Request, SteerQueued(q) PROVE Thread!Next \/ UNCHANGED Thread!vars
  <2>1. UNCHANGED <<status, created, clock, run, cleanup>>
    BY <1>1 DEF SteerQueued, Answered, runVars
  <2>2. CASE UNCHANGED policy
    BY <1>0, <2>1, <2>2
  <2>3. ASSUME Steerable, \A o \in Queued \ {q} : policy[o] # "steer",
               policy' = [policy EXCEPT ![q] = "steer"]
        PROVE  Thread!Next \/ UNCHANGED Thread!vars
    <3>1. /\ \A o \in Request : policy'[o] = IF o = q THEN "steer" ELSE policy[o]
          /\ Queued' = Queued /\ Known' = Known /\ Holder' = Holder /\ Queued \subseteq Request
      BY <2>1, <2>3 DEF Queued, Known, Holder, Inv, TypeOK
    <3>2. CASE q \in Queued /\ policy[q] # "steer"
      <4>1. InLine' = InLine \ {q} /\ q \in InLine /\ InLine = Queued
        BY <2>3, <3>1, <3>2 DEF InLine
      <4>2. Line' = Thread!Without(Line, q) /\ DOMAIN Line = InLine
        BY <2>1, <4>1 DEF Line, Thread!Without
      <4>3. Steers = {} /\ Steers' = {q}
        BY <3>1, <4>1 DEF Steers
      <4>4. Thread!Promote(q)
        BY <2>1, <3>1, <4>1, <4>2, <4>3 DEF Thread!Promote, Known, Line, Steers, Holder
      <4>5. QED
        BY <4>4 DEF Thread!Next
    <3>3. CASE q \notin Queued \/ policy[q] = "steer"
      <4>1. InLine' = InLine
        BY <3>1, <3>3 DEF InLine
      <4>2. Line' = Line /\ Steers' = Steers
        BY <2>1, <3>1, <4>1 DEF Line, Steers
      <4>3. QED
        BY <2>1, <3>1, <4>2 DEF Thread!vars, Known, Line, Steers, Holder
    <3>4. QED
      BY <3>2, <3>3
  <2>4. QED
    BY <1>1, <2>2, <2>3 DEF SteerQueued
<1>2. ASSUME NEW q \in Request, CancelQueued(q) PROVE Thread!Next \/ UNCHANGED Thread!vars
  <2>1. UNCHANGED <<policy, created, clock, run, cleanup>>
    BY <1>2 DEF CancelQueued, Answered, runVars
  <2>2. CASE UNCHANGED status
    BY <1>0, <2>1, <2>2
  <2>3. CASE status' = [status EXCEPT ![q] = "cancelled"] /\ q \in Queued
    <3>1. Line' = Thread!Without(Line, q) /\ Steers' = Steers \ {q} /\ Known' = Known
      BY <2>1, <2>3, LeavesLine
    <3>2. Holder' = Holder /\ q \in DOMAIN Line \cup Steers
      BY <2>1, <2>3 DEF Holder, Line, Steers
    <3>3. Thread!Withdraw(q)
      BY <2>1, <3>1, <3>2 DEF Thread!Withdraw, Known, Line, Steers, Holder
    <3>4. QED
      BY <3>3 DEF Thread!Next
  <2>4. CASE status' = [status EXCEPT ![q] = "cancelled"] /\ q \notin Queued
    <3>1. status[q] # "absent"
      BY <1>2 DEF CancelQueued, Answered, Inv, CallShape, Admitted, Kinds
    <3>2. Queued' = Queued /\ Known' = Known /\ Holder' = Holder
      BY <2>1, <2>4, <3>1 DEF Queued, Known, Holder, Inv, TypeOK
    <3>3. InLine' = InLine
      BY <2>1, <3>2 DEF InLine
    <3>4. Line' = Line /\ Steers' = Steers
      BY <2>1, <3>2, <3>3 DEF Line, Steers
    <3>5. QED
      BY <2>1, <3>2, <3>4 DEF Thread!vars, Known, Line, Steers, Holder
  <2>5. QED
    BY <1>2, <2>2, <2>3, <2>4 DEF CancelQueued
<1>3. CASE ContinueQueue
  BY <1>3, ServesHead DEF ContinueQueue, Paused, PausedAfter
<1>4. CASE DispatchNext
  <2>1. CASE UNCHANGED <<status, runVars>>
    <3>1. UNCHANGED <<status, policy, created, clock, run, cleanup>>
      BY <1>4, <2>1 DEF DispatchNext, runVars
    <3>2. QED
      BY <3>1, BesideMaps DEF Occupies
  <2>2. CASE \E h \in QueueHead(Queued, policy) : Ready(h) /\ StartRun(h, status)
    BY <1>4, <2>2, ServesHead DEF DispatchNext, Ready, ReadyAfter
  <2>3. QED
    BY <1>4, <2>1, <2>2 DEF DispatchNext
<1>5. ASSUME NEW m \in Resume, ResumeRun(m) PROVE Thread!Next
  <2>1. /\ m \in Run /\ ~Busy /\ run' = [run EXCEPT ![m] = "pending"]
        /\ UNCHANGED <<status, policy, created, clock, cleanup>>
    BY <1>5 DEF ResumeRun, Run
  <2>2. \A r \in Run : ~Occupies(r) /\ (Occupies(r)' <=> r = m)
    BY <2>1, FirstOccupant DEF Inv
  <2>3. Holder = {} /\ Holder' = {m}
    BY <2>1, <2>2 DEF Holder, Occupies
  <2>4. Known' = Known /\ Line' = Line /\ Steers' = Steers
    BY <2>1 DEF Known, Line, Steers, InLine, Queued
  <2>5. Thread!Continue(m)
    BY <2>1, <2>3, <2>4 DEF Thread!Continue, Known, Line, Steers, Holder
  <2>6. QED
    BY <2>5 DEF Thread!Next
<1>6. ASSUME NEW q \in Request, NEW kind \in Kinds, ReadRequest(q, kind)
      PROVE  UNCHANGED Thread!vars
  BY <1>0, <1>6 DEF ReadRequest, runVars
<1>7. QED
  BY <1>1, <1>2, <1>3, <1>4, <1>5, <1>6 DEF RequestCall

\* Every step of the queue is a step of the protocol, or none.
LEMMA StepMaps == Inv /\ [Next]_vars => [Thread!Next]_(Thread!vars)
<1> SUFFICES ASSUME Inv, [Next]_vars PROVE Thread!Next \/ UNCHANGED Thread!vars
  OBVIOUS
<1>1. CASE UNCHANGED vars
  <2>1. UNCHANGED <<status, policy, created, clock, run, cleanup>>
    BY <1>1 DEF vars
  <2>2. QED
    BY <2>1, BesideMaps DEF Occupies
<1>2. ASSUME NEW r \in Run,
             \/ Enqueue(r) \/ LoseHandOver(r) \/ LoseJob(r) \/ ExpireResult(r) \/ TakeJob(r)
             \/ RunStep(r)
      PROVE  Thread!Next \/ UNCHANGED Thread!vars
  BY <1>2, BesideQueue, BesideMaps DEF Inv
<1>3. QED
  BY <1>1, <1>2, IntakeMaps, QueueMaps DEF Next

\* A request keeps its ticket while it waits.
LEMMA TicketStep == Inv /\ [Next]_vars => Tickets'
<1> SUFFICES ASSUME Inv, [Next]_vars PROVE Tickets'
  OBVIOUS
<1>0. Queued \subseteq Request /\ clock \in Nat /\ \A q \in Request : created[q] \in Nat
  BY DEF Queued, Inv, TypeOK
<1>1. ASSUME UNCHANGED <<created, clock>>, Queued' \subseteq Queued, tx' = tx \/ tx'.step # "dispatch"
      PROVE  Tickets'
  BY <1>1 DEF Inv, Tickets
<1>2. ASSUME UNCHANGED <<status, policy, created, clock, tx>> PROVE Tickets'
  BY <1>1, <1>2 DEF Queued
<1>3. CASE Intake
  <2>1. NoTx.step # "dispatch"
    BY DEF NoTx
  <2>2. CASE (\E q \in Request, p \in Policies : IntakeChecks(q, p)) \/ IntakeReject
    <3>1. UNCHANGED <<created, clock>> /\ tx'.step # "dispatch"
      BY <2>1, <2>2 DEF IntakeChecks, IntakeReject
    <3>2. Queued' \subseteq Queued
      BY <2>2 DEF IntakeChecks, IntakeReject, Queued, Inv, TypeOK
    <3>3. QED
      BY <1>1, <3>1, <3>2
  <2>3. ASSUME IntakeInsert \/ IntakeDispatch \/ IntakeRollback
        PROVE  tx.req \in Request /\ tx.req \notin Queued
    BY <2>3 DEF IntakeInsert, IntakeDispatch, IntakeRollback, Unlocked, Inv, TxShape, NoTx, Queued
  <2>4. CASE IntakeInsert
    <3>1. /\ clock' = clock + 1 /\ Queued' = Queued
          /\ \A o \in Request : created'[o] = IF o = tx.req THEN clock + 1 ELSE created[o]
          /\ tx'.req = tx.req
      BY <2>4 DEF IntakeInsert, Queued, Inv, TypeOK
    <3>2. QED
      BY <1>0, <2>3, <2>4, <3>1 DEF Inv, Tickets
  <2>5. CASE IntakeDispatch
    <3>1. tx.step = "dispatch" /\ tx'.step # "dispatch" /\ UNCHANGED <<created, clock>>
      BY <2>1, <2>5 DEF IntakeDispatch
    <3>2. \A pol : QueueHead(Queued \cup {tx.req}, pol) \subseteq Request
      BY <1>0, <2>3, <2>5, HeadWaits
    <3>3. \/ status' = Committed(tx.req)
          \/ \E h \in Request : status' = [Committed(tx.req) EXCEPT ![h] = "dispatched"]
      BY <2>5, <3>2 DEF IntakeDispatch, StartRun, Committed
    <3>4. Queued' \subseteq Queued \cup {tx.req}
      BY <3>3 DEF Queued, Committed, Inv, TypeOK
    <3>5. QED
      BY <1>0, <3>1, <3>4 DEF Inv, Tickets
  <2>6. CASE IntakeRollback
    <3>1. /\ tx'.step # "dispatch" /\ UNCHANGED clock /\ Queued' = Queued
          /\ \A o \in Queued : created'[o] = created[o]
      BY <1>0, <2>1, <2>3, <2>6 DEF IntakeRollback, Queued, Inv, TypeOK
    <3>2. QED
      BY <3>1 DEF Inv, Tickets
  <2>7. QED
    BY <1>3, <2>2, <2>4, <2>5, <2>6 DEF Intake
<1>4. CASE \/ \E q \in Request : RequestCall(q)
           \/ ContinueQueue \/ DispatchNext
           \/ \E m \in Resume : ResumeRun(m)
  <2>1. UNCHANGED <<created, clock, tx>>
    BY <1>4 DEF RequestCall, ReadRequest, SteerQueued, CancelQueued, Answered, ContinueQueue,
                DispatchNext, ResumeRun
  <2>2. \/ UNCHANGED status
        \/ \E q \in Request, st \in {"cancelled", "dispatched"} : status' = [status EXCEPT ![q] = st]
    BY <1>0, <1>4, HeadWaits
       DEF RequestCall, ReadRequest, SteerQueued, CancelQueued, ContinueQueue, DispatchNext,
           ResumeRun, StartRun
  <2>3. Queued' \subseteq Queued
    BY <2>2 DEF Queued, Inv, TypeOK
  <2>4. QED
    BY <1>1, <2>1, <2>3
<1>5. CASE UNCHANGED vars
  BY <1>2, <1>5 DEF vars
<1>6. QED
  BY <1>2, <1>3, <1>4, <1>5, BesideQueue DEF Next, Inv

\* A request that was admitted is not forgotten.
LEMMA AdmittedStep ==
    ASSUME TypeOK, TxShape, [Next]_vars, NEW q \in Request, status[q] \in Admitted
    PROVE  status'[q] \in Admitted
<1> USE DEF Admitted
<1>1. ASSUME NEW h \in Request, NEW st, StartRun(h, st), st \in [Request -> Status],
             st[q] \in Admitted
      PROVE  status'[q] \in Admitted
  BY <1>1 DEF StartRun
<1>2. CASE Intake
  <2>1. ASSUME IntakeReject \/ IntakeDispatch
        PROVE  tx.req \in Request /\ status[tx.req] = "absent" /\ tx.req # q
    BY <2>1 DEF IntakeReject, IntakeDispatch, TxShape, NoTx
  <2>2. CASE IntakeReject
    BY <2>1, <2>2 DEF IntakeReject, TypeOK
  <2>3. CASE IntakeDispatch
    <3>1. Committed(tx.req) \in [Request -> Status] /\ Committed(tx.req)[q] = status[q]
      BY <2>1, <2>3 DEF Committed, TypeOK, Status
    <3>2. \A pol : QueueHead(Queued \cup {tx.req}, pol) \subseteq Request
      BY <2>1, <2>3, HeadWaits DEF Queued
    <3>3. status' = Committed(tx.req) \/ \E h \in Request : StartRun(h, Committed(tx.req))
      BY <2>3, <3>2 DEF IntakeDispatch, Committed
    <3>4. QED
      BY <1>1, <3>1, <3>3
  <2>4. QED
    BY <1>2, <2>2, <2>3 DEF Intake, IntakeChecks, IntakeInsert, IntakeRollback
<1>3. CASE ContinueQueue \/ DispatchNext
  <2>1. status' = status \/ \E h \in Request : StartRun(h, status)
    BY <1>3, HeadWaits DEF ContinueQueue, DispatchNext, Queued
  <2>2. status \in [Request -> Status]
    BY DEF TypeOK, Status
  <2>3. QED
    BY <1>1, <2>1, <2>2
<1>4. ASSUME NEW o \in Request, RequestCall(o) PROVE status'[q] \in Admitted
  BY <1>4 DEF RequestCall, ReadRequest, SteerQueued, CancelQueued, TypeOK
<1>5. QED
  BY <1>2, <1>3, <1>4, BesideQueue DEF Next, ResumeRun, vars

\* What a call has read stays admitted.
LEMMA CallStep == TypeOK /\ TxShape /\ CallShape /\ [Next]_vars => CallShape'
<1> SUFFICES ASSUME TypeOK, TxShape, CallShape, [Next]_vars,
                    NEW q \in Request, NEW kind \in Kinds, <<q, kind>> \in calls'
             PROVE  status'[q] \in Admitted
  BY DEF CallShape
<1>1. <<q, kind>> \in calls \/ status[q] = "queued"
  <2>1. ASSUME NEW o \in Request, RequestCall(o) PROVE <<q, kind>> \in calls \/ status[q] = "queued"
    <3>1. CASE SteerQueued(o) \/ CancelQueued(o)
      BY <3>1 DEF SteerQueued, CancelQueued, Answered
    <3>2. ASSUME NEW k \in Kinds, ReadRequest(o, k)
          PROVE  <<q, kind>> \in calls \/ status[q] = "queued"
      <4>1. calls' = calls \cup {<<o, k>>} /\ status[o] = "queued"
        BY <3>2 DEF ReadRequest
      <4>2. QED
        BY <4>1
    <3>3. QED
      BY <2>1, <3>1, <3>2 DEF RequestCall
  <2>2. CASE Intake \/ ContinueQueue \/ DispatchNext \/ \E m \in Resume : ResumeRun(m)
    BY <2>2 DEF Intake, IntakeChecks, IntakeReject, IntakeInsert, IntakeDispatch, IntakeRollback,
                ContinueQueue, DispatchNext, ResumeRun
  <2>3. QED
    BY <2>1, <2>2, BesideQueue DEF Next, vars
<1>2. QED
  BY <1>1, AdmittedStep DEF CallShape, Admitted

\* The empty thread maps to the empty line.
LEMMA InitMaps == Init => Inv /\ Thread!Init
<1> SUFFICES ASSUME Init PROVE Inv /\ Thread!Init
  OBVIOUS
<1>1. Queued = {} /\ InLine = {} /\ Known = {} /\ Holder = {}
  BY DEF Init, Queued, InLine, Known, Holder, Active
<1>2. OneRunAtATime
  BY <1>1 DEF OneRunAtATime, Holder
<1>3. Tickets
  BY <1>1 DEF Init, NoTx, Tickets
<1>4. Thread!Init
  BY <1>1 DEF Thread!Init, Init, Known, Holder
<1>5. QED
  BY <1>2, <1>3, <1>4, InitType DEF Inv, Init, CallShape

\* The requests of a thread, seen through their status and sequence alone, are the
\* line ThreadProtocol promises: no interleaving of intakes, steers, cancellations,
\* finishing runs and the continuation sweep serves a request before its turn.
THEOREM ThreadProtocolCorrect == Spec => ImplementsThread
<1>1. Spec => []Inv
  BY InitMaps, TypeStep, TicketStep, CallStep, OneRunAtATimeCorrect, PTL DEF Spec, Inv
<1>2. QED
  BY <1>1, InitMaps, StepMaps, PTL DEF Spec, ImplementsThread, Thread!Spec

-----------------------------------------------------------------------------
(* The contract of the runs, which AgentRun implements too.                *)

\* The statuses of a request that has a run; "cancelled" is written over "dispatched" by a
\* cancellation that read the request before its dispatch.
HasRun == {"dispatched", "cancelled"}

\* A run is committed together with the status of its request; a run that is cancelled
\* while it waits was never claimed; the newest run exists, and an intake has read its
\* status or takes it for active (auxiliary).
RunShape ==
    /\ \A r \in Run :
        /\ run[r] = "absent" => RowFree(r) /\ r \notin started
        /\ run[r] = "pending" /\ ~RowFree(r) => r \notin started
        /\ r \in Request /\ run[r] # "absent" => status[r] \in HasRun
    /\ latest # None => run[latest] # "absent"
    /\ tx # NoTx => tx.seen \in Active \/ (tx.seen = Newest /\ Newest \notin Active)

\* Run h is added to the thread, with the status of its request.
Adds(h) ==
    /\ run[h] = "absent"
    /\ h \in Request => status'[h] = "dispatched"
    /\ ~Busy
    /\ h \in Resume => Interrupted
    /\ h \in Request => ~Interrupted \/ tx.seen \in Active
    /\ run' = [run EXCEPT ![h] = "pending"]
    /\ latest' = h
    /\ tx' = NoTx
    /\ UNCHANGED <<started, cleanup, finished>>

\* A dispatch adds the run of a request that has none.
LEMMA StartRunAdds ==
    ASSUME TypeOK, RunShape, NEW h \in Request, NEW st \in [Request -> Status], StartRun(h, st),
           status[h] \notin HasRun, ~Busy, ~Interrupted \/ tx.seen \in Active, tx' = NoTx
    PROVE  Adds(h) /\ status' = [st EXCEPT ![h] = "dispatched"]
<1>1. run[h] = "absent" /\ status'[h] = "dispatched"
  BY DEF RunShape, StartRun, Run
<1>2. QED
  BY <1>1, ResumeIsNoRequest DEF StartRun, Adds

\* A step of the queue keeps every request that has a run, and adds at most one run.
LEMMA WhoAdds ==
    ASSUME TypeOK, TxShape, RunShape,
           \/ Intake \/ ContinueQueue \/ DispatchNext
           \/ \E q \in Request : RequestCall(q)
           \/ \E m \in Resume : ResumeRun(m)
    PROVE  /\ \A q \in Request : status[q] \in HasRun => status'[q] \in HasRun
           /\ UNCHANGED runVars \/ \E h \in Run : Adds(h)
<1> DEFINE Kept == \A q \in Request : status[q] \in HasRun => status'[q] \in HasRun
<1> USE DEF HasRun
<1>1. ASSUME NEW h \in Request, NEW st \in [Request -> Status], StartRun(h, st),
             status[h] \notin HasRun, ~Busy, ~Interrupted \/ tx.seen \in Active, tx' = NoTx,
             \A q \in Request : status[q] \in HasRun => st[q] \in HasRun
      PROVE  Kept /\ \E x \in Run : Adds(x)
  BY <1>1, StartRunAdds DEF Run
<1>2. Queued \subseteq Request /\ \A q \in Queued : status[q] \notin HasRun
  BY DEF Queued
<1>3. CASE IntakeDispatch
  <2>1. tx.req \in Request /\ status[tx.req] = "absent" /\ tx' = NoTx
    BY <1>3 DEF IntakeDispatch, TxShape, NoTx
  <2>2. /\ Committed(tx.req) \in [Request -> Status]
        /\ \A q \in Request : status[q] \in HasRun => Committed(tx.req)[q] \in HasRun
    BY <2>1 DEF Committed, TypeOK, Status
  <2>3. \A pol : \A h \in QueueHead(Queued \cup {tx.req}, pol) :
            h \in Request /\ status[h] \notin HasRun
    BY <1>2, <2>1, HeadWaits
  <2>4. CASE status' = Committed(tx.req) /\ UNCHANGED runVars
    BY <2>2, <2>4
  <2>5. ASSUME NEW h \in Request, StartRun(h, Committed(tx.req)), status[h] \notin HasRun,
               ReadyAfter(h, tx.seen)
        PROVE  Kept /\ \E x \in Run : Adds(x)
    <3>1. tx # NoTx
      BY <1>3 DEF IntakeDispatch, NoTx
    <3>2. ~Busy /\ (~Interrupted \/ tx.seen \in Active)
      BY <2>5, <3>1 DEF ReadyAfter, RunShape, Newest, Interrupted
    <3>3. QED
      BY <1>1, <2>1, <2>2, <2>5, <3>2
  <2>6. QED
    BY <1>3, <2>3, <2>4, <2>5 DEF IntakeDispatch, Committed
<1>4. CASE Intake /\ ~IntakeDispatch
  <2>1. UNCHANGED runVars
    BY <1>4 DEF Intake, IntakeChecks, IntakeReject, IntakeInsert, IntakeRollback
  <2>2. tx.step = "reject" => tx.req \in Request /\ status[tx.req] = "absent"
    BY DEF TxShape, NoTx
  <2>3. Kept
    BY <1>4, <2>2 DEF Intake, IntakeChecks, IntakeReject, IntakeInsert, IntakeRollback, TypeOK
  <2>4. QED
    BY <2>1, <2>3
<1>5. CASE ContinueQueue \/ DispatchNext
  <2>1. \/ UNCHANGED <<status, runVars>>
        \/ \E h \in Queued : StartRun(h, status) /\ ~Busy /\ ~Interrupted /\ tx' = NoTx
    BY <1>5, HeadWaits
       DEF ContinueQueue, DispatchNext, Ready, ReadyAfter, Paused, PausedAfter, Newest,
           Interrupted, Unlocked
  <2>2. status \in [Request -> Status]
    BY DEF TypeOK, Status
  <2>3. QED
    BY <1>1, <1>2, <2>1, <2>2
<1>6. CASE \E q \in Request : RequestCall(q)
  BY <1>6 DEF RequestCall, ReadRequest, SteerQueued, CancelQueued, Answered, TypeOK
<1>7. ASSUME NEW m \in Resume, ResumeRun(m) PROVE Kept /\ Adds(m) /\ m \in Run
  BY <1>7, ResumeIsNoRequest DEF ResumeRun, Adds, Run, Unlocked
<1>8. QED
  BY <1>3, <1>4, <1>5, <1>6, <1>7

\* Deliveries and workers only move runs that are active.
LEMMA BesideEnded ==
    ASSUME TypeOK, NEW r \in Run, NEW x \in Run, run[x] \notin Active,
           \/ Enqueue(r) \/ LoseHandOver(r) \/ LoseJob(r) \/ ExpireResult(r) \/ TakeJob(r)
           \/ RunStep(r)
    PROVE  run'[x] = run[x]
<1>1. ASSUME NEW st \in Terminal, Finish(r, st) PROVE run'[x] = run[x]
  BY <1>1 DEF Finish, TypeOK
<1>2. CASE TakeJob(r) \/ Retry(r) \/ RequestCancel(r)
  BY <1>2 DEF TakeJob, Retry, RequestCancel, TypeOK, Active
<1>3. QED
  BY <1>1, <1>2 DEF Enqueue, LoseHandOver, LoseJob, ExpireResult, RunStep, YieldToSteer,
                    Stamp, CleanRuntime, runVars

\* What an intake has seen of the newest run stays true, or that run was active.
SeenShape == tx # NoTx => tx.seen \in Active \/ (tx.seen = Newest /\ Newest \notin Active)

\* The rest of RunShape.
RowShape ==
    /\ \A r \in Run :
        /\ run[r] = "absent" => RowFree(r) /\ r \notin started
        /\ run[r] = "pending" /\ ~RowFree(r) => r \notin started
        /\ r \in Request /\ run[r] # "absent" => status[r] \in HasRun
    /\ latest # None => run[latest] # "absent"

\* A step of a delivery or of a run keeps RunShape.
LEMMA RunShapeBeside ==
    ASSUME TypeOK, RunShape, NEW r \in Run,
           \/ Enqueue(r) \/ LoseHandOver(r) \/ LoseJob(r) \/ ExpireResult(r) \/ TakeJob(r)
           \/ RunStep(r)
    PROVE  RunShape'
<1> USE DEF RowFree
<1>1. UNCHANGED <<status, latest, tx>>
  BY BesideQueue
<1>2. latest \in Run \cup {None}
  BY DEF TypeOK
<1>3. SeenShape'
  <2>1. Newest \notin Active => Newest' = Newest
    BY <1>1, <1>2, BesideEnded DEF Newest
  <2>2. QED
    BY <1>1, <2>1 DEF SeenShape, RunShape
<1>4. ASSUME UNCHANGED <<run, started, finished>> PROVE RowShape'
  BY <1>1, <1>4 DEF RunShape, RowShape
<1>5. CASE \/ Enqueue(r) \/ LoseHandOver(r) \/ LoseJob(r) \/ ExpireResult(r)
           \/ YieldToSteer(r) \/ CleanRuntime(r)
  <2>1. RowShape'
    BY <1>4, <1>5 DEF Enqueue, LoseHandOver, LoseJob, ExpireResult, YieldToSteer, CleanRuntime,
                      runVars
  <2>2. QED
    BY <1>3, <2>1 DEF RunShape, RowShape, SeenShape
<1>6. CASE TakeJob(r)
  <2>1. RowShape'
    BY <1>1, <1>2, <1>6 DEF TakeJob, RunShape, RowShape, TypeOK, Terminal
  <2>2. QED
    BY <1>3, <2>1 DEF RunShape, RowShape, SeenShape
<1>7. CASE Retry(r) \/ RequestCancel(r)
  <2>1. RowShape'
    BY <1>1, <1>2, <1>7 DEF Retry, RequestCancel, RunShape, RowShape, TypeOK
  <2>2. QED
    BY <1>3, <2>1 DEF RunShape, RowShape, SeenShape
<1>8. CASE Stamp(r)
  <2>1. RowShape'
    BY <1>1, <1>2, <1>8 DEF Stamp, RunShape, RowShape, TypeOK, Active
  <2>2. QED
    BY <1>3, <2>1 DEF RunShape, RowShape, SeenShape
<1>9. ASSUME NEW st \in Terminal, Finish(r, st) PROVE RunShape'
  <2>1. RowShape'
    BY <1>1, <1>2, <1>9 DEF Finish, RunShape, RowShape, TypeOK, Active, Terminal
  <2>2. QED
    BY <1>3, <2>1 DEF RunShape, RowShape, SeenShape
<1>10. QED
  BY <1>5, <1>6, <1>7, <1>8, <1>9 DEF RunStep

\* An intake starts with the newest run as it is, and keeps what it has seen.
LEMMA SeenStep ==
    ASSUME SeenShape, \/ Intake \/ ContinueQueue \/ DispatchNext
                      \/ \E q \in Request : RequestCall(q)
                      \/ \E m \in Resume : ResumeRun(m)
    PROVE  tx' = NoTx \/ (UNCHANGED runVars => SeenShape')
<1>1. ASSUME UNCHANGED runVars PROVE Newest' = Newest
  BY <1>1 DEF Newest, runVars
<1>2. ASSUME NEW q \in Request, NEW p \in Policies, IntakeChecks(q, p), UNCHANGED runVars
      PROVE  SeenShape'
  <2>1. tx'.seen = Newest
    BY <1>2 DEF IntakeChecks
  <2>2. QED
    BY <1>1, <1>2, <2>1 DEF SeenShape
<1>3. ASSUME IntakeInsert, UNCHANGED runVars PROVE SeenShape'
  <2>1. tx # NoTx
    BY <1>3 DEF IntakeInsert, NoTx
  <2>2. tx'.seen = tx.seen
    BY <1>3 DEF IntakeInsert
  <2>3. QED
    BY <1>1, <1>3, <2>1, <2>2 DEF SeenShape
<1>4. CASE IntakeReject \/ IntakeDispatch \/ IntakeRollback
  BY <1>4 DEF IntakeReject, IntakeDispatch, IntakeRollback
<1>5. CASE \/ ContinueQueue \/ DispatchNext
           \/ \E q \in Request : RequestCall(q)
           \/ \E m \in Resume : ResumeRun(m)
  <2>1. tx' = tx
    BY <1>5 DEF ContinueQueue, DispatchNext, RequestCall, ReadRequest, SteerQueued,
                CancelQueued, Answered, ResumeRun
  <2>2. QED
    BY <1>1, <2>1 DEF SeenShape
<1>6. QED
  BY <1>2, <1>3, <1>4, <1>5 DEF Intake

\* Every step keeps RunShape.
LEMMA RunShapeStep == TypeOK /\ TxShape /\ RunShape /\ [Next]_vars => RunShape'
<1> SUFFICES ASSUME TypeOK, TxShape, RunShape, [Next]_vars PROVE RunShape'
  OBVIOUS
<1>1. RunShape <=> RowShape /\ SeenShape
  BY DEF RunShape, RowShape, SeenShape
<1>2. (RunShape <=> RowShape /\ SeenShape)'
  BY DEF RunShape, RowShape, SeenShape
<1>3. ASSUME UNCHANGED runVars, \A q \in Request : status[q] \in HasRun => status'[q] \in HasRun
      PROVE  RowShape'
  BY <1>1, <1>3 DEF RowShape, RowFree, runVars
<1>4. ASSUME NEW h \in Run, Adds(h),
             \A q \in Request : status[q] \in HasRun => status'[q] \in HasRun
      PROVE  RunShape'
  <2>1. RowShape'
    BY <1>1, <1>4 DEF RowShape, RowFree, Adds, TypeOK, HasRun
  <2>2. SeenShape'
    BY <1>4 DEF Adds, SeenShape
  <2>3. QED
    BY <1>2, <2>1, <2>2
<1>5. CASE UNCHANGED vars
  <2>1. UNCHANGED <<status, runVars, tx>>
    BY <1>5 DEF vars, runVars
  <2>2. SeenShape'
    BY <1>1, <2>1 DEF SeenShape, Newest, runVars
  <2>3. QED
    BY <1>2, <1>3, <2>1, <2>2
<1>6. CASE \/ Intake \/ ContinueQueue \/ DispatchNext
           \/ \E q \in Request : RequestCall(q)
           \/ \E m \in Resume : ResumeRun(m)
  <2>1. CASE UNCHANGED runVars
    <3>1. SeenShape'
      <4>1. tx' = NoTx => SeenShape'
        BY DEF SeenShape
      <4>2. QED
        BY <1>1, <1>6, <2>1, <4>1, SeenStep
    <3>2. QED
      BY <1>2, <1>3, <1>6, <2>1, <3>1, WhoAdds
  <2>2. QED
    BY <1>4, <1>6, <2>1, WhoAdds
<1>7. QED
  BY <1>5, <1>6, RunShapeBeside DEF Next

\* A step of a delivery or of a run is one thing that can happen to a run of the thread.
LEMMA BesideRuns ==
    ASSUME TypeOK, RunShape, NEW r \in Run,
           \/ Enqueue(r) \/ LoseHandOver(r) \/ LoseJob(r) \/ ExpireResult(r) \/ TakeJob(r)
           \/ RunStep(r)
    PROVE  UNCHANGED Runs!runs \/ \E x \in Runs!Run : Runs!RunStep(x)
<1> USE DEF RowFree, Runs!Run, Runs!runs, Runs!Moves, Runs!Active
<1>1. r \in Runs!Run
  BY DEF Run
<1>2. CASE \/ Enqueue(r) \/ LoseHandOver(r) \/ LoseJob(r) \/ ExpireResult(r)
           \/ YieldToSteer(r) \/ Stamp(r)
  BY <1>2 DEF Enqueue, LoseHandOver, LoseJob, ExpireResult, YieldToSteer, Stamp, runVars
<1>3. CASE TakeJob(r)
  <2>1. Runs!Claim(r) \/ UNCHANGED Runs!runs
    BY <1>3 DEF TakeJob, Runs!Claim
  <2>2. QED
    BY <1>1, <2>1 DEF Runs!RunStep
<1>4. CASE Retry(r)
  <2>1. Runs!Retry(r)
    BY <1>4 DEF Retry, Runs!Retry
  <2>2. QED
    BY <1>1, <2>1 DEF Runs!RunStep
<1>5. CASE RequestCancel(r)
  <2>1. Runs!Stop(r)
    BY <1>5 DEF RequestCancel, Runs!Stop
  <2>2. QED
    BY <1>1, <2>1 DEF Runs!RunStep
<1>6. CASE CleanRuntime(r)
  <2>1. Runs!Release(r)
    BY <1>6 DEF CleanRuntime, Runs!Release
  <2>2. QED
    BY <1>1, <2>1 DEF Runs!RunStep
<1>7. ASSUME NEW st \in Terminal, Finish(r, st)
      PROVE  \E x \in Runs!Run : Runs!RunStep(x)
  <2>1. CASE run[r] = "pending"
    <3>1. r \notin started /\ st = "cancelled"
      BY <1>7, <2>1 DEF Finish, RunShape
    <3>2. cleanup' = [cleanup EXCEPT ![r] = FALSE]
      BY <1>7, <2>1 DEF Finish
    <3>3. Runs!Withdraw(r)
      BY <1>7, <2>1, <3>1, <3>2 DEF Finish, Runs!Withdraw
    <3>4. QED
      BY <1>1, <3>3 DEF Runs!RunStep
  <2>2. CASE run[r] # "pending"
    <3>1. cleanup' = [cleanup EXCEPT ![r] = TRUE]
      BY <1>7, <2>2 DEF Finish
    <3>2. \/ run[r] = "running" /\ st \in {"completed", "interrupted", "failed"}
          \/ run[r] = "cancel_requested" /\ st \in {"cancelled", "failed"}
      BY <1>7, <2>2 DEF Finish, Active
    <3>3. Runs!Finish(r)
      BY <1>7, <3>1, <3>2 DEF Finish, Runs!Finish
    <3>4. QED
      BY <1>1, <3>3 DEF Runs!RunStep
  <2>3. QED
    BY <2>1, <2>2
<1>8. QED
  BY <1>2, <1>3, <1>4, <1>5, <1>6, <1>7 DEF RunStep

\* An intake takes an ended run for active only if that run was active when it began.
LEMMA LookStep ==
    ASSUME TypeOK, TxShape, [Next]_vars, tx'.seen \in Active
    PROVE  tx.seen \in Active \/ ~Interrupted
<1>1. NoTx.seen \notin Active
  BY DEF NoTx, Active
<1>2. ASSUME NEW q \in Request, NEW p \in Policies, IntakeChecks(q, p) PROVE ~Interrupted
  BY <1>2 DEF IntakeChecks
<1>3. CASE IntakeInsert
  BY <1>3 DEF IntakeInsert, TypeOK
<1>4. CASE IntakeReject \/ IntakeDispatch \/ IntakeRollback
  BY <1>1, <1>4 DEF IntakeReject, IntakeDispatch, IntakeRollback
<1>5. CASE \/ ContinueQueue \/ DispatchNext
           \/ \E q \in Request : RequestCall(q)
           \/ \E m \in Resume : ResumeRun(m)
           \/ UNCHANGED vars
  <2>1. tx' = tx
    BY <1>5 DEF ContinueQueue, DispatchNext, RequestCall, ReadRequest, SteerQueued,
                CancelQueued, Answered, ResumeRun, vars
  <2>2. QED
    BY <2>1
<1>6. QED
  BY <1>2, <1>3, <1>4, <1>5, BesideQueue DEF Next, Intake

\* The runs of the queue keep the contract that AgentRun keeps: a message only starts a
\* run on a thread that waits for its user if its intake has read the newest run while
\* that run was active, and what the queue takes a run to do is what a run really does.
THEOREM ThreadRunsCorrect == Spec => ImplementsThreadRuns
<1>1. Init => TypeOK /\ TxShape /\ RunShape /\ Runs!Init
  <2>1. Init => RunShape
    BY DEF Init, RunShape, RowFree, NoTx
  <2>2. Init => Runs!Init
    BY DEF Init, Runs!Init, Runs!Run, Run
  <2>3. QED
    BY <2>1, <2>2, InitType
<1>2. TypeOK /\ TxShape /\ RunShape /\ [Next]_vars => [Runs!Next]_(Runs!vars)
  <2> SUFFICES ASSUME TypeOK, TxShape, RunShape, [Next]_vars PROVE Runs!Next
    OBVIOUS
  <2>1. ASSUME NEW h \in Run, Adds(h) PROVE \E x \in Runs!Run : Runs!RunStep(x)
    <3>1. ~Runs!Occupied /\ (Runs!Waits <=> Interrupted)
      BY <2>1 DEF Adds, Busy, Interrupted, Run, Active, Runs!Occupied, Runs!Waits, Runs!Run,
                  Runs!Active
    <3>2. Runs!Add(h)
      BY <2>1, <3>1 DEF Adds, Runs!Add
    <3>3. QED
      BY <3>2 DEF Runs!RunStep, Runs!Run, Run
  <2>2. ASSUME UNCHANGED runVars \/ UNCHANGED vars PROVE UNCHANGED Runs!runs
    BY <2>2 DEF runVars, vars, Runs!runs
  <2>3. UNCHANGED Runs!runs \/ \E x \in Runs!Run : Runs!RunStep(x)
    BY <2>1, <2>2, WhoAdds, BesideRuns DEF Next
  <2>4. Runs!Look
    BY LookStep DEF Runs!Look, Runs!Waits, Interrupted
  <2>5. QED
    BY <2>3, <2>4 DEF Runs!Next
<1>3. QED
  BY <1>1, <1>2, TypeStep, RunShapeStep, PTL DEF Spec, ImplementsThreadRuns, Runs!Spec

-----------------------------------------------------------------------------
(* A request as the scheduled agents see it.                               *)

\* has_active_run: a request is absent, active (queued, or dispatched with a run that has not
\* ended), or ended.
Phase(q) ==
    IF status[q] = "absent" THEN "absent"
    ELSE IF status[q] = "queued" \/ (status[q] = "dispatched" /\ run[q] \notin Terminal)
         THEN "active" ELSE "ended"

\* A cancellation has read the request while it was waiting.
Cancelling(q) == \E kind \in {"cancel", "cancel steer"} : <<q, kind>> \in calls

\* What one step may do to a request.
PhaseMove(q) ==
    \/ Phase(q)' = Phase(q)
    \/ Phase(q) = "absent" /\ Phase(q)' = "active"
    \/ Phase(q) = "absent" /\ Phase(q)' = "ended" /\ policy'[q] = "reject"
    \/ /\ Phase(q) = "active" /\ Phase(q)' = "ended"
       /\ (status[q] = "dispatched" /\ run'[q] \in Terminal) \/ Cancelling(q)

\* A request that was submitted to be queued becomes active, ends once, and never comes back,
\* whatever is retried, lost or steered: the request that module ScheduledAgent reduces to
\* absent, active and ended is the request of this module.  It ends with its run, or by a
\* cancellation that read it while it was waiting; the latter may overtake its dispatch, and
\* then the request reads as ended while its run goes on.
RequestsEndOnce == [][\A q \in Request : PhaseMove(q)]_vars

\* Only an intake with the policy "reject" is about to be rejected (auxiliary).
RejectShape == tx.step = "reject" => tx.policy = "reject"

\* Every step keeps RejectShape.
LEMMA RejectStep == TypeOK /\ RejectShape /\ [Next]_vars => RejectShape'
<1> SUFFICES ASSUME TypeOK, RejectShape, [Next]_vars PROVE RejectShape'
  OBVIOUS
<1>1. tx' = NoTx \/ tx' = tx => RejectShape'
  BY DEF RejectShape, NoTx
<1>2. ASSUME NEW q, NEW p, IntakeChecks(q, p) PROVE RejectShape'
  BY <1>2 DEF IntakeChecks, RejectShape
<1>3. CASE IntakeInsert
  BY <1>3 DEF IntakeInsert, RejectShape, TypeOK
<1>4. CASE \/ IntakeReject \/ IntakeDispatch \/ IntakeRollback \/ ContinueQueue \/ DispatchNext
           \/ \E q \in Request : RequestCall(q)
           \/ \E m \in Resume : ResumeRun(m)
           \/ UNCHANGED vars
  BY <1>1, <1>4 DEF IntakeReject, IntakeDispatch, IntakeRollback, ContinueQueue, DispatchNext,
                    RequestCall, ReadRequest, SteerQueued, CancelQueued, Answered, ResumeRun, vars
<1>5. QED
  BY <1>1, <1>2, <1>3, <1>4, BesideQueue DEF Next, Intake

\* The status of q moves by one operation of the queue; a dispatch brings a pending run, and
\* a cancellation that read the request while it waited is written over what it is now.
StatusMove(q) ==
    \/ status'[q] = status[q]
    \/ status[q] = "absent" /\ status'[q] = "queued"
    \/ status[q] \in Admitted /\ status'[q] = "cancelled" /\ Cancelling(q)
    \/ status[q] \in {"absent", "queued"} /\ status'[q] = "dispatched" /\ run'[q] = "pending"
    \/ status[q] = "absent" /\ status'[q] = "rejected" /\ policy'[q] = "reject"

\* Every operation of the queue moves a status like that.
LEMMA StatusMoves ==
    ASSUME TypeOK, TxShape, RejectShape, CallShape, NEW q \in Request,
           \/ Intake \/ ContinueQueue \/ DispatchNext
           \/ \E o \in Request : RequestCall(o)
           \/ \E m \in Resume : ResumeRun(m)
    PROVE  StatusMove(q)
<1>1. ASSUME NEW h \in Queued, StartRun(h, status) PROVE StatusMove(q)
  BY <1>1 DEF StartRun, Queued, StatusMove, TypeOK, Run
<1>2. CASE IntakeDispatch
  <2>1. tx.req \in Request /\ status[tx.req] = "absent"
    BY <1>2 DEF IntakeDispatch, TxShape, NoTx
  <2>2. policy' = [policy EXCEPT ![tx.req] = tx.policy]
    BY <1>2 DEF IntakeDispatch
  <2>3. CASE status' = Committed(tx.req)
    <3>1. status'[q] = IF q # tx.req THEN status[q]
                       ELSE IF tx.policy = "reject" THEN "rejected" ELSE "queued"
      BY <2>1, <2>3 DEF Committed, TypeOK
    <3>2. q = tx.req => policy'[q] = tx.policy
      BY <2>1, <2>2 DEF TypeOK
    <3>3. QED
      BY <2>1, <3>1, <3>2 DEF StatusMove
  <2>4. ASSUME NEW h \in Queued \cup {tx.req}, StartRun(h, Committed(tx.req)) PROVE StatusMove(q)
    <3>1. h \in Request /\ status[h] \in {"absent", "queued"}
      BY <2>1 DEF Queued
    <3>2. status'[q] = IF q = h THEN "dispatched" ELSE Committed(tx.req)[q]
      BY <2>4, <3>1 DEF StartRun, Committed, TypeOK
    <3>3. run'[h] = "pending"
      BY <2>4, <3>1 DEF StartRun, TypeOK, Run
    <3>4. Committed(tx.req)[q] = IF q # tx.req THEN status[q]
                                 ELSE IF tx.policy = "reject" THEN "rejected" ELSE "queued"
      BY <2>1 DEF Committed, TypeOK
    <3>5. q = tx.req => policy'[q] = tx.policy
      BY <2>1, <2>2 DEF TypeOK
    <3>6. QED
      BY <2>1, <3>1, <3>2, <3>3, <3>4, <3>5 DEF StatusMove
  <2>5. \A pol : \A h \in QueueHead(Queued \cup {tx.req}, pol) : h \in Queued \cup {tx.req}
    BY HeadWaits
  <2>6. QED
    BY <1>2, <2>3, <2>4, <2>5 DEF IntakeDispatch, Committed
<1>3. CASE IntakeReject
  <2>1. tx.req \in Request /\ status[tx.req] = "absent" /\ tx.policy = "reject"
    BY <1>3 DEF IntakeReject, TxShape, RejectShape, NoTx
  <2>2. QED
    BY <1>3, <2>1 DEF IntakeReject, StatusMove, TypeOK
<1>4. CASE ContinueQueue \/ DispatchNext
  <2>1. status' = status \/ \E h \in Queued : StartRun(h, status)
    BY <1>4, HeadWaits DEF ContinueQueue, DispatchNext
  <2>2. QED
    BY <1>1, <2>1 DEF StatusMove
<1>5. ASSUME NEW o \in Request, CancelQueued(o) PROVE StatusMove(q)
  <2>1. CASE status' = [status EXCEPT ![o] = "cancelled"]
    <3>1. Cancelling(o)
      BY <1>5, <2>1 DEF CancelQueued, Answered, Cancelling
    <3>2. status[o] \in Admitted
      BY <3>1 DEF CallShape, Cancelling, Kinds
    <3>3. QED
      BY <2>1, <3>1, <3>2 DEF StatusMove, TypeOK
  <2>2. QED
    BY <1>5, <2>1 DEF CancelQueued, StatusMove
<1>6. CASE \/ IntakeInsert \/ IntakeRollback \/ \E o \in Request, p \in Policies : IntakeChecks(o, p)
           \/ \E o \in Request : SteerQueued(o) \/ \E kind \in Kinds : ReadRequest(o, kind)
           \/ \E m \in Resume : ResumeRun(m)
  BY <1>6 DEF IntakeInsert, IntakeRollback, IntakeChecks, SteerQueued, ReadRequest, ResumeRun,
              StatusMove
<1>7. QED
  BY <1>2, <1>3, <1>4, <1>5, <1>6 DEF Intake, RequestCall

\* Every step moves every request as PhaseMove says.
LEMMA PhaseStep ==
    TypeOK /\ TxShape /\ RunShape /\ RejectShape /\ CallShape /\ [Next]_vars
        => \A q \in Request : PhaseMove(q)
<1> SUFFICES ASSUME TypeOK, TxShape, RunShape, RejectShape, CallShape, [Next]_vars,
                    NEW q \in Request
             PROVE  PhaseMove(q)
  OBVIOUS
<1>1. q \in Run /\ \A st \in Terminal : st \notin Active
  BY DEF Run, Terminal, Active
<1>2. ASSUME StatusMove(q), run[q] \in Terminal => run'[q] \in Terminal PROVE PhaseMove(q)
  BY <1>2 DEF StatusMove, PhaseMove, Phase, Terminal, Admitted
<1>3. CASE \/ Intake \/ ContinueQueue \/ DispatchNext
           \/ \E o \in Request : RequestCall(o)
           \/ \E m \in Resume : ResumeRun(m)
  <2>1. StatusMove(q)
    BY <1>3, StatusMoves
  <2>2. UNCHANGED runVars \/ \E h \in Run : Adds(h)
    BY <1>3, WhoAdds
  <2>3. ASSUME NEW h \in Run, Adds(h), run[q] \in Terminal PROVE run'[q] = run[q]
    BY <1>1, <2>3 DEF Adds, TypeOK, Terminal
  <2>4. QED
    BY <1>2, <2>1, <2>2, <2>3 DEF runVars
<1>4. ASSUME NEW r \in Run,
             \/ Enqueue(r) \/ LoseHandOver(r) \/ LoseJob(r) \/ ExpireResult(r) \/ TakeJob(r)
             \/ RunStep(r)
      PROVE  PhaseMove(q)
  <2>1. status' = status /\ (run[q] \in Terminal => run'[q] \in Terminal)
    BY <1>1, <1>4, BesideQueue, BesideEnded
  <2>2. QED
    BY <1>2, <2>1 DEF StatusMove
<1>5. CASE UNCHANGED vars
  BY <1>5 DEF vars, PhaseMove, Phase
<1>6. QED
  BY <1>3, <1>4, <1>5 DEF Next

\* A queued request becomes active and ends once, as module ScheduledAgent assumes of the
\* request of each of its triggers; what ends it is its run or a cancellation that read it
\* while it was waiting.
THEOREM RequestsEndOnceCorrect == Spec => RequestsEndOnce
<1>1. Init => RunShape /\ RejectShape /\ CallShape
  BY DEF Init, RunShape, RejectShape, CallShape, RowFree, NoTx
<1>2. TypeOK /\ TxShape /\ RunShape /\ RejectShape /\ CallShape /\ [Next]_vars =>
        [\A q \in Request : PhaseMove(q)]_vars
  BY PhaseStep
<1>3. QED
  BY <1>1, <1>2, InitType, TypeStep, RunShapeStep, RejectStep, CallStep, PTL
     DEF Spec, RequestsEndOnce
=============================================================================
