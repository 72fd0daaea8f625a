------------------------ MODULE ScheduledAgentProofs ------------------------
(* Proofs about ScheduledAgent, for every set of manual request ids and    *)
(* processes, every horizon and every number of faults.                    *)
EXTENDS ScheduledAgent, TLAPS

\* The statuses of a trigger and the points of a dispatch.
TriggerStatus == {"absent", "skipped", "dispatching", "submitted", "failed", "cancelled"}
Step == {"idle", "dispatch", "intake", "mark", "refused", "error"}

\* A dispatch that runs has a trigger (auxiliary).
Aimed == \A p \in Proc : pc[p] # "idle" => at[p] \in Trigger

\* A dispatch that moves on, or starts, keeps the types of its two variables.
LEMMA GotoType ==
    ASSUME TypeOK, NEW p \in Proc
    PROVE  /\ \A step \in Step : Goto(p, step) =>
                  pc' \in [Proc -> Step] /\ at' \in [Proc -> Trigger \cup {None}]
           /\ \A t \in Trigger : Start(p, t) =>
                  pc' \in [Proc -> Step] /\ at' \in [Proc -> Trigger \cup {None}]
BY DEF TypeOK, Goto, Start, Step

\* A fault is counted within its bound.
LEMMA FaultType == TypeOK /\ Fault => faults' \in 0..MaxFaults
BY BoundsAreCounts DEF TypeOK, Fault

\* The initial job is well typed.
LEMMA InitType == Init => TypeOK /\ Aimed
<1> SUFFICES ASSUME Init PROVE TypeOK /\ Aimed
  OBVIOUS
<1>1. next \in 1..(MaxClock + 1) /\ 0 \in 0..MaxClock /\ 0 \in 0..MaxFaults
  BY BoundsAreCounts DEF Init, Slot
<1>2. QED
  BY <1>1 DEF Init, TypeOK, Aimed

\* A due occurrence is one of the slots.
LEMMA DueSlot == \A p : TypeOK /\ ClaimDueRun(p) => next \in Slot /\ next \in Trigger
BY BoundsAreCounts DEF ClaimDueRun, Due, TypeOK, Slot, Trigger

\* The operations on the job row keep the types.
LEMMA JobType ==
    ASSUME TypeOK
    PROVE  /\ \A on, changed \in BOOLEAN : UpdateJob(on, changed) => TypeOK'
           /\ DeleteJob => TypeOK'
           /\ DeleteAccount => TypeOK'
           /\ \A p \in Proc : ClaimDueRun(p) => TypeOK'
           /\ \A p \in Proc, m \in Manual : RunNow(p, m) => TypeOK'
           /\ \A p \in Proc, t \in Trigger : Recover(p, t) => TypeOK'
<1>1. NextRunAt \subseteq 1..(MaxClock + 1) /\ NewStatus \in TriggerStatus
  BY DEF NextRunAt, NewStatus, TriggerStatus
<1>2. ASSUME NEW on \in BOOLEAN, NEW changed \in BOOLEAN, UpdateJob(on, changed) PROVE TypeOK'
  <2>1. next' \in 1..(MaxClock + 1) /\ floor' \in 0..MaxClock
    BY <1>1, <1>2 DEF UpdateJob, TypeOK
  <2>2. QED
    BY <1>2, <2>1 DEF UpdateJob, TypeOK
<1>3. DeleteJob => TypeOK'
  BY DEF DeleteJob, TypeOK
<1>4. DeleteAccount => TypeOK'
  BY DEF DeleteAccount, TypeOK
<1>5. ASSUME NEW p \in Proc, ClaimDueRun(p) PROVE TypeOK'
  <2>1. next \in Slot
    BY <1>5, DueSlot
  <2>2. CASE enabled' = FALSE /\ UNCHANGED <<next, trigger, pc, at, floor>>
    BY <1>5, <2>2 DEF ClaimDueRun, TypeOK
  <2>3. CASE /\ next' \in NextRunAt
             /\ trigger' = [trigger EXCEPT ![next] = NewStatus]
             /\ IF NewStatus = "dispatching" THEN Start(p, next) ELSE UNCHANGED <<pc, at>>
             /\ floor' = clock
             /\ UNCHANGED enabled
    <3>1. pc' \in [Proc -> Step] /\ at' \in [Proc -> Trigger \cup {None}]
      BY <2>1, <2>3, GotoType DEF TypeOK, Step, Trigger
    <3>2. trigger' \in [Trigger -> TriggerStatus]
      BY <1>1, <2>3 DEF TypeOK, TriggerStatus
    <3>3. QED
      BY <1>1, <1>5, <2>3, <3>1, <3>2 DEF ClaimDueRun, TypeOK, TriggerStatus, Step
  <2>4. QED
    BY <1>5, <2>2, <2>3 DEF ClaimDueRun
<1>6. ASSUME NEW p \in Proc, NEW m \in Manual, RunNow(p, m) PROVE TypeOK'
  <2>1. m \in Trigger
    BY DEF Trigger
  <2>2. pc' \in [Proc -> Step] /\ at' \in [Proc -> Trigger \cup {None}]
    BY <1>6, <2>1, GotoType DEF RunNow, TypeOK, Step
  <2>3. trigger' \in [Trigger -> TriggerStatus]
    BY <1>1, <1>6 DEF RunNow, TypeOK, TriggerStatus
  <2>4. QED
    BY <1>6, <2>2, <2>3 DEF RunNow, jobVars, TypeOK, TriggerStatus, Step
<1>7. ASSUME NEW p \in Proc, NEW t \in Trigger, Recover(p, t) PROVE TypeOK'
  <2>1. pc' \in [Proc -> Step] /\ at' \in [Proc -> Trigger \cup {None}]
    BY <1>7, GotoType DEF Recover
  <2>2. QED
    BY <1>7, <2>1 DEF Recover, jobVars, TypeOK, Step
<1>8. QED
  BY <1>2, <1>3, <1>4, <1>5, <1>6, <1>7

\* The steps of a dispatch keep the types.
LEMMA DispatchType ==
    ASSUME TypeOK, Aimed, NEW p \in Proc, DispatchStep(p) \/ Crash(p)
    PROVE  TypeOK'
<1>1. \A step \in Step : Goto(p, step) =>
          pc' \in [Proc -> Step] /\ at' \in [Proc -> Trigger \cup {None}]
  BY GotoType
<1>2. CASE Dispatch(p)
  <2>1. pc' \in [Proc -> Step] /\ at' \in [Proc -> Trigger \cup {None}]
    BY <1>1, <1>2 DEF Dispatch, Step
  <2>2. faults' \in 0..MaxFaults
    BY <1>2, FaultType DEF Dispatch, TypeOK
  <2>3. trigger' \in [Trigger -> TriggerStatus]
    BY <1>2 DEF Dispatch, TypeOK, TriggerStatus
  <2>4. hidden' \in SUBSET Trigger
    BY <1>2 DEF Dispatch, TypeOK, Aimed
  <2>5. QED
    BY <1>2, <2>1, <2>2, <2>3, <2>4 DEF Dispatch, jobVars, TypeOK, TriggerStatus, Step
<1>3. CASE Intake(p)
  <2>1. pc' \in [Proc -> Step] /\ at' \in [Proc -> Trigger \cup {None}]
    BY <1>1, <1>3 DEF Intake, Step
  <2>2. faults' \in 0..MaxFaults
    BY <1>3, FaultType DEF Intake, TypeOK
  <2>3. request' \in [Trigger -> {"absent", "active", "ended"}]
    BY <1>3 DEF Intake, TypeOK
  <2>4. QED
    BY <1>3, <2>1, <2>2, <2>3 DEF Intake, jobVars, TypeOK, Step
<1>4. CASE Mark(p)
  <2>1. pc' \in [Proc -> Step] /\ at' \in [Proc -> Trigger \cup {None}]
    BY <1>1, <1>4 DEF Mark, Step
  <2>2. faults' \in 0..MaxFaults
    BY <1>4, FaultType DEF Mark, TypeOK
  <2>3. trigger' \in [Trigger -> TriggerStatus]
    BY <1>4 DEF Mark, TypeOK, TriggerStatus
  <2>4. QED
    BY <1>4, <2>1, <2>2, <2>3 DEF Mark, jobVars, TypeOK, TriggerStatus, Step
<1>5. CASE Settle(p)
  <2>1. pc' \in [Proc -> Step] /\ at' \in [Proc -> Trigger \cup {None}]
    BY <1>1, <1>5 DEF Settle, Step
  <2>2. trigger' \in [Trigger -> TriggerStatus]
    BY <1>5 DEF Settle, TypeOK, TriggerStatus
  <2>3. QED
    BY <1>5, <2>1, <2>2 DEF Settle, jobVars, TypeOK, TriggerStatus, Step
<1>6. CASE Crash(p)
  <2>1. pc' \in [Proc -> Step] /\ at' \in [Proc -> Trigger \cup {None}]
    BY <1>1, <1>6 DEF Crash, Step
  <2>2. QED
    BY <1>6, <2>1, FaultType DEF Crash, jobVars, TypeOK, Step
<1>7. QED
  BY <1>2, <1>3, <1>4, <1>5, <1>6 DEF DispatchStep

\* Every step keeps Aimed.
LEMMA AimedStep == TypeOK /\ Aimed /\ [Next]_vars => Aimed'
<1> SUFFICES ASSUME TypeOK, Aimed, [Next]_vars PROVE Aimed'
  OBVIOUS
<1>1. ASSUME NEW p \in Proc, NEW step, pc[p] # "idle", Goto(p, step) PROVE Aimed'
  BY <1>1 DEF Goto, Aimed, TypeOK
<1>2. ASSUME NEW p \in Proc, NEW t \in Trigger, Start(p, t) PROVE Aimed'
  BY <1>2 DEF Start, Aimed, TypeOK
<1>3. ASSUME UNCHANGED <<pc, at>> PROVE Aimed'
  BY <1>3 DEF Aimed
<1>4. ASSUME NEW p \in Proc, DispatchStep(p) \/ Crash(p) PROVE Aimed'
  BY <1>1, <1>4 DEF DispatchStep, Dispatch, Intake, Mark, Settle, Crash
<1>5. ASSUME NEW p \in Proc, ClaimDueRun(p) PROVE Aimed'
  BY <1>2, <1>3, <1>5, DueSlot DEF ClaimDueRun
<1>6. ASSUME NEW p \in Proc, NEW t \in Trigger, Recover(p, t) PROVE Aimed'
  BY <1>2, <1>6 DEF Recover
<1>7. ASSUME NEW p \in Proc, NEW m \in Manual, RunNow(p, m) PROVE Aimed'
  BY <1>2, <1>3, <1>7 DEF RunNow, Trigger
<1>8. CASE \/ \E on, changed \in BOOLEAN : UpdateJob(on, changed)
           \/ DeleteJob \/ DeleteAccount \/ Tick \/ UNCHANGED vars
           \/ \E t \in Trigger : RequestEnds(t)
  BY <1>3, <1>8 DEF UpdateJob, DeleteJob, DeleteAccount, Tick, RequestEnds, vars
<1>9. QED
  BY <1>4, <1>5, <1>6, <1>7, <1>8 DEF Next

\* Every step keeps the types.
LEMMA TypeStep == TypeOK /\ Aimed /\ [Next]_vars => TypeOK'
<1> SUFFICES ASSUME TypeOK, Aimed, [Next]_vars PROVE TypeOK'
  OBVIOUS
<1>1. ASSUME NEW t \in Trigger, RequestEnds(t) PROVE TypeOK'
  BY <1>1 DEF RequestEnds, jobVars, TypeOK
<1>2. CASE Tick
  BY <1>2, BoundsAreCounts DEF Tick, jobVars, TypeOK
<1>3. CASE UNCHANGED vars
  BY <1>3 DEF vars, TypeOK
<1>4. QED
  BY <1>1, <1>2, <1>3, JobType, DispatchType DEF Next

\* Every variable keeps its type; in particular a crash, a fault or a race between
\* dispatchers never writes a status outside the five of scheduled_agent_runs.
THEOREM ScheduleTypeCorrect == Spec => []TypeOK
BY InitType, TypeStep, AimedStep, PTL DEF Spec

-----------------------------------------------------------------------------
(* The row lock of a dispatch.                                             *)

\* Between the look at its trigger and the commit of the intake a dispatch holds
\* the row, so nobody else settles it (auxiliary).
LockHeld == \A p \in Proc : pc[p] = "intake" => trigger[at[p]] = "dispatching"

\* The plan is ahead of every occurrence that was ever recorded (auxiliary).
PlanAhead ==
    /\ floor <= clock /\ floor < next
    /\ \A s \in Slot : trigger[s] # "absent" \/ request[s] # "absent" => s <= clock /\ s < next

\* The occurrence of a due plan has neither a row nor a request yet.
LEMMA DueIsNew ==
    ASSUME TypeOK, PlanAhead, NEW p, ClaimDueRun(p)
    PROVE  trigger[next] = "absent" /\ request[next] = "absent"
BY DueSlot DEF PlanAhead, TypeOK

\* Every step keeps LockHeld.
LEMMA LockStep == TypeOK /\ Aimed /\ LockHeld /\ PlanAhead /\ [Next]_vars => LockHeld'
<1> SUFFICES ASSUME TypeOK, Aimed, LockHeld, PlanAhead, [Next]_vars PROVE LockHeld'
  OBVIOUS
<1>1. ASSUME NEW p \in Proc, NEW step, Goto(p, step), step # "intake",
             \/ UNCHANGED trigger
             \/ /\ ~Locked(at[p])
                /\ \A t \in Trigger \ {at[p]} : trigger'[t] = trigger[t]
      PROVE  LockHeld'
  BY <1>1 DEF Goto, Locked, LockHeld, Aimed, TypeOK
<1>2. ASSUME NEW p \in Proc, DispatchStep(p) \/ Crash(p) PROVE LockHeld'
  <2>1. CASE Dispatch(p) /\ Goto(p, "intake") /\ UNCHANGED trigger /\ trigger[at[p]] = "dispatching"
    BY <2>1 DEF Goto, LockHeld, Aimed, TypeOK
  <2>2. CASE Dispatch(p) /\ ~(Goto(p, "intake") /\ UNCHANGED trigger /\ trigger[at[p]] = "dispatching")
    BY <1>1, <2>2 DEF Dispatch, TypeOK
  <2>3. CASE Intake(p) \/ Crash(p)
    BY <1>1, <2>3 DEF Intake, Crash
  <2>4. CASE Mark(p)
    BY <1>1, <2>4 DEF Mark, TypeOK
  <2>5. CASE Settle(p)
    BY <1>1, <2>5 DEF Settle, TypeOK
  <2>6. QED
    BY <1>2, <2>1, <2>2, <2>3, <2>4, <2>5 DEF DispatchStep
<1>3. ASSUME NEW p \in Proc, NEW t \in Trigger, pc[p] = "idle",
             Start(p, t) \/ UNCHANGED <<pc, at>>,
             \A u \in Trigger : trigger[u] = "dispatching" => trigger'[u] = "dispatching"
      PROVE  LockHeld'
  BY <1>3 DEF Start, LockHeld, Aimed, TypeOK
<1>4. ASSUME NEW p \in Proc, ClaimDueRun(p) PROVE LockHeld'
  <2>1. CASE UNCHANGED <<next, trigger, pc, at, floor>>
    BY <2>1 DEF LockHeld
  <2>2. CASE /\ trigger' = [trigger EXCEPT ![next] = NewStatus]
             /\ IF NewStatus = "dispatching" THEN Start(p, next) ELSE UNCHANGED <<pc, at>>
    <3>1. next \in Trigger /\ pc[p] = "idle" /\ trigger[next] = "absent"
      BY <1>4, DueSlot, DueIsNew DEF ClaimDueRun
    <3>2. \A u \in Trigger : trigger[u] = "dispatching" => trigger'[u] = "dispatching"
      BY <2>2, <3>1 DEF TypeOK
    <3>3. QED
      BY <1>3, <2>2, <3>1, <3>2
  <2>3. QED
    BY <1>4, <2>1, <2>2 DEF ClaimDueRun
<1>5. ASSUME NEW p \in Proc, NEW m \in Manual, RunNow(p, m) PROVE LockHeld'
  <2>1. m \in Trigger
    BY DEF Trigger
  <2>2. \A u \in Trigger : trigger[u] = "dispatching" => trigger'[u] = "dispatching"
    BY <1>5, <2>1 DEF RunNow, TypeOK
  <2>3. QED
    BY <1>3, <1>5, <2>1, <2>2 DEF RunNow
<1>6. ASSUME NEW p \in Proc, NEW t \in Trigger, Recover(p, t) PROVE LockHeld'
  BY <1>3, <1>6 DEF Recover
<1>7. CASE DeleteAccount
  BY <1>7 DEF DeleteAccount, LockHeld
<1>8. CASE \/ \E on, changed \in BOOLEAN : UpdateJob(on, changed)
           \/ DeleteJob \/ Tick \/ UNCHANGED vars
           \/ \E t \in Trigger : RequestEnds(t)
  BY <1>8 DEF UpdateJob, DeleteJob, Tick, RequestEnds, vars, LockHeld
<1>9. QED
  BY <1>2, <1>4, <1>5, <1>6, <1>7, <1>8 DEF Next

-----------------------------------------------------------------------------
(* The plan: an occurrence that was ever recorded lies in the past.        *)

\* The first plan is ahead of the triggers.
LEMMA PlanInit == Init => PlanAhead
BY DEF Init, PlanAhead, Slot, Trigger

\* Only a claim records an occurrence; a row that exists or a request that exists
\* is all that a dispatch goes on with.
LEMMA RecordedBefore ==
    ASSUME TypeOK, Aimed, LockHeld, NEW p \in Proc, DispatchStep(p) \/ Crash(p)
    PROVE  /\ \A t \in Trigger : trigger[t] = "absent" =>
                  trigger'[t] = "absent" /\ request'[t] = request[t]
           /\ UNCHANGED <<jobVars, clock, floor>>
<1>1. CASE Dispatch(p) \/ Mark(p) \/ Settle(p) \/ Crash(p)
  BY <1>1 DEF Dispatch, Mark, Settle, Crash, jobVars, TypeOK, Aimed
<1>2. CASE Intake(p)
  BY <1>2 DEF Intake, jobVars, TypeOK, Aimed, LockHeld
<1>3. QED
  BY <1>1, <1>2 DEF DispatchStep

\* Every step keeps PlanAhead.
LEMMA PlanStep == TypeOK /\ Aimed /\ LockHeld /\ PlanAhead /\ [Next]_vars => PlanAhead'
<1> SUFFICES ASSUME TypeOK, Aimed, LockHeld, PlanAhead, [Next]_vars PROVE PlanAhead'
  OBVIOUS
<1>1. next \in Nat /\ clock \in Nat /\ floor \in Nat /\ Slot \subseteq Nat /\ Slot \subseteq Trigger
  BY BoundsAreCounts DEF TypeOK, Slot, Trigger
<1>2. ASSUME NEW on \in BOOLEAN, NEW changed \in BOOLEAN, UpdateJob(on, changed) PROVE PlanAhead'
  <2>1. \/ next' = next /\ floor' = floor
        \/ next' \in Nat /\ next' > clock /\ floor' \in {clock, floor}
    BY <1>2 DEF UpdateJob, NextRunAt
  <2>2. UNCHANGED <<trigger, request, clock>>
    BY <1>2 DEF UpdateJob
  <2>3. QED
    BY <1>1, <2>1, <2>2 DEF PlanAhead
<1>3. ASSUME NEW p \in Proc, ClaimDueRun(p) PROVE PlanAhead'
  <2>1. CASE UNCHANGED <<next, trigger, pc, at, floor>>
    BY <1>3, <2>1 DEF ClaimDueRun, PlanAhead
  <2>2. CASE /\ next' \in NextRunAt
             /\ trigger' = [trigger EXCEPT ![next] = NewStatus]
             /\ floor' = clock
    <3>1. next' \in Nat /\ next' > clock /\ next <= clock /\ UNCHANGED <<request, clock>>
      BY <1>3, <2>2 DEF ClaimDueRun, Due, NextRunAt
    <3>2. ASSUME NEW s \in Slot, trigger'[s] # "absent" \/ request'[s] # "absent"
          PROVE  s <= clock
      BY <1>1, <2>2, <3>1, <3>2 DEF PlanAhead, TypeOK
    <3>3. QED
      BY <1>1, <2>2, <3>1, <3>2 DEF PlanAhead
  <2>3. QED
    BY <1>3, <2>1, <2>2 DEF ClaimDueRun
<1>4. ASSUME NEW p \in Proc, NEW m \in Manual, RunNow(p, m) PROVE PlanAhead'
  <2>1. \A s \in Slot : trigger'[s] = trigger[s]
    BY <1>1, <1>4, ManualIsNoSlot DEF RunNow, TypeOK, Trigger
  <2>2. QED
    BY <1>4, <2>1 DEF RunNow, jobVars, PlanAhead
<1>5. ASSUME NEW p \in Proc, DispatchStep(p) \/ Crash(p) PROVE PlanAhead'
  BY <1>1, <1>5, RecordedBefore DEF PlanAhead, jobVars
<1>6. CASE Tick
  BY <1>1, <1>6 DEF Tick, jobVars, PlanAhead
<1>7. CASE DeleteAccount
  BY <1>1, <1>7 DEF DeleteAccount, PlanAhead
<1>8. ASSUME NEW t \in Trigger, RequestEnds(t) PROVE PlanAhead'
  BY <1>1, <1>8 DEF RequestEnds, jobVars, PlanAhead, TypeOK
<1>9. CASE \/ DeleteJob \/ UNCHANGED vars
           \/ \E p \in Proc, t \in Trigger : Recover(p, t)
  BY <1>9 DEF DeleteJob, Recover, vars, jobVars, PlanAhead
<1>10. QED
  BY <1>2, <1>3, <1>4, <1>5, <1>6, <1>7, <1>8, <1>9 DEF Next

\* Missed instants are merged and a pause is not made up for: whatever the order of
\* edits, claims, deletions and recoveries, an occurrence is created only for an
\* instant after the last claim and the last enabling.
THEOREM NoBackfillCorrect == Spec => NoBackfill
<1>1. Init => LockHeld
  BY DEF Init, LockHeld
<1>2. ASSUME TypeOK, Aimed, LockHeld, PlanAhead, [Next]_vars
      PROVE  [\A s \in Slot : trigger[s] = "absent" /\ trigger'[s] # "absent" => s > floor]_vars
  <2>1. SUFFICES ASSUME NEW s \in Slot, trigger[s] = "absent", trigger'[s] # "absent"
                 PROVE  s > floor
    OBVIOUS
  <2>2. s \in Trigger /\ s \notin Manual
    BY ManualIsNoSlot DEF Trigger
  <2>3. ASSUME NEW p \in Proc, ClaimDueRun(p) PROVE s > floor
    <3>1. s = next
      BY <1>2, <2>1, <2>2, <2>3 DEF ClaimDueRun, TypeOK
    <3>2. QED
      BY <1>2, <3>1 DEF PlanAhead, TypeOK
  <2>4. ASSUME NEW p \in Proc, NEW m \in Manual, RunNow(p, m) PROVE s > floor
    BY <1>2, <2>1, <2>2, <2>4 DEF RunNow, TypeOK
  <2>5. ASSUME NEW p \in Proc, DispatchStep(p) \/ Crash(p) PROVE s > floor
    BY <1>2, <2>1, <2>2, <2>5, RecordedBefore
  <2>6. CASE DeleteAccount
    BY <2>1, <2>2, <2>6 DEF DeleteAccount
  <2>7. CASE \/ \E on, changed \in BOOLEAN : UpdateJob(on, changed)
             \/ DeleteJob \/ Tick \/ UNCHANGED vars
             \/ \E t \in Trigger : RequestEnds(t)
             \/ \E p \in Proc, t \in Trigger : Recover(p, t)
    BY <2>1, <2>7 DEF UpdateJob, DeleteJob, Tick, RequestEnds, Recover, vars
  <2>8. QED
    BY <1>2, <2>3, <2>4, <2>5, <2>6, <2>7 DEF Next
<1>3. QED
  BY <1>1, <1>2, InitType, TypeStep, AimedStep, PlanInit, LockStep, PlanStep, PTL
  DEF Spec, NoBackfill

-----------------------------------------------------------------------------
(* The books: what the rows say of the requests.                           *)

\* The parts of the inductive invariant.  A dispatch marks only what has a request;
\* while the account exists a request has its trigger row; and a trigger is
\* cancelled beside its request only if that is on record in hidden.
Marked    == \A p \in Proc : pc[p] = "mark" => request[at[p]] # "absent"
Recorded  == account => \A t \in Trigger : request[t] # "absent" => trigger[t] # "absent"
\* A cancelled trigger that is not hidden sent nothing.
Cancelled == \A t \in Trigger \ hidden : trigger[t] = "cancelled" => request[t] = "absent"

\* What the rows of the triggers say, together.
Books == Marked /\ Recorded /\ Cancelled /\ TriggerTellsTruth /\ OneLiveTrigger

\* Inv is inductive.
Inv == TypeOK /\ Aimed /\ LockHeld /\ PlanAhead /\ Books

\* The books hold at first.
LEMMA BooksInit == Init => Books
BY DEF Init, Books, Marked, Recorded, Cancelled, TriggerTellsTruth, OneLiveTrigger, Live

\* A trigger that HasActiveRun does not see, and that is not hidden, is not live.
LEMMA ActiveIsSeen ==
    ASSUME TypeOK, Books, account, ~HasActiveRun, NEW t \in Trigger \ hidden
    PROVE  ~Live(t)
BY DEF TypeOK, Books, Recorded, Cancelled, TriggerTellsTruth, HasActiveRun, Live

\* A new row keeps the books: it is skipped beside a live trigger.
LEMMA NewRowBooks ==
    ASSUME Inv, account, NEW t \in Trigger, trigger[t] = "absent", request[t] = "absent",
           NEW p \in Proc, pc[p] = "idle", Start(p, t) \/ UNCHANGED <<pc, at>>,
           trigger' = [trigger EXCEPT ![t] = NewStatus], UNCHANGED <<account, request, hidden>>
    PROVE  Books'
<1>1. \A u \in Trigger : trigger'[u] = IF u = t THEN NewStatus ELSE trigger[u]
  BY DEF Inv, TypeOK
<1>2. Marked'
  BY DEF Start, Inv, Books, Marked, TypeOK, Aimed
<1>3. Recorded' /\ Cancelled' /\ TriggerTellsTruth'
  BY <1>1 DEF Inv, Books, Recorded, Cancelled, TriggerTellsTruth, NewStatus
<1>4. OneLiveTrigger'
  <2>1. CASE HasActiveRun
    BY <1>1, <2>1 DEF Inv, Books, OneLiveTrigger, Live, NewStatus
  <2>2. CASE ~HasActiveRun
    <3>1. \A u \in Trigger \ hidden : ~Live(u)
      BY <2>2, ActiveIsSeen DEF Inv
    <3>2. \A u \in Trigger \ hidden : Live(u)' => u = t
      BY <1>1, <3>1 DEF Live
    <3>3. QED
      BY <3>2 DEF OneLiveTrigger
  <2>3. QED
    BY <2>1, <2>2
<1>5. QED
  BY <1>2, <1>3, <1>4 DEF Books

\* A step of a dispatch keeps the books: it changes its own trigger only.
LEMMA DispatchBooks ==
    ASSUME Inv, NEW p \in Proc, DispatchStep(p) \/ Crash(p)
    PROVE  Books'
<1> DEFINE t == at[p]
<1>1. t \in Trigger /\ pc[p] # "idle"
  BY DEF DispatchStep, Dispatch, Intake, Mark, Settle, Crash, Inv, Aimed
<1>2. ASSUME NEW step, Goto(p, step), step # "mark", UNCHANGED request PROVE Marked'
  BY <1>2 DEF Goto, Inv, Books, Marked, TypeOK, Aimed
<1>3. ASSUME UNCHANGED <<account, trigger, request, hidden>>
      PROVE  Recorded' /\ Cancelled' /\ TriggerTellsTruth' /\ OneLiveTrigger'
  BY <1>3 DEF Inv, Books, Recorded, Cancelled, TriggerTellsTruth, OneLiveTrigger, Live
<1>4. ASSUME NEW st, trigger' = [trigger EXCEPT ![t] = st], trigger[t] # "absent",
             UNCHANGED <<account, request>>, hidden \subseteq hidden',
             \/ st = "submitted" /\ request[t] # "absent"
             \/ st = "failed" /\ request[t] = "absent"
             \/ st = "cancelled" /\ (request[t] = "absent" \/ t \in hidden')
      PROVE  Recorded' /\ Cancelled' /\ TriggerTellsTruth' /\ OneLiveTrigger'
  <2>1. \A u \in Trigger : trigger'[u] = IF u = t THEN st ELSE trigger[u]
    BY <1>4 DEF Inv, TypeOK
  <2>2. \A u \in Trigger : Live(u)' => Live(u)
    BY <1>4, <2>1 DEF Live
  <2>3. OneLiveTrigger'
    BY <1>4, <2>2 DEF Inv, Books, OneLiveTrigger
  <2>4. Recorded' /\ Cancelled' /\ TriggerTellsTruth'
    BY <1>1, <1>4, <2>1 DEF Inv, Books, Recorded, Cancelled, TriggerTellsTruth
  <2>5. QED
    BY <2>3, <2>4
<1>5. CASE Dispatch(p)
  <2>1. Marked'
    BY <1>2, <1>5 DEF Dispatch
  <2>2. CASE UNCHANGED <<trigger, hidden>>
    BY <1>3, <1>5, <2>1, <2>2 DEF Dispatch, jobVars, Books
  <2>3. CASE /\ trigger[t] = "dispatching"
             /\ trigger' = [trigger EXCEPT ![t] = "cancelled"]
             /\ hidden' = IF request[t] # "absent" THEN hidden \cup {t} ELSE hidden
    BY <1>4, <1>5, <2>1, <2>3 DEF Dispatch, jobVars, Books
  <2>4. QED
    BY <1>5, <2>2, <2>3 DEF Dispatch
<1>6. CASE Intake(p)
  <2>1. trigger[t] = "dispatching" /\ UNCHANGED <<account, trigger, hidden>>
    BY <1>6 DEF Intake, jobVars, Inv, LockHeld
  <2>2. CASE UNCHANGED request /\ \E step \in {"refused", "error"} : Goto(p, step)
    BY <1>2, <1>3, <2>1, <2>2 DEF Books
  <2>3. CASE request' = [request EXCEPT ![t] = IF @ = "absent" THEN "active" ELSE @]
    <3>1. request'[t] # "absent" /\ \A u \in Trigger \ {t} : request'[u] = request[u]
      BY <1>1, <2>3 DEF Inv, TypeOK
    <3>2. Marked'
      BY <1>1, <1>6, <3>1 DEF Intake, Goto, Inv, Books, Marked, TypeOK, Aimed
    <3>3. Recorded' /\ Cancelled' /\ TriggerTellsTruth'
      BY <1>1, <2>1, <3>1 DEF Inv, Books, Recorded, Cancelled, TriggerTellsTruth
    <3>4. \A u \in Trigger : Live(u)' => Live(u)
      BY <1>1, <2>1, <3>1 DEF Live
    <3>5. OneLiveTrigger'
      BY <2>1, <3>4 DEF Inv, Books, OneLiveTrigger
    <3>6. QED
      BY <3>2, <3>3, <3>5 DEF Books
  <2>4. QED
    BY <1>6, <2>2, <2>3 DEF Intake
<1>7. CASE Mark(p)
  <2>1. Marked' /\ request[t] # "absent" /\ UNCHANGED <<account, request, hidden>>
    BY <1>1, <1>2, <1>7 DEF Mark, jobVars, Inv, Books, Marked
  <2>2. CASE trigger[t] # "absent" /\ trigger' = [trigger EXCEPT ![t] = "submitted"]
    BY <1>4, <2>1, <2>2 DEF Books
  <2>3. CASE UNCHANGED trigger
    BY <1>3, <2>1, <2>3 DEF Books
  <2>4. QED
    BY <1>7, <2>2, <2>3 DEF Mark
<1>8. CASE Settle(p)
  <2>1. Marked' /\ UNCHANGED <<account, request, hidden>>
    BY <1>2, <1>8 DEF Settle, jobVars
  <2>2. CASE UNCHANGED trigger
    BY <1>3, <2>1, <2>2 DEF Books
  <2>3. CASE /\ trigger[t] = "dispatching" /\ request[t] # "absent"
             /\ trigger' = [trigger EXCEPT ![t] = "submitted"]
    BY <1>4, <2>1, <2>3 DEF Books
  <2>4. CASE /\ trigger[t] = "dispatching" /\ request[t] = "absent"
             /\ trigger' = [trigger EXCEPT ![t] = "failed"]
    BY <1>4, <2>1, <2>4 DEF Books
  <2>5. QED
    BY <1>8, <2>2, <2>3, <2>4 DEF Settle
<1>9. CASE Crash(p)
  BY <1>2, <1>3, <1>9 DEF Crash, jobVars, Books
<1>10. QED
  BY <1>5, <1>6, <1>7, <1>8, <1>9 DEF DispatchStep

\* Every step keeps the books.
LEMMA BooksStep == Inv /\ [Next]_vars => Books'
<1> SUFFICES ASSUME Inv, [Next]_vars PROVE Books'
  OBVIOUS
<1>1. ASSUME NEW p \in Proc, ClaimDueRun(p) PROVE Books'
  <2>1. CASE UNCHANGED <<next, trigger, pc, at, floor>>
    BY <1>1, <2>1 DEF ClaimDueRun, Inv, Books, Marked, Recorded, Cancelled, TriggerTellsTruth,
                      OneLiveTrigger, Live
  <2>2. CASE /\ trigger' = [trigger EXCEPT ![next] = NewStatus]
             /\ IF NewStatus = "dispatching" THEN Start(p, next) ELSE UNCHANGED <<pc, at>>
    <3>1. next \in Trigger /\ trigger[next] = "absent" /\ request[next] = "absent"
      BY <1>1, DueSlot, DueIsNew DEF Inv
    <3>2. pc[p] = "idle" /\ account /\ UNCHANGED <<account, request, hidden>>
      BY <1>1 DEF ClaimDueRun, Due
    <3>3. QED
      BY <2>2, <3>1, <3>2, NewRowBooks
  <2>3. QED
    BY <1>1, <2>1, <2>2 DEF ClaimDueRun
<1>2. ASSUME NEW p \in Proc, NEW t \in Trigger, pc[p] = "idle", Start(p, t),
             UNCHANGED <<account, trigger, request, hidden>>
      PROVE  Books'
  BY <1>2 DEF Start, Inv, Books, Marked, Recorded, Cancelled, TriggerTellsTruth, OneLiveTrigger,
              Live, TypeOK
<1>3. ASSUME NEW p \in Proc, NEW m \in Manual, RunNow(p, m) PROVE Books'
  <2>1. m \in Trigger /\ pc[p] = "idle" /\ account /\ UNCHANGED <<account, request, hidden>>
    BY <1>3 DEF RunNow, jobVars, Trigger
  <2>2. CASE trigger[m] = "absent"
    <3>1. request[m] = "absent"
      BY <2>1, <2>2 DEF Inv, Books, Recorded
    <3>2. QED
      BY <1>3, <2>1, <2>2, <3>1, NewRowBooks DEF RunNow
  <2>3. CASE trigger[m] # "absent"
    BY <1>2, <1>3, <2>1, <2>3 DEF RunNow
  <2>4. QED
    BY <2>2, <2>3
<1>4. ASSUME NEW p \in Proc, NEW t \in Trigger, Recover(p, t) PROVE Books'
  BY <1>2, <1>4 DEF Recover, jobVars
<1>5. ASSUME NEW p \in Proc, DispatchStep(p) \/ Crash(p) PROVE Books'
  BY <1>5, DispatchBooks
<1>6. CASE DeleteAccount
  BY <1>6 DEF DeleteAccount, Inv, Books, Marked, Recorded, Cancelled, TriggerTellsTruth,
              OneLiveTrigger
<1>7. ASSUME NEW t \in Trigger, RequestEnds(t) PROVE Books'
  <2>1. \A u \in Trigger : (request'[u] = "absent") <=> (request[u] = "absent")
    BY <1>7 DEF RequestEnds, Inv, TypeOK
  <2>2. \A u \in Trigger : Live(u)' => Live(u)
    BY <1>7 DEF RequestEnds, Live, Inv, TypeOK
  <2>3. Marked'
    BY <1>7, <2>1 DEF RequestEnds, Inv, Books, Marked, Aimed
  <2>4. QED
    BY <1>7, <2>1, <2>2, <2>3 DEF RequestEnds, jobVars, Inv, Books, Recorded, Cancelled,
                                  TriggerTellsTruth, OneLiveTrigger
<1>8. CASE \/ \E on, changed \in BOOLEAN : UpdateJob(on, changed)
           \/ DeleteJob \/ Tick \/ UNCHANGED vars
  BY <1>8 DEF UpdateJob, DeleteJob, Tick, vars, jobVars, Inv, Books, Marked, Recorded, Cancelled,
              TriggerTellsTruth, OneLiveTrigger, Live
<1>9. QED
  BY <1>1, <1>3, <1>4, <1>5, <1>6, <1>7, <1>8 DEF Next

\* Inv holds in every reachable state.
LEMMA InvCorrect == Spec => []Inv
<1>1. Init => Inv
  BY InitType, PlanInit, BooksInit DEF Init, Inv, LockHeld
<1>2. Inv /\ [Next]_vars => Inv'
  BY TypeStep, AimedStep, LockStep, PlanStep, BooksStep DEF Inv
<1>3. QED
  BY <1>1, <1>2, PTL DEF Spec

\* What a trigger row says of the submission is true, whichever of several dispatches
\* of the same trigger wrote it last and wherever they crashed.
THEOREM TriggerTellsTruthCorrect == Spec => []TriggerTellsTruth
<1>1. Inv => TriggerTellsTruth
  BY DEF Inv, Books
<1>2. QED
  BY <1>1, InvCorrect, PTL

\* Triggers of a job do not overlap, but for those a recovery cancelled after their
\* request was written.
THEOREM OneLiveTriggerCorrect == Spec => []OneLiveTrigger
<1>1. Inv => OneLiveTrigger
  BY DEF Inv, Books
<1>2. QED
  BY <1>1, InvCorrect, PTL
=============================================================================
