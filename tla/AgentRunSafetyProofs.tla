------------------------ MODULE AgentRunSafetyProofs ------------------------
(* The safety properties of AgentRun, proved in layers: each invariant is   *)
(* inductive relative to the ones before it.                                *)
EXTENDS AgentRunProofs

USE DEF Terminal, Leased, Active

\* Only an idle invocation has no job, and none has a runtime before its claim.
LEMMA ShapeStep == TypeOK /\ InvocationShape /\ [Next]_vars => InvocationShape'
<1> SUFFICES ASSUME TypeOK, InvocationShape, [Next]_vars PROVE InvocationShape'
  OBVIOUS
<1>1. ASSUME NEW t \in Token, NEW label \in PC \ {"idle"}, pc[t] # "idle", Goto(t, label),
             UNCHANGED <<job, sandbox>>,
             label \in {"claim", "prepare", "cleanup"} => sandbox[t] = "none"
      PROVE  InvocationShape'
  BY <1>1 DEF TypeOK, InvocationShape, Goto
<1>2. ASSUME UNCHANGED <<pc, job, sandbox>> PROVE InvocationShape'
  BY <1>2 DEF InvocationShape
<1>3. ASSUME NEW t \in Token, NEW from \in PC, NEW ok \in PC \ {"idle", "prepare", "cleanup"},
             NEW error \in PC \ {"idle", "claim", "prepare", "cleanup"},
             pc[t] = from, from # "idle", ok = "claim" => from = "cleanup",
             RequireCleanup(t, ok, error)
      PROVE  InvocationShape'
  BY <1>3 DEF RequireCleanup, ReleaseRuntime, KeepRuntime, TypeOK, InvocationShape, Goto
<1>4. ASSUME NEW t \in Token, Invocation(t) PROVE InvocationShape'
  <2>1. CASE CleanupBeforeClaim(t) \/ Settle(t) \/ CleanTerminal(t)
    BY <1>3, <2>1 DEF CleanupBeforeClaim, Settle, CleanTerminal, PC
  <2>2. CASE Claim(t)
    BY <2>2 DEF Claim, Goto, InvocationShape, TypeOK
  <2>3. CASE Prepare(t) \/ ConfirmCancel(t)
             \/ \E label \in {"cancelled", "retry", "failing"} : Raise(t, label)
    BY <1>1, <2>3 DEF Prepare, ConfirmCancel, Raise, PC, InvocationShape
  <2>4. CASE UseRuntime(t)
    BY <2>4 DEF UseRuntime, InvocationShape, TypeOK
  <2>5. CASE SavePartialOutput(t) \/ \E running \in BOOLEAN : WriteAudit(t, running)
    BY <1>2, <2>5 DEF SavePartialOutput, WriteAudit
  <2>6. ASSUME NEW st, NEW bound, SaveAndEnd(t, st, bound) PROVE InvocationShape'
    BY <1>1, <2>6 DEF SaveAndEnd, PC
  <2>7. ASSUME NEW st, EndStream(t, st) PROVE InvocationShape'
    BY <1>1, <2>7 DEF EndStream, MarkTerminal, PC
  <2>8. CASE FinishUserCancel(t) \/ Fail(t)
    BY <1>1, <2>8 DEF FinishUserCancel, Fail, MarkTerminal, PC
  <2>9. CASE ReleaseForRetry(t)
    BY <2>9 DEF ReleaseForRetry, Goto, InvocationShape, TypeOK
  <2>10. CASE Finally(t) \/ RecloseTree(t)
    BY <1>1, <2>10 DEF Finally, RecloseTree, FinishChildren, PC
  <2>11. QED
    BY <1>4, <2>1, <2>2, <2>3, <2>4, <2>5, <2>6, <2>7, <2>8, <2>9, <2>10 DEF Invocation
<1>5. ASSUME NEW t \in Token, NEW r \in Run, Deliver(t, r) PROVE InvocationShape'
  BY <1>5, NoneIsNoValue DEF Deliver, Goto, InvocationShape, TypeOK
<1>6. ASSUME NEW t \in Token, LoseLease(t) \/ Crash(t) PROVE InvocationShape'
  BY <1>1, <1>6 DEF LoseLease, Crash, PC
<1>7. ASSUME NEW r, ReconcileCleanup(r) PROVE InvocationShape'
  BY <1>7 DEF ReconcileCleanup, ReleaseRuntime, InvocationShape, TypeOK
<1>8. CASE \/ \E r \in Chat : CreateChat(r)
           \/ \E r \in Resume : CreateResume(r)
           \/ \E t \in Token, c \in Sub : StartSubagent(t, c)
           \/ \E r \in Run : RequestCancel(r)
           \/ \E t \in Token : Heartbeat(t)
           \/ Tick \/ StorageMigration
           \/ \E S \in SUBSET Run : ReconcileLeases(S)
           \/ UNCHANGED vars
  BY <1>2, <1>8 DEF CreateChat, CreateResume, StartSubagent, CreateRow, RequestCancel, Heartbeat,
                    Tick, StorageMigration, ReconcileLeases, vars
<1>9. QED
  BY <1>4, <1>5, <1>6, <1>7, <1>8 DEF Next

-----------------------------------------------------------------------------
(* Attempts and owners.                                                    *)

\* Stopping rows of a tree takes no row from its owner, and makes no row
\* "running".
LEMMA CloseTreeKeepsOwners ==
    ASSUME TypeOK, AttemptMatchesOwner, NEW st \in [Run -> Status], NEW r, NEW c \in Run
    PROVE  /\ CloseTree(st, r)[c] = "running" => st[c] = "running"
           /\ worker[c] # None /\ st[c] \in Leased => CloseTree(st, r)[c] \in Leased
<1>1. CloseTree(st, r)[c] = IF c \in Descendants(r) THEN Stopped(c) ELSE st[c]
  BY CloseTreeEffect
<1>2. Stopped(c) # "running" /\ (worker[c] # None => Stopped(c) \in Leased)
  <2>1. CASE NeverStarted(c)
    BY <2>1 DEF Stopped, NeverStarted
  <2>2. CASE ~NeverStarted(c)
    BY <2>2 DEF Stopped
  <2>3. QED
    BY <2>1, <2>2
<1>3. QED
  BY <1>1, <1>2

\* The end of a run keeps attempts and owners in step.
LEMMA SetTerminalOwner ==
    ASSUME TypeOK, InvocationShape, AttemptMatchesOwner, NEW t \in Token, NEW st \in Terminal,
           SetTerminal(job[t], t, st), worker[job[t]] = t, job[t] \in Run,
           UNCHANGED <<started, job>>
    PROVE  AttemptMatchesOwner'
<1>1. [status EXCEPT ![job[t]] = st] \in [Run -> Status]
  BY DEF TypeOK, Status
<1>2. \A u \in Token : outcome'[u] = "open" <=> (job'[u] # None /\ worker'[job'[u]] = u)
  <2>1. outcome' = [outcome EXCEPT ![t] = st] /\ worker' = [worker EXCEPT ![job[t]] = None]
    BY DEF SetTerminal
  <2>2. TAKE u \in Token
  <2>3. CASE u = t
    BY <2>1, <2>3, NoneIsNoValue DEF TypeOK
  <2>4. CASE u # t /\ job[u] = job[t]
    BY <2>1, <2>4, NoneIsNoValue DEF TypeOK, AttemptMatchesOwner
  <2>5. CASE u # t /\ job[u] # job[t]
    BY <2>1, <2>5 DEF TypeOK, AttemptMatchesOwner
  <2>6. QED
    BY <2>3, <2>4, <2>5
<1>3. ASSUME NEW c \in Run
      PROVE  /\ worker'[c] # None => job'[worker'[c]] = c /\ started'[c] /\ status'[c] \in Leased
             /\ status'[c] = "running" => worker'[c] # None
             /\ lease'[c] > 0 => worker'[c] # None
  <2>1. /\ status'[c] = "running" => [status EXCEPT ![job[t]] = st][c] = "running"
        /\ worker[c] # None /\ [status EXCEPT ![job[t]] = st][c] \in Leased => status'[c] \in Leased
    BY <1>1, CloseTreeKeepsOwners DEF SetTerminal
  <2>2. worker' = [worker EXCEPT ![job[t]] = None] /\ lease' = [lease EXCEPT ![job[t]] = 0]
    BY DEF SetTerminal
  <2>3. CASE c = job[t]
    BY <2>1, <2>2, <2>3 DEF TypeOK
  <2>4. CASE c # job[t]
    BY <2>1, <2>2, <2>4 DEF TypeOK, AttemptMatchesOwner
  <2>5. QED
    BY <2>3, <2>4
<1>4. QED
  BY <1>2, <1>3 DEF AttemptMatchesOwner

\* A step that leaves owners and attempts alone and only rewrites statuses.
LEMMA StatusOwner ==
    ASSUME TypeOK, AttemptMatchesOwner, UNCHANGED <<worker, lease, started, outcome, job>>,
           \A c \in Run : /\ status'[c] = "running" => status[c] = "running"
                          /\ worker[c] # None => status'[c] \in Leased
    PROVE  AttemptMatchesOwner'
BY DEF AttemptMatchesOwner

\* The retry release gives up the owner and the attempt together.
LEMMA ReleaseOwner ==
    ASSUME TypeOK, InvocationShape, AttemptMatchesOwner, NEW t \in Token, ReleaseForRetry(t)
    PROVE  AttemptMatchesOwner'
<1>1. job[t] \in Run
  BY DEF ReleaseForRetry, InvocationShape, TypeOK
<1>2. CASE ~IsLeaseOwner(job[t], t)
  BY <1>2 DEF ReleaseForRetry, AttemptMatchesOwner
<1>3. CASE IsLeaseOwner(job[t], t)
  <2>1. /\ status' = CloseTree([status EXCEPT ![job[t]] = "pending"], job[t])
        /\ worker' = [worker EXCEPT ![job[t]] = None]
        /\ lease'  = [lease EXCEPT ![job[t]] = 0]
        /\ outcome' = [outcome EXCEPT ![t] = "retry_released"]
        /\ UNCHANGED <<started, job>>
        /\ worker[job[t]] = t
    BY <1>3 DEF ReleaseForRetry, IsLeaseOwner, OwnsLive
  <2>2. [status EXCEPT ![job[t]] = "pending"] \in [Run -> Status]
    BY DEF TypeOK, Status
  <2>3. ASSUME NEW u \in Token
        PROVE  outcome'[u] = "open" <=> (job'[u] # None /\ worker'[job'[u]] = u)
    <3>1. CASE u = t
      BY <1>1, <2>1, <3>1, NoneIsNoValue DEF TypeOK
    <3>2. CASE u # t /\ job[u] = job[t]
      BY <1>1, <2>1, <3>2, NoneIsNoValue DEF TypeOK, AttemptMatchesOwner
    <3>3. CASE u # t /\ job[u] # job[t]
      BY <1>1, <2>1, <3>3 DEF TypeOK, AttemptMatchesOwner
    <3>4. QED
      BY <3>1, <3>2, <3>3
  <2>4. ASSUME NEW c \in Run
        PROVE  /\ worker'[c] # None => job'[worker'[c]] = c /\ started'[c] /\ status'[c] \in Leased
               /\ status'[c] = "running" => worker'[c] # None
               /\ lease'[c] > 0 => worker'[c] # None
    <3>1. /\ status'[c] = "running" => [status EXCEPT ![job[t]] = "pending"][c] = "running"
          /\ worker[c] # None /\ [status EXCEPT ![job[t]] = "pending"][c] \in Leased
                => status'[c] \in Leased
      BY <2>1, <2>2, CloseTreeKeepsOwners
    <3>2. CASE c = job[t]
      BY <2>1, <3>1, <3>2 DEF TypeOK
    <3>3. CASE c # job[t]
      BY <2>1, <3>1, <3>3 DEF TypeOK, AttemptMatchesOwner
    <3>4. QED
      BY <3>2, <3>3
  <2>5. QED
    BY <2>3, <2>4 DEF AttemptMatchesOwner
<1>4. QED
  BY <1>2, <1>3

\* The claim closes every other open attempt of the run before it opens its own.
LEMMA ClaimOwner ==
    ASSUME TypeOK, InvocationShape, AttemptMatchesOwner, NEW t \in Token, Claim(t)
    PROVE  AttemptMatchesOwner'
<1>1. job[t] \in Run /\ t # None
  BY NoneIsNoValue DEF Claim, InvocationShape, TypeOK
<1>2. CASE ~MayClaim(job[t], t)
  BY <1>2 DEF Claim, AttemptMatchesOwner
<1>3. CASE MayClaim(job[t], t)
  <2>1. /\ status'  = [status EXCEPT ![job[t]] = IF @ = "pending" THEN "running" ELSE @]
        /\ worker'  = [worker EXCEPT ![job[t]] = t]
        /\ lease'   = [lease EXCEPT ![job[t]] = LeaseTicks]
        /\ started' = [started EXCEPT ![job[t]] = TRUE]
        /\ outcome' = [FinishAttempts(job[t], "lease_expired") EXCEPT ![t] = "open"]
        /\ UNCHANGED job
        /\ status[job[t]] \in Active
    BY <1>3 DEF Claim, MayClaim
  <2>2. ASSUME NEW u \in Token
        PROVE  outcome'[u] = "open" <=> (job'[u] # None /\ worker'[job'[u]] = u)
    <3>1. CASE u = t
      BY <1>1, <2>1, <3>1, NoneIsNoValue DEF TypeOK, FinishAttempts
    <3>2. CASE u # t /\ job[u] = job[t]
      BY <1>1, <2>1, <3>2 DEF TypeOK, FinishAttempts
    <3>3. CASE u # t /\ job[u] # job[t]
      BY <1>1, <2>1, <3>3 DEF TypeOK, AttemptMatchesOwner, FinishAttempts
    <3>4. QED
      BY <3>1, <3>2, <3>3
  <2>3. ASSUME NEW c \in Run
        PROVE  /\ worker'[c] # None => job'[worker'[c]] = c /\ started'[c] /\ status'[c] \in Leased
               /\ status'[c] = "running" => worker'[c] # None
               /\ lease'[c] > 0 => worker'[c] # None
    <3>1. CASE c = job[t]
      BY <1>1, <2>1, <3>1 DEF TypeOK
    <3>2. CASE c # job[t]
      BY <2>1, <3>2 DEF TypeOK, AttemptMatchesOwner
    <3>3. QED
      BY <3>1, <3>2
  <2>4. QED
    BY <2>2, <2>3 DEF AttemptMatchesOwner
<1>4. QED
  BY <1>2, <1>3

\* The reconciler and the storage migration finish the attempts they take the
\* runs from.
LEMMA ReconcileOwner ==
    ASSUME TypeOK, AttemptMatchesOwner, NEW S \in SUBSET Run, NEW out \in Outcome \ {"open"},
           NEW below,
           status'  = [r \in Run |-> IF r \in S THEN "failed"
                                    ELSE IF r \in below THEN Stopped(r) ELSE status[r]],
           worker'  = [r \in Run |-> IF r \in S THEN None ELSE worker[r]],
           lease'   = [r \in Run |-> IF r \in S THEN 0 ELSE lease[r]],
           outcome' = [t \in Token |-> IF job[t] \in S /\ outcome[t] = "open"
                                      THEN out ELSE outcome[t]],
           UNCHANGED <<started, job>>
    PROVE  AttemptMatchesOwner'
<1>1. ASSUME NEW u \in Token
      PROVE  outcome'[u] = "open" <=> (job'[u] # None /\ worker'[job'[u]] = u)
  <2>1. CASE job[u] \in S
    BY <2>1, NoneIsNoValue DEF AttemptMatchesOwner, TypeOK
  <2>2. CASE job[u] \notin S
    BY <2>2 DEF AttemptMatchesOwner, TypeOK
  <2>3. QED
    BY <2>1, <2>2
<1>2. ASSUME NEW c \in Run
      PROVE  /\ worker'[c] # None => job'[worker'[c]] = c /\ started'[c] /\ status'[c] \in Leased
             /\ status'[c] = "running" => worker'[c] # None
             /\ lease'[c] > 0 => worker'[c] # None
  <2>1. Stopped(c) # "running" /\ (worker[c] # None => Stopped(c) \in Leased)
    BY DEF Stopped, NeverStarted
  <2>2. CASE c \in S
    BY <2>2
  <2>3. CASE c \notin S
    BY <2>1, <2>3 DEF AttemptMatchesOwner
  <2>4. QED
    BY <2>2, <2>3
<1>3. QED
  BY <1>1, <1>2 DEF AttemptMatchesOwner

\* Every step keeps attempts and owners in step.
LEMMA OwnerStep ==
    TypeOK /\ InvocationShape /\ AttemptMatchesOwner /\ [Next]_vars => AttemptMatchesOwner'
<1> SUFFICES ASSUME TypeOK, InvocationShape, AttemptMatchesOwner, [Next]_vars
             PROVE  AttemptMatchesOwner'
  OBVIOUS
<1>1. ASSUME UNCHANGED <<status, worker, lease, started, outcome, job>>
      PROVE  AttemptMatchesOwner'
  BY <1>1 DEF AttemptMatchesOwner
<1>2. ASSUME NEW t \in Token, NEW st \in Terminal, MarkTerminal(t, st), pc[t] # "idle"
      PROVE  AttemptMatchesOwner'
  <2>1. job[t] \in Run
    BY <1>2 DEF InvocationShape, TypeOK
  <2>2. CASE MaySetTerminal(job[t], t, st)
    BY <1>2, <2>1, <2>2, SetTerminalOwner DEF MarkTerminal, MaySetTerminal, OwnsLive
  <2>3. CASE ~MaySetTerminal(job[t], t, st)
    BY <1>1, <1>2, <2>3 DEF MarkTerminal
  <2>4. QED
    BY <2>2, <2>3
<1>3. ASSUME NEW t \in Token, NEW st \in {"completed", "interrupted"}, NEW bound \in BOOLEAN,
             SaveAndEnd(t, st, bound)
      PROVE  AttemptMatchesOwner'
  <2>1. job[t] \in Run
    BY <1>3 DEF SaveAndEnd, InvocationShape, TypeOK
  <2>2. CASE /\ IsLeaseOwner(job[t], t)
             /\ SetTerminal(job[t], t, st)
    BY <1>3, <2>1, <2>2, SetTerminalOwner DEF SaveAndEnd, IsLeaseOwner, OwnsLive
  <2>3. CASE UNCHANGED <<status, worker, lease, cleanup, output, audit, outcome>>
    BY <1>1, <1>3, <2>3 DEF SaveAndEnd
  <2>4. QED
    BY <1>3, <2>2, <2>3 DEF SaveAndEnd
<1>4. ASSUME NEW t \in Token, NEW from, NEW to, FinishChildren(t, from, to)
      PROVE  AttemptMatchesOwner'
  <2>1. status \in [Run -> Status]
    BY DEF TypeOK, Status
  <2>2. ASSUME NEW c \in Run
        PROVE  /\ status'[c] = "running" => status[c] = "running"
               /\ worker[c] # None => status'[c] \in Leased
    BY <1>4, <2>1, CloseTreeKeepsOwners DEF FinishChildren, AttemptMatchesOwner
  <2>3. QED
    BY <1>4, <2>2, StatusOwner DEF FinishChildren
<1>5. ASSUME NEW t \in Token, Invocation(t) PROVE AttemptMatchesOwner'
  <2>1. CASE \/ CleanupBeforeClaim(t) \/ Settle(t) \/ CleanTerminal(t)
             \/ Prepare(t) \/ ConfirmCancel(t) \/ UseRuntime(t) \/ SavePartialOutput(t)
             \/ \E label \in {"cancelled", "retry", "failing"} : Raise(t, label)
             \/ \E running \in BOOLEAN : WriteAudit(t, running)
    BY <1>1, <2>1 DEF CleanupBeforeClaim, Settle, CleanTerminal, RequireCleanup, Prepare,
                      ConfirmCancel, UseRuntime, SavePartialOutput, Raise, WriteAudit, rowVars
  <2>2. CASE Claim(t)
    BY <2>2, ClaimOwner
  <2>3. CASE \E st \in {"completed", "interrupted"}, bound \in BOOLEAN : SaveAndEnd(t, st, bound)
    BY <1>3, <2>3
  <2>4. CASE \/ FinishUserCancel(t) \/ Fail(t)
             \/ \E st \in {"completed", "interrupted", "cancelled"} : EndStream(t, st)
    BY <1>2, <2>4 DEF FinishUserCancel, Fail, EndStream
  <2>5. CASE ReleaseForRetry(t)
    BY <2>5, ReleaseOwner
  <2>6. CASE Finally(t) \/ RecloseTree(t)
    BY <1>4, <2>6 DEF Finally, RecloseTree
  <2>7. QED
    BY <1>5, <2>1, <2>2, <2>3, <2>4, <2>5, <2>6 DEF Invocation
<1>6. ASSUME NEW r \in Run, NEW by, CreateRow(r, by) PROVE AttemptMatchesOwner'
  <2>1. worker[r] = None
    BY <1>6 DEF CreateRow, AttemptMatchesOwner
  <2>2. QED
    BY <1>6, <2>1, StatusOwner DEF CreateRow, TypeOK, AttemptMatchesOwner
<1>7. CASE \/ \E r \in Chat : CreateChat(r)
           \/ \E r \in Resume : CreateResume(r)
           \/ \E t \in Token, c \in Sub : StartSubagent(t, c)
  BY <1>6, <1>7 DEF CreateChat, CreateResume, StartSubagent, Root, Run
<1>8. ASSUME NEW r \in Run, RequestCancel(r) PROVE AttemptMatchesOwner'
  <2>1. CancelLocked(r) \in [Run -> Status]
    BY DEF CancelLocked, Stopped, TypeOK, Status
  <2>2. ASSUME NEW c \in Run
        PROVE  /\ CancelLocked(r)[c] = "running" => status[c] = "running"
               /\ worker[c] # None => CancelLocked(r)[c] \in Leased
    BY DEF CancelLocked, Stopped, NeverStarted, TypeOK, AttemptMatchesOwner
  <2>3. ASSUME NEW c \in Run
        PROVE  /\ status'[c] = "running" => status[c] = "running"
               /\ worker[c] # None => status'[c] \in Leased
    BY <1>8, <2>1, <2>2, CloseTreeKeepsOwners DEF RequestCancel
  <2>4. QED
    BY <1>8, <2>3, StatusOwner DEF RequestCancel
<1>9. ASSUME NEW t \in Token, NEW r \in Run, Deliver(t, r) PROVE AttemptMatchesOwner'
  <2>1. /\ job[t] = None /\ job' = [job EXCEPT ![t] = r]
        /\ UNCHANGED <<status, worker, lease, started, outcome>>
    BY <1>9 DEF Deliver, InvocationShape, rowVars
  <2>2. worker[r] # t /\ outcome[t] # "open"
    BY <2>1, NoneIsNoValue DEF AttemptMatchesOwner
  <2>3. QED
    BY <2>1, <2>2, NoneIsNoValue DEF AttemptMatchesOwner, TypeOK
<1>10. ASSUME NEW t \in Token, Heartbeat(t) PROVE AttemptMatchesOwner'
  BY <1>10, NoneIsNoValue DEF Heartbeat, OwnsLive, AttemptMatchesOwner, TypeOK
<1>11. ASSUME NEW t \in Token, LoseLease(t) \/ Crash(t) PROVE AttemptMatchesOwner'
  BY <1>1, <1>11 DEF LoseLease, Crash, rowVars
<1>12. CASE Tick
  BY <1>12 DEF Tick, AttemptMatchesOwner, TypeOK
<1>13. ASSUME NEW S \in SUBSET Run, ReconcileLeases(S) PROVE AttemptMatchesOwner'
  BY <1>13, ReconcileOwner DEF ReconcileLeases, Outcome
<1>14. CASE \E r \in Root : ReconcileCleanup(r)
  BY <1>1, <1>14 DEF ReconcileCleanup
<1>15. CASE StorageMigration
  <2> DEFINE S == {q \in Run : status[q] \in Active}
  <2>1. /\ status' = [r \in Run |-> IF r \in S THEN "failed"
                                    ELSE IF r \in {} THEN Stopped(r) ELSE status[r]]
        /\ worker' = [r \in Run |-> IF r \in S THEN None ELSE worker[r]]
        /\ lease'  = [r \in Run |-> IF r \in S THEN 0 ELSE lease[r]]
        /\ outcome' = [t \in Token |-> IF job[t] \in S /\ outcome[t] = "open"
                                       THEN "failed" ELSE outcome[t]]
        /\ UNCHANGED <<started, job>>
    BY <1>15 DEF StorageMigration
  <2>2. S \in SUBSET Run /\ "failed" \in Outcome \ {"open"}
    BY DEF Outcome
  <2> HIDE DEF S
  <2>3. QED
    BY <2>1, <2>2, ReconcileOwner
<1>16. CASE UNCHANGED vars
  BY <1>1, <1>16 DEF vars
<1>17. QED
  BY <1>5, <1>7, <1>8, <1>9, <1>10, <1>11, <1>12, <1>13, <1>14, <1>15, <1>16 DEF Next

\* The attempt of an invocation is open exactly while the row names it as owner,
\* so no run ever has two owners and no finished run has one.
THEOREM AttemptMatchesOwnerCorrect == Spec => []AttemptMatchesOwner
<1>1. Init => TypeOK /\ InvocationShape /\ AttemptMatchesOwner
  BY InitType, NoneIsNoValue DEF Init, InvocationShape, AttemptMatchesOwner
<1>2. QED
  BY <1>1, TypeStep, ShapeStep, OwnerStep, PTL DEF Spec

-----------------------------------------------------------------------------
(* The execution tree.                                                     *)

\* No transaction but the creation of a row changes a row that is not active.
InactiveStays == \A r \in Run : status[r] \notin Active => status'[r] = status[r]

\* The steps that add a row.
Creation ==
    \/ \E r \in Chat : CreateChat(r)
    \/ \E r \in Resume : CreateResume(r)
    \/ \E t \in Token, c \in Sub : StartSubagent(t, c)

\* Only a creation makes a run active.
LEMMA InactiveStep ==
    TypeOK /\ InvocationShape /\ AttemptMatchesOwner /\ [Next]_vars =>
        InactiveStays \/ Creation
<1> SUFFICES ASSUME TypeOK, InvocationShape, AttemptMatchesOwner, [Next]_vars
             PROVE  InactiveStays \/ Creation
  OBVIOUS
<1>1. status \in [Run -> Status]
  BY DEF TypeOK, Status
<1>2. ASSUME NEW r, NEW st \in [Run -> Status], status' = CloseTree(st, r),
             \A c \in Run : status[c] \notin Active => st[c] = status[c]
      PROVE  InactiveStays
  BY <1>2, CloseTreeEffect DEF InactiveStays
<1>3. ASSUME NEW t \in Token, NEW st \in Terminal, status[job[t]] \in Active,
             SetTerminal(job[t], t, st)
      PROVE  InactiveStays
  <2>1. [status EXCEPT ![job[t]] = st] \in [Run -> Status]
    BY DEF TypeOK, Status
  <2>2. QED
    BY <1>1, <1>2, <1>3, <2>1 DEF SetTerminal
<1>4. ASSUME UNCHANGED status PROVE InactiveStays
  BY <1>4 DEF InactiveStays
<1>5. ASSUME NEW t \in Token, NEW st \in Terminal, MarkTerminal(t, st) PROVE InactiveStays
  BY <1>3, <1>4, <1>5 DEF MarkTerminal, MaySetTerminal
<1>6. ASSUME NEW t \in Token, Invocation(t) PROVE InactiveStays
  <2>1. CASE \/ CleanupBeforeClaim(t) \/ Settle(t) \/ CleanTerminal(t)
             \/ Prepare(t) \/ ConfirmCancel(t) \/ UseRuntime(t) \/ SavePartialOutput(t)
             \/ \E label \in {"cancelled", "retry", "failing"} : Raise(t, label)
             \/ \E running \in BOOLEAN : WriteAudit(t, running)
    BY <1>4, <2>1 DEF CleanupBeforeClaim, Settle, CleanTerminal, RequireCleanup, Prepare,
                      ConfirmCancel, UseRuntime, SavePartialOutput, Raise, WriteAudit, rowVars
  <2>2. CASE Claim(t)
    BY <2>2 DEF Claim, InactiveStays, TypeOK
  <2>3. ASSUME NEW st \in {"completed", "interrupted"}, NEW bound, SaveAndEnd(t, st, bound)
        PROVE  InactiveStays
    BY <1>3, <1>4, <2>3 DEF SaveAndEnd, IsLeaseOwner
  <2>4. CASE \/ FinishUserCancel(t) \/ Fail(t)
             \/ \E st \in {"completed", "interrupted", "cancelled"} : EndStream(t, st)
    BY <1>5, <2>4 DEF FinishUserCancel, Fail, EndStream
  <2>5. CASE ReleaseForRetry(t)
    <3>1. CASE IsLeaseOwner(job[t], t)
      <4>1. [status EXCEPT ![job[t]] = "pending"] \in [Run -> Status]
        BY DEF TypeOK, Status
      <4>2. QED
        BY <1>1, <1>2, <2>5, <3>1, <4>1 DEF ReleaseForRetry, IsLeaseOwner
    <3>2. CASE ~IsLeaseOwner(job[t], t)
      BY <1>4, <2>5, <3>2 DEF ReleaseForRetry
    <3>3. QED
      BY <3>1, <3>2
  <2>6. CASE Finally(t) \/ RecloseTree(t)
    BY <1>1, <1>2, <1>4, <2>6 DEF Finally, RecloseTree, FinishChildren
  <2>7. QED
    BY <1>6, <2>1, <2>2, <2>3, <2>4, <2>5, <2>6 DEF Invocation
<1>7. CASE Creation
  BY <1>7
<1>8. ASSUME NEW r \in Run, RequestCancel(r) PROVE InactiveStays
  <2>1. CancelLocked(r) \in [Run -> Status]
    BY DEF CancelLocked, Stopped, TypeOK, Status
  <2>2. \A c \in Run : status[c] \notin Active => CancelLocked(r)[c] = status[c]
    BY DEF CancelLocked, TypeOK
  <2>3. QED
    BY <1>2, <1>8, <2>1, <2>2 DEF RequestCancel
<1>9. CASE StorageMigration
  BY <1>9 DEF StorageMigration, InactiveStays
<1>10. ASSUME NEW S \in SUBSET Run, ReconcileLeases(S) PROVE InactiveStays
  <2>1. \A r \in S : status[r] \in Active
    BY <1>10 DEF ReconcileLeases, Orphaned
  <2>2. \A r \in UNION {Descendants(q) : q \in S} : status[r] \in Active
    BY DEF Descendants
  <2>3. QED
    BY <1>10, <2>1, <2>2 DEF ReconcileLeases, InactiveStays
<1>11. CASE \/ \E t \in Token, r \in Run : Deliver(t, r)
            \/ \E t \in Token : Heartbeat(t) \/ LoseLease(t) \/ Crash(t)
            \/ Tick
            \/ \E r \in Root : ReconcileCleanup(r)
            \/ UNCHANGED vars
  BY <1>4, <1>11 DEF Deliver, Heartbeat, LoseLease, Crash, Tick, ReconcileCleanup, rowVars, vars
<1>12. QED
  BY <1>6, <1>7, <1>8, <1>9, <1>10, <1>11 DEF Next, Creation

\* A step that creates no row changes the creator of none, and the newest run of the
\* thread stays.
LEMMA CreatorStays == [Next]_vars => UNCHANGED <<creator, latest>> \/ Creation
BY DEF Next, vars, rowVars, Creation, RequestCancel, Deliver, Invocation, CleanupBeforeClaim,
       Settle, CleanTerminal, RequireCleanup, Claim, Prepare, UseRuntime, WriteAudit,
       SavePartialOutput, SaveAndEnd, EndStream, MarkTerminal, Raise, ConfirmCancel,
       FinishUserCancel, Fail, ReleaseForRetry, Finally, RecloseTree, FinishChildren, Heartbeat,
       LoseLease, Crash, Tick, ReconcileLeases, ReconcileCleanup, StorageMigration

\* A resume run hangs below an interrupted run, a subagent below a chat or resume run.
LEMMA TreeStep ==
    TypeOK /\ InvocationShape /\ AttemptMatchesOwner /\ TreeShape /\ [Next]_vars => TreeShape'
<1> SUFFICES ASSUME TypeOK, InvocationShape, AttemptMatchesOwner, TreeShape, [Next]_vars
             PROVE  TreeShape'
  OBVIOUS
<1>1. CASE ~Creation
  <2>1. UNCHANGED creator /\ InactiveStays
    BY <1>1, CreatorStays, InactiveStep
  <2>2. \A c \in Run : status'[c] # "absent" => status[c] # "absent"
    BY <2>1 DEF InactiveStays
  <2>3. QED
    BY <2>1, <2>2 DEF TreeShape, InactiveStays, Root, Run
<1>2. ASSUME NEW r \in Run, NEW by \in Root \cup {None}, CreateRow(r, by),
             r \in Root => by = None \/ status[by] = "interrupted",
             r \in Sub => by \in Root
      PROVE  TreeShape'
  <2>1. \A c \in Run : status'[c] = IF c = r THEN "pending" ELSE status[c]
    BY <1>2 DEF CreateRow, TypeOK
  <2>2. \A c \in Run : creator'[c] = IF c = r THEN by ELSE creator[c]
    BY <1>2 DEF CreateRow, TypeOK
  <2>3. status[r] = "absent"
    BY <1>2 DEF CreateRow
  <2>4. QED
    BY <1>2, <2>1, <2>2, <2>3 DEF TreeShape, Root, Run
<1>3. ASSUME NEW r \in Chat, CreateChat(r) PROVE TreeShape'
  BY <1>2, <1>3, RunTypesDisjoint DEF CreateChat, Root, Run
<1>4. ASSUME NEW r \in Resume, CreateResume(r) PROVE TreeShape'
  BY <1>2, <1>4, RunTypesDisjoint DEF CreateResume, Root, Run, TypeOK
<1>5. ASSUME NEW t \in Token, NEW c \in Sub, StartSubagent(t, c) PROVE TreeShape'
  <2>1. job[t] \in Root /\ c \notin Root
    BY <1>5, RunTypesDisjoint DEF StartSubagent, InvocationShape, TypeOK, Root, Run
  <2>2. QED
    BY <1>2, <1>5, <2>1 DEF StartSubagent, Root, Run
<1>6. QED
  BY <1>1, <1>3, <1>4, <1>5 DEF Creation

\* An active run is not in the tree below itself.
LEMMA NotBelowItself ==
    ASSUME TypeOK, TreeShape, NEW r \in Run, status[r] \in Active
    PROVE  r \notin Descendants(r)
<1> SUFFICES ASSUME r \in Descendants(r) PROVE FALSE
  OBVIOUS
<1>1. r \in Root
  BY DEF Descendants, Root, Run
<1>2. CASE creator[r] = r
  BY <1>1, <1>2, NoneIsNoValue DEF TreeShape
<1>3. ASSUME NEW p \in Run, creator[p] = r, creator[r] = p, status[p] \in Active PROVE FALSE
  BY <1>1, <1>3, NoneIsNoValue DEF TreeShape
<1>4. QED
  BY <1>2, <1>3 DEF Descendants

\* Whoever is below a run that is stopped with the tree of r is stopped too.
LEMMA TreeIsClosedDownwards ==
    ASSUME TypeOK, TreeShape, NEW r \in Run, NEW c \in Sub, status[c] \in Active,
           creator[c] = r \/ creator[c] \in Descendants(r)
    PROVE  c \in Descendants(r)
<1>1. creator[c] \in Root /\ c \in Run /\ Root \cap Sub = {}
  BY RunTypesDisjoint DEF TreeShape, Root, Run
<1>2. CASE creator[c] = r
  BY <1>1, <1>2 DEF Descendants
<1>3. CASE creator[c] \in Descendants(r)
  <2> DEFINE p == creator[c]
  <2>1. r \notin Sub /\ status[p] \in Active /\ p \in Run /\ p \in Root
    BY <1>1, <1>3 DEF Descendants
  <2>2. CASE creator[p] = r
    BY <1>1, <2>1, <2>2 DEF Descendants
  <2>3. ASSUME NEW q \in Run, status[q] \in Active, creator[p] = q PROVE FALSE
    BY <2>1, <2>3, NoneIsNoValue DEF TreeShape
  <2>4. QED
    BY <1>3, <2>2, <2>3 DEF Descendants
<1>4. QED
  BY <1>2, <1>3

\* A transaction that writes r, and closes the tree below it when it takes r out of
\* "running", leaves no subagent behind.
LEMMA ClosingKeepsTree ==
    ASSUME TypeOK, TreeShape, SubagentsStop, UNCHANGED creator, NEW r \in Run,
           NEW st \in [Run -> Status], status' = CloseTree(st, r),
           \A c \in Run \ {r} : st[c] = status[c],
           st[r] \in {"pending", "running"} => status[r] \in {"pending", "running"}
    PROVE  SubagentsStop'
<1>1. /\ \A c \in Descendants(r) : status[c] \in Active
      /\ \A c \in Run : status'[c] = IF c \in Descendants(r) THEN Stopped(c) ELSE st[c]
  BY CloseTreeEffect
<1>2. \A c \in Run : Stopped(c) \notin {"pending", "running"}
  BY DEF Stopped
<1>3. SUFFICES ASSUME NEW c \in Sub, status'[c] \in {"pending", "running"}
               PROVE  status'[creator[c]] = "running"
  BY DEF SubagentsStop
<1>4. c \in Run /\ c \notin Descendants(r) /\ status[c] \in {"pending", "running"}
  BY <1>1, <1>2, <1>3 DEF Run
<1>5. creator[c] # r /\ creator[c] \notin Descendants(r)
  BY <1>4, TreeIsClosedDownwards
<1>6. creator[c] \in Run /\ status[creator[c]] = "running"
  BY <1>4 DEF SubagentsStop, TreeShape, Root, Run
<1>7. QED
  BY <1>1, <1>5, <1>6

\* The terminal transaction closes the tree.
LEMMA SetTerminalTree ==
    ASSUME TypeOK, TreeShape, SubagentsStop, UNCHANGED creator,
           NEW t \in Token, NEW r \in Run, NEW st \in Terminal, SetTerminal(r, t, st)
    PROVE  SubagentsStop'
<1> DEFINE f == [status EXCEPT ![r] = st]
<1>1. f \in [Run -> Status] /\ f[r] = st /\ \A c \in Run \ {r} : f[c] = status[c]
  BY DEF TypeOK, Status
<1>2. status' = CloseTree(f, r) /\ st \notin {"pending", "running"}
  BY DEF SetTerminal
<1> HIDE DEF f
<1>3. QED
  BY <1>1, <1>2, ClosingKeepsTree

\* A subagent is only queued or running below a running run.
LEMMA ClosedStep ==
    TypeOK /\ InvocationShape /\ TreeShape /\ SubagentsStop /\ [Next]_vars =>
        SubagentsStop'
<1> SUFFICES ASSUME TypeOK, InvocationShape, TreeShape, SubagentsStop, [Next]_vars
             PROVE  SubagentsStop'
  OBVIOUS
<1>1. ASSUME UNCHANGED <<status, creator>> PROVE SubagentsStop'
  BY <1>1 DEF SubagentsStop
<1>2. \A c \in Sub : status[c] # "absent" => creator[c] \in Run
  BY DEF TreeShape, Run
<1>3. ASSUME NEW t \in Token, NEW st \in Terminal, MarkTerminal(t, st), pc[t] # "idle"
      PROVE  SubagentsStop'
  <2>1. job[t] \in Run
    BY <1>3 DEF InvocationShape, TypeOK
  <2>2. QED
    BY <1>1, <1>3, <2>1, SetTerminalTree DEF MarkTerminal
<1>4. ASSUME NEW t \in Token, Claim(t) PROVE SubagentsStop'
  <2>1. \A c \in Run : status'[c] = status[c] \/ (status[c] = "pending" /\ status'[c] = "running")
    BY <1>4 DEF Claim, TypeOK
  <2>2. UNCHANGED creator
    BY <1>4 DEF Claim
  <2>3. QED
    BY <1>2, <2>1, <2>2 DEF SubagentsStop, Run
<1>5. ASSUME NEW t \in Token, ReleaseForRetry(t) PROVE SubagentsStop'
  <2>1. CASE IsLeaseOwner(job[t], t)
    <3> DEFINE f == [status EXCEPT ![job[t]] = "pending"]
    <3>1. job[t] \in Run /\ status[job[t]] = "running"
      BY <1>5, <2>1 DEF ReleaseForRetry, IsLeaseOwner, InvocationShape, TypeOK
    <3>2. /\ f \in [Run -> Status] /\ f[job[t]] = "pending"
          /\ \A c \in Run \ {job[t]} : f[c] = status[c]
      BY <3>1 DEF TypeOK, Status
    <3>3. status' = CloseTree(f, job[t]) /\ UNCHANGED creator
      BY <1>5, <2>1 DEF ReleaseForRetry
    <3> HIDE DEF f
    <3>4. QED
      BY <3>1, <3>2, <3>3, ClosingKeepsTree
  <2>2. CASE ~IsLeaseOwner(job[t], t)
    BY <1>1, <1>5, <2>2 DEF ReleaseForRetry
  <2>3. QED
    BY <2>1, <2>2
<1>6. ASSUME NEW t \in Token, Finally(t) \/ RecloseTree(t) PROVE SubagentsStop'
  <2>1. job[t] \in Run /\ status \in [Run -> Status]
    BY <1>6 DEF Finally, RecloseTree, FinishChildren, InvocationShape, TypeOK, Status
  <2>2. QED
    BY <1>1, <1>6, <2>1, ClosingKeepsTree DEF Finally, RecloseTree, FinishChildren
<1>7. ASSUME NEW t \in Token, Invocation(t) PROVE SubagentsStop'
  <2>1. CASE \/ CleanupBeforeClaim(t) \/ Settle(t) \/ CleanTerminal(t)
             \/ Prepare(t) \/ ConfirmCancel(t) \/ UseRuntime(t) \/ SavePartialOutput(t)
             \/ \E label \in {"cancelled", "retry", "failing"} : Raise(t, label)
             \/ \E running \in BOOLEAN : WriteAudit(t, running)
    BY <1>1, <2>1 DEF CleanupBeforeClaim, Settle, CleanTerminal, RequireCleanup, Prepare,
                      ConfirmCancel, UseRuntime, SavePartialOutput, Raise, WriteAudit, rowVars
  <2>2. ASSUME NEW st \in {"completed", "interrupted"}, NEW bound, SaveAndEnd(t, st, bound)
        PROVE  SubagentsStop'
    <3>1. job[t] \in Run
      BY <2>2 DEF SaveAndEnd, InvocationShape, TypeOK
    <3>2. QED
      BY <1>1, <2>2, <3>1, SetTerminalTree DEF SaveAndEnd
  <2>3. CASE \/ FinishUserCancel(t) \/ Fail(t)
             \/ \E st \in {"completed", "interrupted", "cancelled"} : EndStream(t, st)
    BY <1>3, <2>3 DEF FinishUserCancel, Fail, EndStream
  <2>4. QED
    BY <1>4, <1>5, <1>6, <1>7, <2>1, <2>2, <2>3 DEF Invocation
<1>8. ASSUME NEW r \in Run, NEW by, CreateRow(r, by),
             r \in Sub => by \in Run /\ status[by] = "running"
      PROVE  SubagentsStop'
  <2>1. \A c \in Run : /\ status'[c] = IF c = r THEN "pending" ELSE status[c]
                       /\ creator'[c] = IF c = r THEN by ELSE creator[c]
    BY <1>8 DEF CreateRow, TypeOK
  <2>2. status[r] = "absent"
    BY <1>8 DEF CreateRow
  <2>3. ASSUME NEW c \in Sub \ {r}, status[c] \in {"pending", "running"}
        PROVE  creator[c] \in Run \ {r} /\ status[creator[c]] = "running"
    BY <1>2, <2>2, <2>3 DEF SubagentsStop
  <2>4. r \in Sub => by \in Run \ {r} /\ status[by] = "running"
    BY <1>8, <2>2
  <2>5. QED
    BY <2>1, <2>3, <2>4 DEF SubagentsStop, Run
<1>9. ASSUME NEW t \in Token, NEW c \in Sub, StartSubagent(t, c) PROVE SubagentsStop'
  <2>1. job[t] \in Run
    BY <1>9 DEF StartSubagent, InvocationShape, TypeOK
  <2>2. QED
    BY <1>8, <1>9, <2>1 DEF StartSubagent, Run
<1>10. ASSUME NEW r \in Root, CreateChat(r) \/ CreateResume(r) PROVE SubagentsStop'
  BY <1>8, <1>10, RunTypesDisjoint DEF CreateChat, CreateResume, Root, Run, TypeOK
<1>11. ASSUME NEW r \in Run, RequestCancel(r) PROVE SubagentsStop'
  <2>1. CancelLocked(r) \in [Run -> Status]
    BY DEF CancelLocked, Stopped, TypeOK, Status
  <2>2. /\ \A c \in Run \ {r} : CancelLocked(r)[c] = status[c]
        /\ CancelLocked(r)[r] \in {"pending", "running"} => status[r] \in {"pending", "running"}
    BY DEF CancelLocked, Stopped, TypeOK
  <2>3. QED
    BY <1>11, <2>1, <2>2, ClosingKeepsTree DEF RequestCancel
<1>12. ASSUME NEW S \in SUBSET Run, ReconcileLeases(S) PROVE SubagentsStop'
  <2> DEFINE below == UNION {Descendants(r) : r \in S}
  <2>1. /\ \A c \in Run : status'[c] = IF c \in S THEN "failed"
                                       ELSE IF c \in below THEN Stopped(c) ELSE status[c]
        /\ UNCHANGED creator
    BY <1>12 DEF ReconcileLeases
  <2>2. \A c \in Run : Stopped(c) \notin {"pending", "running"}
    BY DEF Stopped
  <2>3. SUFFICES ASSUME NEW c \in Sub, status'[c] \in {"pending", "running"}
                 PROVE  status'[creator[c]] = "running"
    BY <2>1 DEF SubagentsStop
  <2>4. c \in Run /\ c \notin below /\ status[c] \in {"pending", "running"}
    BY <2>1, <2>2, <2>3 DEF Run
  <2>5. creator[c] \notin S /\ creator[c] \notin below
    BY <2>4, TreeIsClosedDownwards
  <2>6. creator[c] \in Run /\ status[creator[c]] = "running"
    BY <1>2, <2>4 DEF SubagentsStop
  <2> HIDE DEF below
  <2>7. QED
    BY <2>1, <2>5, <2>6
<1>13. CASE StorageMigration
  BY <1>13 DEF StorageMigration, SubagentsStop, Run
<1>14. CASE \/ \E t \in Token, r \in Run : Deliver(t, r)
            \/ \E t \in Token : Heartbeat(t) \/ LoseLease(t) \/ Crash(t)
            \/ Tick
            \/ \E r \in Root : ReconcileCleanup(r)
            \/ UNCHANGED vars
  BY <1>1, <1>14 DEF Deliver, Heartbeat, LoseLease, Crash, Tick, ReconcileCleanup, rowVars, vars
<1>15. QED
  BY <1>7, <1>9, <1>10, <1>11, <1>12, <1>13, <1>14 DEF Next, Root

\* A subagent may only be queued or running while the run that started it is running:
\* every transaction that takes a run out of "running" closes its tree.
THEOREM SubagentsStopCorrect == Spec => []SubagentsStop
<1>1. Init => TypeOK /\ InvocationShape /\ AttemptMatchesOwner
  BY InitType, NoneIsNoValue DEF Init, InvocationShape, AttemptMatchesOwner
<1>2. Init => TreeShape /\ SubagentsStop
  BY DEF Init, TreeShape, SubagentsStop, Root, Run
<1>3. QED
  BY <1>1, <1>2, TypeStep, ShapeStep, OwnerStep, TreeStep, ClosedStep, PTL DEF Spec

-----------------------------------------------------------------------------
(* Ownership after its lease has run out.                                  *)

\* What becomes of a run with an owner whose lease has expired.
Stranded(r) == worker[r] # None /\ lease[r] = 0

\* What a step may do to a run whose lease is over: leave it as it is, or fail it.
StaysStranded(r) ==
    /\ worker'[r] = worker[r] /\ lease'[r] = 0
    /\ status'[r] \in Leased
    /\ output'[r] = output[r] /\ audit'[r] = audit[r]

FailsStranded(r) == status'[r] = "failed" /\ worker'[r] = None

\* A transaction of an attempt that owns another run only stops this one.
LEMMA OtherRunClosed ==
    ASSUME TypeOK, AttemptMatchesOwner, NEW q, NEW r \in Run, Stranded(r),
           NEW st \in [Run -> Status], status' = CloseTree(st, q), st[r] \in Leased,
           worker'[r] = worker[r], lease'[r] = 0, output'[r] = output[r], audit'[r] = audit[r]
    PROVE  StaysStranded(r)
<1>1. status'[r] \in Leased
  BY CloseTreeKeepsOwners DEF Stranded
<1>2. QED
  BY <1>1 DEF StaysStranded

\* The terminal transaction of another run leaves this one stranded.
LEMMA SetTerminalStrands ==
    ASSUME TypeOK, AttemptMatchesOwner, NEW t \in Token, NEW q \in Run, NEW st \in Terminal,
           SetTerminal(q, t, st), OwnsLive(q, t), NEW r \in Run, Stranded(r),
           output'[r] = output[r] \/ r = q
    PROVE  StaysStranded(r)
<1> DEFINE f == [status EXCEPT ![q] = st]
<1>1. r # q /\ status[r] \in Leased
  BY DEF OwnsLive, Stranded, AttemptMatchesOwner
<1>2. f \in [Run -> Status] /\ f[r] = status[r]
  BY <1>1 DEF TypeOK, Status
<1>3. status' = CloseTree(f, q)
  BY DEF SetTerminal
<1> HIDE DEF f
<1>4. worker'[r] = worker[r] /\ lease'[r] = 0 /\ audit'[r] = audit[r]
  BY <1>1 DEF SetTerminal, TypeOK, Stranded
<1>5. QED
  BY <1>1, <1>2, <1>3, <1>4, OtherRunClosed

\* No step does more to such a run than fail it.
LEMMA StrandedStep ==
    TypeOK /\ InvocationShape /\ AttemptMatchesOwner /\ [Next]_vars =>
        \A r \in Run : Stranded(r) => StaysStranded(r) \/ FailsStranded(r)
<1> SUFFICES ASSUME TypeOK, InvocationShape, AttemptMatchesOwner, [Next]_vars,
                    NEW r \in Run, Stranded(r)
             PROVE  StaysStranded(r) \/ FailsStranded(r)
  OBVIOUS
<1>1. status[r] \in Leased /\ status \in [Run -> Status]
  BY DEF Stranded, AttemptMatchesOwner, TypeOK, Status
<1>2. ASSUME UNCHANGED <<status, worker, lease, output, audit>> PROVE StaysStranded(r)
  BY <1>1, <1>2 DEF StaysStranded, Stranded
<1>3. ASSUME NEW q, OwnsLive(job[q], q) PROVE job[q] # r
  BY <1>3 DEF OwnsLive, Stranded
<1>4. ASSUME NEW t \in Token, NEW st \in Terminal, MarkTerminal(t, st), pc[t] # "idle"
      PROVE  StaysStranded(r)
  <2>1. job[t] \in Run
    BY <1>4 DEF InvocationShape, TypeOK
  <2>2. CASE MaySetTerminal(job[t], t, st)
    BY <1>4, <2>1, <2>2, SetTerminalStrands DEF MarkTerminal, MaySetTerminal
  <2>3. CASE ~MaySetTerminal(job[t], t, st)
    BY <1>2, <1>4, <2>3 DEF MarkTerminal
  <2>4. QED
    BY <2>2, <2>3
<1>5. ASSUME NEW t \in Token, NEW st \in {"completed", "interrupted"}, NEW bound,
             SaveAndEnd(t, st, bound)
      PROVE  StaysStranded(r)
  <2>1. job[t] \in Run
    BY <1>5 DEF SaveAndEnd, InvocationShape, TypeOK
  <2>2. CASE IsLeaseOwner(job[t], t) /\ (st = "completed" => output[job[t]] \/ bound)
    <3>1. /\ output' = [output EXCEPT ![job[t]] = @ \/ bound]
          /\ SetTerminal(job[t], t, st) /\ OwnsLive(job[t], t)
      BY <1>5, <2>2 DEF SaveAndEnd, IsLeaseOwner
    <3>2. output'[r] = output[r] \/ r = job[t]
      BY <3>1 DEF TypeOK
    <3>3. QED
      BY <2>1, <3>1, <3>2, SetTerminalStrands
  <2>3. CASE ~(IsLeaseOwner(job[t], t) /\ (st = "completed" => output[job[t]] \/ bound))
    BY <1>2, <1>5, <2>3 DEF SaveAndEnd
  <2>4. QED
    BY <2>2, <2>3
<1>6. ASSUME NEW t \in Token, Claim(t) PROVE StaysStranded(r)
  <2>1. CASE MayClaim(job[t], t)
    <3>1. job[t] # r
      BY <1>1, <2>1 DEF MayClaim, OwnsLive, Stranded
    <3>2. QED
      BY <1>1, <1>6, <2>1, <3>1 DEF Claim, StaysStranded, Stranded, TypeOK
  <2>2. CASE ~MayClaim(job[t], t)
    BY <1>2, <1>6, <2>2 DEF Claim
  <2>3. QED
    BY <2>1, <2>2
<1>7. ASSUME NEW t \in Token, ReleaseForRetry(t) PROVE StaysStranded(r)
  <2>1. CASE IsLeaseOwner(job[t], t)
    <3> DEFINE f == [status EXCEPT ![job[t]] = "pending"]
    <3>1. job[t] # r
      BY <1>3, <2>1 DEF IsLeaseOwner
    <3>2. f \in [Run -> Status] /\ f[r] = status[r]
      BY <3>1 DEF TypeOK, Status
    <3>3. status' = CloseTree(f, job[t])
      BY <1>7, <2>1 DEF ReleaseForRetry
    <3> HIDE DEF f
    <3>4. worker'[r] = worker[r] /\ lease'[r] = 0 /\ output'[r] = output[r] /\ audit'[r] = audit[r]
      BY <1>7, <2>1, <3>1 DEF ReleaseForRetry, TypeOK, Stranded
    <3>5. QED
      BY <1>1, <3>2, <3>3, <3>4, OtherRunClosed
  <2>2. CASE ~IsLeaseOwner(job[t], t)
    BY <1>2, <1>7, <2>2 DEF ReleaseForRetry
  <2>3. QED
    BY <2>1, <2>2
<1>8. ASSUME NEW t \in Token, NEW from, NEW to, FinishChildren(t, from, to)
      PROVE  StaysStranded(r)
  <2>1. CASE status' = status
    BY <1>2, <1>8, <2>1 DEF FinishChildren
  <2>2. CASE status' = CloseTree(status, job[t])
    <3>1. worker'[r] = worker[r] /\ lease'[r] = 0 /\ output'[r] = output[r] /\ audit'[r] = audit[r]
      BY <1>8 DEF FinishChildren, Stranded
    <3>2. QED
      BY <1>1, <2>2, <3>1, OtherRunClosed
  <2>3. QED
    BY <1>8, <2>1, <2>2 DEF FinishChildren
<1>9. ASSUME NEW t \in Token, Invocation(t) PROVE StaysStranded(r)
  <2>1. CASE \/ CleanupBeforeClaim(t) \/ Settle(t) \/ CleanTerminal(t)
             \/ Prepare(t) \/ ConfirmCancel(t) \/ UseRuntime(t)
             \/ \E label \in {"cancelled", "retry", "failing"} : Raise(t, label)
    BY <1>2, <2>1 DEF CleanupBeforeClaim, Settle, CleanTerminal, RequireCleanup, Prepare,
                      ConfirmCancel, UseRuntime, Raise, rowVars
  <2>2. CASE SavePartialOutput(t) \/ \E running \in BOOLEAN : WriteAudit(t, running)
    <3>1. job[t] # r
      BY <1>3, <2>2 DEF SavePartialOutput, WriteAudit, IsLeaseOwner
    <3>2. QED
      BY <1>1, <2>2, <3>1 DEF SavePartialOutput, WriteAudit, StaysStranded, Stranded, TypeOK
  <2>3. CASE \/ FinishUserCancel(t) \/ Fail(t)
             \/ \E st \in {"completed", "interrupted", "cancelled"} : EndStream(t, st)
    BY <1>4, <2>3 DEF FinishUserCancel, Fail, EndStream
  <2>4. CASE Finally(t) \/ RecloseTree(t)
    BY <1>8, <2>4 DEF Finally, RecloseTree
  <2>5. QED
    BY <1>5, <1>6, <1>7, <1>9, <2>1, <2>2, <2>3, <2>4 DEF Invocation
<1>10. ASSUME NEW q \in Run, NEW by, CreateRow(q, by) PROVE StaysStranded(r)
  BY <1>1, <1>10 DEF CreateRow, StaysStranded, Stranded, TypeOK
<1>11. CASE \/ \E q \in Chat : CreateChat(q)
            \/ \E q \in Resume : CreateResume(q)
            \/ \E t \in Token, c \in Sub : StartSubagent(t, c)
  BY <1>10, <1>11 DEF CreateChat, CreateResume, StartSubagent, Root, Run
<1>12. ASSUME NEW q \in Run, RequestCancel(q) PROVE StaysStranded(r)
  <2>1. CancelLocked(q) \in [Run -> Status]
    BY DEF CancelLocked, Stopped, TypeOK, Status
  <2>2. CancelLocked(q)[r] \in Leased
    BY <1>1 DEF CancelLocked, Stopped, NeverStarted, Stranded, TypeOK
  <2>3. worker'[r] = worker[r] /\ lease'[r] = 0 /\ output'[r] = output[r] /\ audit'[r] = audit[r]
    BY <1>12 DEF RequestCancel, Stranded
  <2>4. QED
    BY <1>12, <2>1, <2>2, <2>3, OtherRunClosed DEF RequestCancel
<1>13. ASSUME NEW t \in Token, Heartbeat(t) PROVE StaysStranded(r)
  <2>1. job[t] # r
    BY <1>3, <1>13 DEF Heartbeat
  <2>2. QED
    BY <1>1, <1>13, <2>1 DEF Heartbeat, StaysStranded, Stranded, TypeOK
<1>14. CASE Tick
  BY <1>1, <1>14 DEF Tick, StaysStranded, Stranded, TypeOK
<1>15. ASSUME NEW S \in SUBSET Run, ReconcileLeases(S)
       PROVE  StaysStranded(r) \/ FailsStranded(r)
  <2>1. Stopped(r) \in Leased
    BY DEF Stopped, NeverStarted, Stranded
  <2>2. CASE r \in S
    BY <1>15, <2>2 DEF ReconcileLeases, FailsStranded
  <2>3. CASE r \notin S
    BY <1>1, <1>15, <2>1, <2>3 DEF ReconcileLeases, StaysStranded, Stranded
  <2>4. QED
    BY <2>2, <2>3
<1>16. CASE StorageMigration
  BY <1>1, <1>16 DEF StorageMigration, FailsStranded
<1>17. CASE \/ \E t \in Token, q \in Run : Deliver(t, q)
            \/ \E t \in Token : LoseLease(t) \/ Crash(t)
            \/ \E q \in Root : ReconcileCleanup(q)
            \/ UNCHANGED vars
  BY <1>2, <1>17 DEF Deliver, LoseLease, Crash, ReconcileCleanup, rowVars, vars
<1>18. QED
  BY <1>9, <1>11, <1>12, <1>13, <1>14, <1>15, <1>16, <1>17 DEF Next

\* From the moment the lease of an owner has run out nobody revives or takes over the
\* run, and nothing is written for it: the next change of ownership fails it.
THEOREM ExpiredOwnershipCorrect == Spec => ExpiredOwnershipOnlyFails
<1>1. Init => TypeOK /\ InvocationShape /\ AttemptMatchesOwner
  BY InitType, NoneIsNoValue DEF Init, InvocationShape, AttemptMatchesOwner
<1>2. TypeOK /\ InvocationShape /\ AttemptMatchesOwner /\ [Next]_vars =>
        [\A r \in Run : worker[r] # None /\ lease[r] = 0 =>
          \/ /\ worker'[r] = worker[r] /\ lease'[r] = 0
             /\ status'[r] \in Leased
             /\ output'[r] = output[r] /\ audit'[r] = audit[r]
          \/ status'[r] = "failed" /\ worker'[r] = None]_vars
  BY StrandedStep DEF Stranded, StaysStranded, FailsStranded
<1>3. QED
  BY <1>1, <1>2, TypeStep, ShapeStep, OwnerStep, PTL DEF Spec, ExpiredOwnershipOnlyFails

-----------------------------------------------------------------------------
(* The runtime of the scope.                                               *)

\* A chat or resume run holds the thread while it is active or owes a cleanup.
Holds(r) == status[r] \in Active \/ cleanup[r]

\* A step that lets no run start to hold the thread, and leaves no owner to a run
\* that owes a cleanup.
FenceKept ==
    \A r \in Root : /\ Holds(r)' => Holds(r)
                    /\ cleanup'[r] => worker'[r] = None

\* A step that keeps the fence pending and creates no row keeps CleanupFence.
LEMMA FenceFollows == ASSUME CleanupFence, FenceKept PROVE CleanupFence'
BY DEF CleanupFence, FenceKept, Holds

\* Closing a tree makes no row active.
LEMMA ClosedIsActive ==
    ASSUME NEW st \in [Run -> Status], NEW q, NEW c \in Run, CloseTree(st, q)[c] \in Active
    PROVE  st[c] \in Active \/ status[c] \in Active
BY CloseTreeEffect

\* A terminal transaction keeps every fence that is pending.
LEMMA SetTerminalFence ==
    ASSUME TypeOK, CleanupFence, NEW t \in Token, NEW q \in Run, NEW st \in Terminal,
           SetTerminal(q, t, st), status[q] \in Active
    PROVE  FenceKept
<1> DEFINE f == [status EXCEPT ![q] = st]
<1>1. f \in [Run -> Status] /\ \A c \in Run : f[c] \in Active => status[c] \in Active
  BY DEF TypeOK, Status
<1>2. status' = CloseTree(f, q)
  BY DEF SetTerminal
<1> HIDE DEF f
<1>3. \A c \in Run : status'[c] \in Active => status[c] \in Active
  BY <1>1, <1>2, ClosedIsActive
<1>4. \A c \in Run : c # q => cleanup'[c] = cleanup[c] /\ worker'[c] = worker[c]
  BY DEF SetTerminal, TypeOK
<1>5. worker'[q] = None
  BY DEF SetTerminal, TypeOK
<1>6. QED
  BY <1>3, <1>4, <1>5 DEF FenceKept, Holds, CleanupFence, Root, Run

\* Every step keeps CleanupFence.
LEMMA FenceStep ==
    TypeOK /\ InvocationShape /\ AttemptMatchesOwner /\ CleanupFence /\ [Next]_vars =>
        CleanupFence'
<1> SUFFICES ASSUME TypeOK, InvocationShape, AttemptMatchesOwner, CleanupFence, [Next]_vars
             PROVE  CleanupFence'
  OBVIOUS
<1>1. status \in [Run -> Status] /\ Root \subseteq Run
  BY DEF TypeOK, Status, Run
<1>2. ASSUME \A c \in Run : /\ status'[c] \in Active => status[c] \in Active
                            /\ cleanup'[c] => cleanup[c]
                            /\ worker'[c] = worker[c]
      PROVE  FenceKept
  BY <1>1, <1>2 DEF FenceKept, Holds, CleanupFence
<1>3. ASSUME NEW t \in Token, NEW st \in Terminal, MarkTerminal(t, st), pc[t] # "idle"
      PROVE  FenceKept
  <2>1. job[t] \in Run
    BY <1>3 DEF InvocationShape, TypeOK
  <2>2. QED
    BY <1>2, <1>3, <2>1, SetTerminalFence DEF MarkTerminal, MaySetTerminal
<1>4. ASSUME NEW t \in Token, NEW st \in {"completed", "interrupted"}, NEW bound,
             SaveAndEnd(t, st, bound)
      PROVE  FenceKept
  <2>1. job[t] \in Run
    BY <1>4 DEF SaveAndEnd, InvocationShape, TypeOK
  <2>2. QED
    BY <1>2, <1>4, <2>1, SetTerminalFence DEF SaveAndEnd, IsLeaseOwner
<1>5. ASSUME NEW t \in Token, Claim(t) PROVE FenceKept
  <2>1. CASE MayClaim(job[t], t)
    BY <1>1, <1>5, <2>1 DEF Claim, MayClaim, FenceKept, Holds, CleanupFence, TypeOK
  <2>2. CASE ~MayClaim(job[t], t)
    BY <1>2, <1>5, <2>2 DEF Claim
  <2>3. QED
    BY <2>1, <2>2
<1>6. ASSUME NEW t \in Token, ReleaseForRetry(t) PROVE FenceKept
  <2>1. CASE IsLeaseOwner(job[t], t)
    <3> DEFINE f == [status EXCEPT ![job[t]] = "pending"]
    <3>1. status[job[t]] = "running"
      BY <2>1 DEF IsLeaseOwner
    <3>2. f \in [Run -> Status] /\ \A c \in Run : f[c] \in Active => status[c] \in Active
      BY <3>1 DEF TypeOK, Status
    <3>3. status' = CloseTree(f, job[t])
      BY <1>6, <2>1 DEF ReleaseForRetry
    <3> HIDE DEF f
    <3>4. \A c \in Run : status'[c] \in Active => status[c] \in Active
      BY <3>2, <3>3, ClosedIsActive
    <3>5. \A c \in Run : IF c = job[t] THEN worker'[c] = None
                         ELSE cleanup'[c] = cleanup[c] /\ worker'[c] = worker[c]
      BY <1>6, <2>1 DEF ReleaseForRetry, TypeOK
    <3>6. QED
      BY <1>1, <3>1, <3>4, <3>5 DEF FenceKept, Holds, CleanupFence
  <2>2. CASE ~IsLeaseOwner(job[t], t)
    BY <1>2, <1>6, <2>2 DEF ReleaseForRetry
  <2>3. QED
    BY <2>1, <2>2
<1>7. ASSUME NEW t \in Token, NEW from, NEW to, FinishChildren(t, from, to) PROVE FenceKept
  <2>1. \A c \in Run : status'[c] \in Active => status[c] \in Active
    BY <1>1, <1>7, ClosedIsActive DEF FinishChildren
  <2>2. QED
    BY <1>2, <1>7, <2>1 DEF FinishChildren
<1>8. ASSUME NEW t \in Token, NEW ok, NEW error, RequireCleanup(t, ok, error) PROVE FenceKept
  BY <1>2, <1>8 DEF RequireCleanup, ReleaseRuntime, KeepRuntime, TypeOK
<1>9. ASSUME NEW t \in Token, Invocation(t) PROVE FenceKept
  <2>1. CASE \/ Prepare(t) \/ ConfirmCancel(t) \/ UseRuntime(t) \/ SavePartialOutput(t)
             \/ \E label \in {"cancelled", "retry", "failing"} : Raise(t, label)
             \/ \E running \in BOOLEAN : WriteAudit(t, running)
    BY <1>2, <2>1 DEF Prepare, ConfirmCancel, UseRuntime, SavePartialOutput, Raise, WriteAudit,
                      rowVars
  <2>2. CASE CleanupBeforeClaim(t) \/ Settle(t) \/ CleanTerminal(t)
    BY <1>8, <2>2 DEF CleanupBeforeClaim, Settle, CleanTerminal
  <2>3. CASE \/ FinishUserCancel(t) \/ Fail(t)
             \/ \E st \in {"completed", "interrupted", "cancelled"} : EndStream(t, st)
    BY <1>3, <2>3 DEF FinishUserCancel, Fail, EndStream
  <2>4. CASE Finally(t) \/ RecloseTree(t)
    BY <1>7, <2>4 DEF Finally, RecloseTree
  <2>5. QED
    BY <1>4, <1>5, <1>6, <1>9, <2>1, <2>2, <2>3, <2>4 DEF Invocation
<1>10. ASSUME NEW r \in Root, NEW by, CreateRow(r, by), ~ThreadBusy PROVE CleanupFence'
  <2>1. \A c \in Run : status'[c] = IF c = r THEN "pending" ELSE status[c]
    BY <1>10 DEF CreateRow, TypeOK
  <2>2. UNCHANGED <<cleanup, worker>>
    BY <1>10 DEF CreateRow
  <2>3. \A c \in Root : status[c] \notin Active /\ ~cleanup[c]
    BY <1>10 DEF ThreadBusy
  <2>4. QED
    BY <1>1, <2>1, <2>2, <2>3 DEF CleanupFence
<1>11. ASSUME NEW r \in Root, CreateChat(r) \/ CreateResume(r) PROVE CleanupFence'
  BY <1>10, <1>11 DEF CreateChat, CreateResume
<1>12. ASSUME NEW t \in Token, NEW c \in Sub, StartSubagent(t, c) PROVE CleanupFence'
  <2>1. \A r \in Root : status'[r] = status[r]
    BY <1>12, RunTypesDisjoint DEF StartSubagent, CreateRow, TypeOK, Root, Run
  <2>2. UNCHANGED <<cleanup, worker>>
    BY <1>12 DEF StartSubagent, CreateRow
  <2>3. QED
    BY <2>1, <2>2 DEF CleanupFence
<1>13. ASSUME NEW r \in Run, RequestCancel(r) PROVE FenceKept
  <2>1. CancelLocked(r) \in [Run -> Status]
    BY DEF CancelLocked, Stopped, TypeOK, Status
  <2>2. \A c \in Run : CancelLocked(r)[c] \in Active => status[c] \in Active
    BY DEF CancelLocked, TypeOK
  <2>3. \A c \in Run : status'[c] \in Active => status[c] \in Active
    BY <1>13, <2>1, <2>2, ClosedIsActive DEF RequestCancel
  <2>4. QED
    BY <1>2, <1>13, <2>3 DEF RequestCancel, TypeOK
<1>14. ASSUME NEW S \in SUBSET Run, ReconcileLeases(S) PROVE FenceKept
  <2> DEFINE below == UNION {Descendants(r) : r \in S}
  <2>1. (\A c \in S : status[c] \in Active) /\ (\A c \in below : status[c] \in Active)
    BY <1>14 DEF ReconcileLeases, Orphaned, Descendants
  <2>2. \A c \in Run : status'[c] = IF c \in S THEN "failed"
                                    ELSE IF c \in below THEN Stopped(c) ELSE status[c]
    BY <1>14 DEF ReconcileLeases
  <2> HIDE DEF below
  <2>3. \A c \in Run : IF c \in S THEN worker'[c] = None
                       ELSE cleanup'[c] = cleanup[c] /\ worker'[c] = worker[c]
    BY <1>14 DEF ReconcileLeases
  <2>4. QED
    BY <1>1, <2>1, <2>2, <2>3 DEF FenceKept, Holds, CleanupFence
<1>15. CASE StorageMigration
  BY <1>1, <1>15 DEF StorageMigration, FenceKept, Holds, CleanupFence
<1>16. ASSUME NEW r \in Root, ReconcileCleanup(r) PROVE FenceKept
  <2>1. UNCHANGED <<status, worker>> /\ cleanup' = [cleanup EXCEPT ![r] = FALSE]
    BY <1>16 DEF ReconcileCleanup, ReleaseRuntime
  <2>2. \A c \in Run : cleanup'[c] => cleanup[c]
    BY <2>1 DEF TypeOK
  <2>3. QED
    BY <1>2, <2>1, <2>2
<1>17. CASE \/ \E t \in Token, r \in Run : Deliver(t, r)
            \/ \E t \in Token : Heartbeat(t) \/ LoseLease(t) \/ Crash(t)
            \/ Tick
            \/ UNCHANGED vars
  <2>1. UNCHANGED <<status, cleanup, worker>>
    BY <1>17 DEF Deliver, Heartbeat, LoseLease, Crash, Tick, rowVars, vars
  <2>2. QED
    BY <2>1 DEF CleanupFence
<1>18. QED
  BY <1>9, <1>11, <1>12, <1>13, <1>14, <1>15, <1>16, <1>17, FenceFollows DEF Next, Root

\* A run that still owes the destruction of its runtime has no owner, and at most one
\* chat or resume run of the thread is active or owes a cleanup.
THEOREM CleanupFenceCorrect == Spec => []CleanupFence
<1>1. Init => TypeOK /\ InvocationShape /\ AttemptMatchesOwner
  BY InitType, NoneIsNoValue DEF Init, InvocationShape, AttemptMatchesOwner
<1>2. Init => CleanupFence
  BY DEF Init, CleanupFence, Root, Run
<1>3. QED
  BY <1>1, <1>2, TypeStep, ShapeStep, OwnerStep, FenceStep, PTL DEF Spec

\* The destruction of a runtime hits nobody who owns a run.
LEMMA ReleaseHitsNoOwner ==
    ASSUME TypeOK, AttemptMatchesOwner, CleanupFence, NEW q \in Run, MayRelease(q),
           NEW t \in Token, job[t] # None, OwnsLive(job[t], t)
    PROVE  FALSE
<1>1. job[t] \in Run /\ t # None /\ status[job[t]] \in Active
  BY NoneIsNoValue DEF TypeOK, AttemptMatchesOwner, OwnsLive
<1>2. job[t] = q
  BY <1>1 DEF MayRelease
<1>3. worker[q] = None
  BY DEF MayRelease, CleanupFence, Root, Run
<1>4. QED
  BY <1>1, <1>2, <1>3 DEF OwnsLive

\* Every step keeps RuntimeOutlivesOwner.
LEMMA RuntimeStep ==
    TypeOK /\ InvocationShape /\ AttemptMatchesOwner /\ CleanupFence /\ RuntimeOutlivesOwner
        /\ [Next]_vars => RuntimeOutlivesOwner'
<1> SUFFICES ASSUME TypeOK, InvocationShape, AttemptMatchesOwner, CleanupFence,
                    RuntimeOutlivesOwner, [Next]_vars
             PROVE  RuntimeOutlivesOwner'
  OBVIOUS
<1>1. ASSUME UNCHANGED <<job, sandbox>>,
             \A r \in Run : \A u \in Token : worker'[r] = u /\ lease'[r] > 0 => OwnsLive(r, u)
      PROVE  RuntimeOutlivesOwner'
  BY <1>1 DEF RuntimeOutlivesOwner, OwnsLive, TypeOK
<1>2. ASSUME UNCHANGED <<job, sandbox, worker, lease>> PROVE RuntimeOutlivesOwner'
  BY <1>2 DEF RuntimeOutlivesOwner, OwnsLive
<1>3. ASSUME NEW t \in Token, NEW r \in Run, NEW st, SetTerminal(r, t, st),
             UNCHANGED <<job, sandbox>>
      PROVE  RuntimeOutlivesOwner'
  BY <1>1, <1>3 DEF SetTerminal, OwnsLive, TypeOK
<1>4. ASSUME NEW t \in Token, NEW st, MarkTerminal(t, st), pc[t] # "idle"
      PROVE  RuntimeOutlivesOwner'
  <2>1. job[t] \in Run
    BY <1>4 DEF InvocationShape, TypeOK
  <2>2. QED
    BY <1>2, <1>3, <1>4, <2>1 DEF MarkTerminal
<1>5. ASSUME NEW t \in Token, NEW st, NEW bound, SaveAndEnd(t, st, bound)
      PROVE  RuntimeOutlivesOwner'
  <2>1. job[t] \in Run
    BY <1>5 DEF SaveAndEnd, InvocationShape, TypeOK
  <2>2. QED
    BY <1>2, <1>3, <1>5, <2>1 DEF SaveAndEnd
<1>6. ASSUME NEW t \in Token, Claim(t) PROVE RuntimeOutlivesOwner'
  <2>1. CASE MayClaim(job[t], t)
    <3>1. /\ worker' = [worker EXCEPT ![job[t]] = t]
          /\ lease'  = [lease EXCEPT ![job[t]] = LeaseTicks]
          /\ UNCHANGED <<job, sandbox>> /\ sandbox[t] = "none"
      BY <1>6, <2>1 DEF Claim, InvocationShape
    <3>2. ASSUME NEW u \in Token \ {t}, job[u] # None, OwnsLive(job[u], u)'
          PROVE  OwnsLive(job[u], u)
      BY <3>1, <3>2 DEF OwnsLive, TypeOK
    <3>3. QED
      BY <3>1, <3>2 DEF RuntimeOutlivesOwner, OwnsLive
  <2>2. CASE ~MayClaim(job[t], t)
    BY <1>2, <1>6, <2>2 DEF Claim
  <2>3. QED
    BY <2>1, <2>2
<1>7. ASSUME NEW q \in Run, MayRelease(q), UNCHANGED <<job, worker, lease>>
      PROVE  RuntimeOutlivesOwner'
  BY <1>7, ReleaseHitsNoOwner DEF RuntimeOutlivesOwner, OwnsLive
<1>8. ASSUME NEW t \in Token, NEW ok, NEW error, RequireCleanup(t, ok, error), pc[t] # "idle"
      PROVE  RuntimeOutlivesOwner'
  <2>1. job[t] \in Run
    BY <1>8 DEF InvocationShape, TypeOK
  <2>2. QED
    BY <1>2, <1>7, <1>8, <2>1 DEF RequireCleanup, KeepRuntime
<1>9. ASSUME NEW t \in Token, Invocation(t) PROVE RuntimeOutlivesOwner'
  <2>1. CASE \/ Prepare(t) \/ ConfirmCancel(t) \/ SavePartialOutput(t)
             \/ \E label \in {"cancelled", "retry", "failing"} : Raise(t, label)
             \/ \E running \in BOOLEAN : WriteAudit(t, running)
             \/ Finally(t) \/ RecloseTree(t)
    BY <1>2, <2>1 DEF Prepare, ConfirmCancel, SavePartialOutput, Raise, WriteAudit, rowVars,
                      Finally, RecloseTree, FinishChildren
  <2>2. CASE CleanupBeforeClaim(t) \/ Settle(t) \/ CleanTerminal(t)
    BY <1>8, <2>2 DEF CleanupBeforeClaim, Settle, CleanTerminal
  <2>3. CASE UseRuntime(t)
    BY <2>3 DEF UseRuntime, rowVars, RuntimeOutlivesOwner, OwnsLive, TypeOK
  <2>4. CASE \/ FinishUserCancel(t) \/ Fail(t)
             \/ \E st \in {"completed", "interrupted", "cancelled"} : EndStream(t, st)
    BY <1>4, <2>4 DEF FinishUserCancel, Fail, EndStream
  <2>5. CASE ReleaseForRetry(t)
    BY <1>1, <1>2, <2>5 DEF ReleaseForRetry, OwnsLive, TypeOK
  <2>6. QED
    BY <1>5, <1>6, <1>9, <2>1, <2>2, <2>3, <2>4, <2>5 DEF Invocation
<1>10. ASSUME NEW t \in Token, NEW r \in Run, Deliver(t, r) PROVE RuntimeOutlivesOwner'
  <2>1. /\ job[t] = None /\ job' = [job EXCEPT ![t] = r]
        /\ UNCHANGED <<worker, lease, sandbox>>
    BY <1>10 DEF Deliver, InvocationShape, rowVars
  <2>2. worker[r] # t
    BY <2>1, NoneIsNoValue DEF AttemptMatchesOwner
  <2>3. QED
    BY <2>1, <2>2 DEF RuntimeOutlivesOwner, OwnsLive, TypeOK
<1>11. CASE \/ \E r \in Chat : CreateChat(r)
            \/ \E r \in Resume : CreateResume(r)
            \/ \E t \in Token, c \in Sub : StartSubagent(t, c)
            \/ \E r \in Run : RequestCancel(r)
            \/ \E t \in Token : LoseLease(t) \/ Crash(t)
            \/ UNCHANGED vars
  BY <1>2, <1>11 DEF CreateChat, CreateResume, StartSubagent, CreateRow, RequestCancel, LoseLease,
                     Crash, rowVars, vars
<1>12. ASSUME NEW t \in Token, Heartbeat(t) PROVE RuntimeOutlivesOwner'
  BY <1>1, <1>12 DEF Heartbeat, OwnsLive, TypeOK
<1>13. CASE Tick
  BY <1>1, <1>13 DEF Tick, OwnsLive, TypeOK
<1>14. ASSUME NEW S \in SUBSET Run, ReconcileLeases(S) PROVE RuntimeOutlivesOwner'
  <2>1. \A r \in Run : worker'[r] = None \/ (worker'[r] = worker[r] /\ lease'[r] = lease[r])
    BY <1>14 DEF ReconcileLeases
  <2>2. UNCHANGED <<job, sandbox>>
    BY <1>14 DEF ReconcileLeases
  <2>3. QED
    BY <1>1, <2>1, <2>2, NoneIsNoValue DEF OwnsLive
<1>15. CASE StorageMigration
  <2>1. \A r \in Run : worker'[r] = None \/ (worker'[r] = worker[r] /\ lease'[r] = lease[r])
    BY <1>15 DEF StorageMigration
  <2>2. UNCHANGED <<job, sandbox>>
    BY <1>15 DEF StorageMigration
  <2>3. QED
    BY <1>1, <2>1, <2>2, NoneIsNoValue DEF OwnsLive
<1>16. ASSUME NEW r \in Root, ReconcileCleanup(r) PROVE RuntimeOutlivesOwner'
  BY <1>7, <1>16 DEF ReconcileCleanup, Run
<1>17. QED
  BY <1>9, <1>10, <1>11, <1>12, <1>13, <1>14, <1>15, <1>16 DEF Next

\* The runtime is never destroyed under an attempt that still owns its run.
THEOREM RuntimeOutlivesOwnerCorrect == Spec => []RuntimeOutlivesOwner
<1>1. Init => TypeOK /\ InvocationShape /\ AttemptMatchesOwner
  BY InitType, NoneIsNoValue DEF Init, InvocationShape, AttemptMatchesOwner
<1>2. Init => CleanupFence /\ RuntimeOutlivesOwner
  BY DEF Init, CleanupFence, RuntimeOutlivesOwner, Root, Run
<1>3. QED
  BY <1>1, <1>2, TypeStep, ShapeStep, OwnerStep, FenceStep, RuntimeStep, PTL DEF Spec
=============================================================================
