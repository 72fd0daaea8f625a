--------------------------- MODULE ScheduledAgent ---------------------------
(***************************************************************************)
(* One scheduled agent job of a user: its row, the triggers                *)
(* (scheduled_agent_runs) that the worker loop claims when it is due or    *)
(* that the user starts by hand, and the dispatch that submits each        *)
(* trigger as a request.                                                   *)
(*                                                                         *)
(* Every operation on the job holds its row lock until its only commit and *)
(* is one action.  A dispatch is several transactions: the trigger row is  *)
(* locked and read, the commit inside submit_run_command writes the        *)
(* request and drops that lock, and a second commit records "submitted".   *)
(*                                                                         *)
(* A request is absent, active (queued, or dispatched with a run that has  *)
(* not ended) or ended: its own life is RequestQueue and AgentRun.  The    *)
(* cron expression is any rule that names a later instant.                 *)
(***************************************************************************)
EXTENDS Naturals, FiniteSets

CONSTANTS
    Manual,      \* request ids of "run now"
    Proc,        \* dispatchers: worker loops and "run now" handlers
    None,        \* no trigger
    MaxClock,    \* bound: the last instant that is reached
    MaxFaults    \* bound: crashes and database or Redis errors in a behaviour

Slot    == 1..MaxClock          \* an occurrence is named by its scheduled_for
Trigger == Slot \cup Manual

ASSUME ManualIsNoSlot == Manual \cap Slot = {} /\ None \notin Trigger
ASSUME BoundsAreCounts == MaxClock \in Nat \ {0} /\ MaxFaults \in Nat

VARIABLES
    account,     \* the user and with it the job and trigger rows exist
    enabled,     \* ScheduledAgentJob.enabled
    deleted,     \* ScheduledAgentJob.deleted_at is set
    next,        \* ScheduledAgentJob.next_run_at
    trigger,     \* ScheduledAgentRun.status, "absent" without a row
    request,     \* the AgentRunRequest of the trigger and its run
    pc, at,      \* where dispatch_scheduled_run of a process is, and its trigger
    clock,       \* utc_now
    faults,      \* faults so far
    floor,       \* history: the last instant the job was enabled or claimed
    hidden       \* history: triggers cancelled although their request exists

jobVars == <<account, enabled, deleted, next>>
vars == <<account, enabled, deleted, next, trigger, request, pc, at, clock, faults,
          floor, hidden>>

TypeOK ==
    /\ account \in BOOLEAN /\ enabled \in BOOLEAN /\ deleted \in BOOLEAN
    /\ next    \in 1..(MaxClock + 1)
    /\ trigger \in [Trigger -> {"absent", "skipped", "dispatching", "submitted", "failed",
                                "cancelled"}]
    /\ request \in [Trigger -> {"absent", "active", "ended"}]
    /\ pc      \in [Proc -> {"idle", "dispatch", "intake", "mark", "refused", "error"}]
    /\ at      \in [Proc -> Trigger \cup {None}]
    /\ clock   \in 0..MaxClock
    /\ faults  \in 0..MaxFaults
    /\ floor   \in 0..MaxClock
    /\ hidden  \in SUBSET Trigger

\* create_scheduled_job at instant 0.
Init ==
    /\ account = TRUE
    /\ enabled \in BOOLEAN
    /\ deleted = FALSE
    /\ next    \in Slot
    /\ trigger = [t \in Trigger |-> "absent"]
    /\ request = [t \in Trigger |-> "absent"]
    /\ pc      = [p \in Proc |-> "idle"]
    /\ at      = [p \in Proc |-> None]
    /\ clock   = 0
    /\ faults  = 0
    /\ floor   = 0
    /\ hidden  = {}

-----------------------------------------------------------------------------
\* next_run_at: croniter.get_next, always after now.
NextRunAt == {s \in 1..(MaxClock + 1) : s > clock}

\* Mutant: only triggers still being dispatched count.
HasActiveDispatching == \E t \in Trigger : trigger[t] = "dispatching"

\* has_active_run: a trigger being dispatched, or a submitted one whose request
\* is missing or not finished.
HasActiveRun ==
    \E t \in Trigger :
        \/ trigger[t] = "dispatching"
        \/ trigger[t] = "submitted" /\ request[t] # "ended"

\* _new_scheduled_run: the status of a new trigger.
NewStatus == IF HasActiveRun THEN "skipped" ELSE "dispatching"

\* The row lock of a trigger, held by a dispatch until the intake commit.
Locked(t) == \E p \in Proc : pc[p] = "intake" /\ at[p] = t

Goto(p, step) ==
    /\ pc' = [pc EXCEPT ![p] = step]
    /\ at' = IF step = "idle" THEN [at EXCEPT ![p] = None] ELSE at

Start(p, t) ==
    /\ pc' = [pc EXCEPT ![p] = "dispatch"]
    /\ at' = [at EXCEPT ![p] = t]

Fault == faults < MaxFaults /\ faults' = faults + 1

-----------------------------------------------------------------------------
(* The job row.                                                            *)

\* Mutant: enabling keeps the instant computed before the pause.
UpdateKeepsNext(on, changed) ==
    /\ account /\ ~deleted
    /\ enabled' = on
    /\ IF changed THEN next' \in NextRunAt ELSE UNCHANGED next
    /\ floor' = IF on /\ ~enabled THEN clock ELSE floor
    /\ UNCHANGED <<account, deleted, trigger, request, pc, at, clock, faults, hidden>>

\* update_scheduled_job: a changed schedule and a job switched on again compute
\* the next instant from now.
UpdateJob(on, changed) ==
    /\ account /\ ~deleted
    /\ enabled' = on
    /\ IF changed \/ (on /\ ~enabled) THEN next' \in NextRunAt ELSE UNCHANGED next
    /\ floor' = IF on /\ ~enabled THEN clock ELSE floor
    /\ UNCHANGED <<account, deleted, trigger, request, pc, at, clock, faults, hidden>>

\* delete_scheduled_job: a soft delete.
DeleteJob ==
    /\ account /\ ~deleted
    /\ enabled' = FALSE
    /\ deleted' = TRUE
    /\ UNCHANGED <<account, next, trigger, request, pc, at, clock, faults, floor, hidden>>

\* soft_delete of the user: the job rows go and the triggers with them.  A dispatch
\* locks the user row until its intake commit.
DeleteAccount ==
    /\ account
    /\ \A p \in Proc : pc[p] # "intake"
    /\ account' = FALSE
    /\ trigger' = [t \in Trigger |-> "absent"]
    /\ UNCHANGED <<enabled, deleted, next, request, pc, at, clock, faults, floor, hidden>>

\* claim_due_job has a row to lock.
Due == account /\ enabled /\ ~deleted /\ next <= clock

\* _claim_due_run: advance the plan and record the occurrence in one transaction.
\* A plan without a next instant switches the job off.
ClaimDueRun(p) ==
    /\ pc[p] = "idle"
    /\ Due
    /\ \/ /\ next' \in NextRunAt
          /\ trigger' = [trigger EXCEPT ![next] = NewStatus]
          /\ IF NewStatus = "dispatching" THEN Start(p, next) ELSE UNCHANGED <<pc, at>>
          /\ floor' = clock
          /\ UNCHANGED enabled
       \/ enabled' = FALSE /\ UNCHANGED <<next, trigger, pc, at, floor>>
    /\ UNCHANGED <<account, deleted, request, clock, faults, hidden>>

\* run_scheduled_job_now: the first call with a request id records the trigger,
\* a repeated one dispatches it again if it is still open.
RunNow(p, m) ==
    /\ pc[p] = "idle"
    /\ account /\ ~deleted
    /\ IF trigger[m] = "absent"
       THEN /\ trigger' = [trigger EXCEPT ![m] = NewStatus]
            /\ IF NewStatus = "dispatching" THEN Start(p, m) ELSE UNCHANGED <<pc, at>>
       ELSE /\ trigger[m] = "dispatching"
            /\ Start(p, m)
            /\ UNCHANGED trigger
    /\ UNCHANGED <<jobVars, request, clock, faults, floor, hidden>>

\* Mutant: recovery only looks at scheduled triggers.
RecoverScheduled(p, t) ==
    /\ pc[p] = "idle"
    /\ t \in Slot
    /\ trigger[t] = "dispatching"
    /\ Start(p, t)
    /\ UNCHANGED <<jobVars, trigger, request, clock, faults, floor, hidden>>

\* recover_scheduled_dispatches picks a trigger of at least 30 s; that much may pass
\* between any two steps of a slow dispatch.
Recover(p, t) ==
    /\ pc[p] = "idle"
    /\ trigger[t] = "dispatching"
    /\ Start(p, t)
    /\ UNCHANGED <<jobVars, trigger, request, clock, faults, floor, hidden>>

-----------------------------------------------------------------------------
(* dispatch_scheduled_run of process p.                                    *)

\* A scheduled trigger of a job that was switched off or deleted is not wanted.
Unwanted(t) == t \in Slot /\ (~enabled \/ deleted)

\* Lock the trigger and look at it, the job and the user.  A project or agent that
\* is gone is an HTTPException, a broken connection any other.
Dispatch(p) ==
    LET t == at[p] IN
    /\ pc[p] = "dispatch"
    /\ ~Locked(t)
    /\ \/ /\ trigger[t] # "dispatching"
          /\ Goto(p, "idle")
          /\ UNCHANGED <<trigger, faults, hidden>>
       \/ /\ trigger[t] = "dispatching" /\ Unwanted(t)
          /\ trigger' = [trigger EXCEPT ![t] = "cancelled"]
          /\ hidden' = IF request[t] # "absent" THEN hidden \cup {t} ELSE hidden
          /\ Goto(p, "idle")
          /\ UNCHANGED faults
       \/ /\ trigger[t] = "dispatching" /\ ~Unwanted(t)
          /\ \/ Goto(p, "intake") /\ UNCHANGED faults
             \/ Goto(p, "refused") /\ UNCHANGED faults
             \/ Goto(p, "error") /\ Fault
          /\ UNCHANGED <<trigger, hidden>>
    /\ UNCHANGED <<jobVars, request, clock, floor>>

\* submit_run_command up to its commit: a request id that exists is answered from
\* its row.  Afterwards the workdir or ARQ may still fail.
Intake(p) ==
    LET t == at[p] IN
    /\ pc[p] = "intake"
    /\ \/ /\ request' = [request EXCEPT ![t] = IF @ = "absent" THEN "active" ELSE @]
          /\ \/ Goto(p, "mark") /\ UNCHANGED faults
             \/ Goto(p, "error") /\ Fault
       \/ Goto(p, "refused") /\ UNCHANGED <<request, faults>>
       \/ Goto(p, "error") /\ Fault /\ UNCHANGED request
    /\ UNCHANGED <<jobVars, trigger, clock, floor, hidden>>

\* The second commit: "submitted", whatever the row says by now.  A row that is gone
\* fails the update.
Mark(p) ==
    LET t == at[p] IN
    /\ pc[p] = "mark"
    /\ \/ /\ trigger[t] # "absent"
          /\ ~Locked(t)
          /\ trigger' = [trigger EXCEPT ![t] = "submitted"]
          /\ Goto(p, "idle")
          /\ UNCHANGED faults
       \/ trigger[t] = "absent" /\ Goto(p, "error") /\ UNCHANGED <<trigger, faults>>
       \/ Goto(p, "error") /\ Fault /\ UNCHANGED trigger
    /\ UNCHANGED <<jobVars, request, clock, floor, hidden>>

\* Mutant: an error ends the trigger without a look at its request.
SettleUnchecked(p) ==
    LET t == at[p] IN
    /\ pc[p] \in {"refused", "error"}
    /\ ~Locked(t)
    /\ trigger' = IF trigger[t] = "dispatching" THEN [trigger EXCEPT ![t] = "failed"] ELSE trigger
    /\ Goto(p, "idle")
    /\ UNCHANGED <<jobVars, request, clock, faults, floor, hidden>>

\* Mutant: the reason is written as the status.
SettleWithReason(p) ==
    LET t == at[p] IN
    /\ pc[p] \in {"refused", "error"}
    /\ ~Locked(t)
    /\ trigger' = IF trigger[t] = "dispatching" THEN [trigger EXCEPT ![t] = pc[p]] ELSE trigger
    /\ Goto(p, "idle")
    /\ UNCHANGED <<jobVars, request, clock, faults, floor, hidden>>

\* _settle_dispatch_error: under the lock, an open trigger with a request was
\* submitted; without one, only a refusal is final.
Settle(p) ==
    LET t == at[p] IN
    /\ pc[p] \in {"refused", "error"}
    /\ ~Locked(t)
    /\ trigger' = IF trigger[t] # "dispatching" THEN trigger
                  ELSE IF request[t] # "absent" THEN [trigger EXCEPT ![t] = "submitted"]
                  ELSE IF pc[p] = "refused" THEN [trigger EXCEPT ![t] = "failed"]
                  ELSE trigger
    /\ Goto(p, "idle")
    /\ UNCHANGED <<jobVars, request, clock, faults, floor, hidden>>

\* The process dies; an open transaction is rolled back.
Crash(p) ==
    /\ pc[p] # "idle"
    /\ Fault
    /\ Goto(p, "idle")
    /\ UNCHANGED <<jobVars, trigger, request, clock, floor, hidden>>

-----------------------------------------------------------------------------
(* The rest of the world.                                                  *)

\* The request is cancelled in the queue, or its run ends.
RequestEnds(t) ==
    /\ request[t] = "active"
    /\ request' = [request EXCEPT ![t] = "ended"]
    /\ UNCHANGED <<jobVars, trigger, pc, at, clock, faults, floor, hidden>>

Tick ==
    /\ clock < MaxClock
    /\ clock' = clock + 1
    /\ UNCHANGED <<jobVars, trigger, request, pc, at, faults, floor, hidden>>

-----------------------------------------------------------------------------
DispatchStep(p) == Dispatch(p) \/ Intake(p) \/ Mark(p) \/ Settle(p)

Next ==
    \/ \E on, changed \in BOOLEAN : UpdateJob(on, changed)
    \/ DeleteJob
    \/ DeleteAccount
    \/ \E p \in Proc : ClaimDueRun(p)
    \/ \E p \in Proc, t \in Trigger : Recover(p, t)
    \/ \E p \in Proc, m \in Manual : RunNow(p, m)
    \/ \E p \in Proc : DispatchStep(p)
    \/ \E p \in Proc : Crash(p)
    \/ \E t \in Trigger : RequestEnds(t)
    \/ Tick

Spec == Init /\ [][Next]_vars

(* Fairness.  The loop of every worker recovers open triggers and claims due  *)
(* jobs in turn, and a live process carries its dispatch on.  No user acts    *)
(* and no run has to end.                                                     *)
Fairness ==
    /\ \A t \in Trigger : WF_vars(\E p \in Proc : Recover(p, t))
    /\ WF_vars(\E p \in Proc : ClaimDueRun(p))
    /\ \A p \in Proc : WF_vars(DispatchStep(p))

FairSpec == Spec /\ Fairness

-----------------------------------------------------------------------------
(* Properties.                                                             *)

\* Something is or will be executing for trigger t.
Live(t) == trigger[t] = "dispatching" \/ request[t] = "active"

\* The triggers of a job do not overlap: claims and "run now" decide under the row
\* lock of the job, although requests are submitted and runs end without it.  The
\* triggers that a recovery cancelled after their request was written are left out
\* (see NoOverlap).
OneLiveTrigger ==
    account => \A t, u \in Trigger \ hidden : Live(t) /\ Live(u) => t = u

\* What the trigger row says of the submission is true: a failed or skipped trigger
\* never has a request that runs after all, a submitted one always has its request,
\* whichever of several dispatches of the same trigger wrote the row last.
TriggerTellsTruth ==
    \A t \in Trigger :
        /\ trigger[t] \in {"failed", "skipped"} => request[t] = "absent"
        /\ trigger[t] = "submitted" => request[t] # "absent"

\* Missed instants are merged and a pause is not made up for: an occurrence is
\* created only for an instant after the last claim and the last enabling.
NoBackfill ==
    [][\A s \in Slot : trigger[s] = "absent" /\ trigger'[s] # "absent" => s > floor]_vars

\* No trigger is lost: whatever failed between the claim and the submission, it is
\* submitted, refused or cancelled in the end.
TriggerSettles ==
    \A t \in Trigger : trigger[t] = "dispatching" ~> trigger[t] # "dispatching"

\* Decision 2026-08-26: while an earlier request or run of the job has not ended, a
\* new occurrence is recorded as skipped, so two never execute together.
NoOverlap ==
    \A t, u \in Trigger : request[t] = "active" /\ request[u] = "active" => t = u
=============================================================================
