----------------------------- MODULE DurableTask -----------------------------
(***************************************************************************)
(* Durable background tasks: the rows of the tasks table, the ARQ messages *)
(* that wake workers up, and the attempts of process_task that own a row   *)
(* through a lease.  Handlers are the domain code of knowledge ingestion,  *)
(* graph building and evaluation; of what they write only one bit is kept: *)
(* whether an intermediate state ("parsing", "generating") is open in the  *)
(* domain tables, for the types whose failure hook has to close it.        *)
(*                                                                         *)
(* Every transaction of task_repository.py locks the task row and is one   *)
(* atomic action.  A decision that process_task or cancel_task takes from  *)
(* an unlocked read is kept (in pc or seen) until the transaction that uses*)
(* it.  The claim takes two steps, because it counts the running tasks     *)
(* under an advisory lock before it locks its row.                         *)
(*                                                                         *)
(* lease[t] counts the ticks until lease_expires_at; 0 is expired or null. *)
(***************************************************************************)
EXTENDS Naturals, FiniteSets

CONSTANTS
    Task,        \* task ids
    Worker,      \* worker slots; each runs one process_task at a time
    None,        \* SQL NULL
    Legacy,      \* tasks with handler_version 0, found by the migration
    Hooked,      \* tasks whose type registers a failure hook
    Retryable,   \* tasks whose type registers retryable exceptions
    Deduped,     \* tasks that share one (type, dedupe_key)
    MaxRunning,  \* DURABLE_TASK_MAX_RUNNING
    MaxAttempts, \* max_attempts of the retryable types; 1 for the others
    LeaseTicks,  \* TASK_LEASE_SECONDS, in ticks
    MaxFaults    \* bound: crashes of attempts in a behaviour

ASSUME NoneIsNoWorker == None \notin Worker
ASSUME RolesAreTasks ==
    /\ Legacy \subseteq Task /\ Hooked \subseteq Task
    /\ Retryable \subseteq Task /\ Deduped \subseteq Task
ASSUME TasksFinite == IsFiniteSet(Task)
ASSUME RegistrySeparates == Retryable \cap Hooked = {}
ASSUME LegacyRowsHaveNoKey == Legacy \cap Deduped = {}
ASSUME LimitsPositive ==
    /\ MaxRunning \in Nat \ {0} /\ MaxAttempts \in Nat \ {0}
    /\ LeaseTicks \in Nat \ {0} /\ MaxFaults \in Nat

VARIABLES
    status,      \* TaskRecord.status; "absent" before, "deleted" after the row
    cancel,      \* TaskRecord.cancel_requested
    owner,       \* TaskRecord.worker_id
    lease,       \* ticks until TaskRecord.lease_expires_at
    attempts,    \* TaskRecord.attempt_count
    keyed,       \* TaskRecord.dedupe_key is set
    open,        \* domain rows that t's failure hook closes are in an intermediate
                 \* state
    wake,        \* an ARQ message for the task is waiting
    seen,        \* what a cancel_task in progress read before the lock
    job,         \* the task a worker slot works on
    pc,          \* where its process_task is
    gate,        \* holder of the "durable-task-capacity" advisory lock
    faults       \* crashes so far

vars == <<status, cancel, owner, lease, attempts, keyed, open, wake, seen, job, pc, gate, faults>>

Terminal == {"success", "failed", "cancelled"}
Active   == {"pending", "running"}

(* process_task: read and decide (cancel or claim), count and claim,        *)
(* run the handler (exec), then commit what it came to.                     *)
Attempt == {"exec", "success", "failing", "retry", "cancelled", "released"}
PC == {"idle", "cancel", "claim", "counted"} \cup Attempt

TypeOK ==
    /\ status   \in [Task -> {"absent", "deleted"} \cup Active \cup Terminal]
    /\ cancel   \in [Task -> BOOLEAN]
    /\ owner    \in [Task -> Worker \cup {None}]
    /\ lease    \in [Task -> 0..LeaseTicks]
    /\ attempts \in [Task -> 0..MaxAttempts]
    /\ keyed    \in [Task -> BOOLEAN]
    /\ open     \in [Task -> BOOLEAN]
    /\ wake     \in [Task -> BOOLEAN]
    /\ seen     \in [Task -> {"none", "pending", "other"}]
    /\ job      \in [Worker -> Task \cup {None}]
    /\ pc       \in [Worker -> PC]
    /\ gate     \in Worker \cup {None}
    /\ faults   \in 0..MaxFaults

\* A legacy row was pending or running, perhaps with a cancellation, when the
\* migration gave it handler_version 0; it has no owner, lease or key.
Init ==
    /\ status \in [Task -> {"absent"} \cup Active]
    /\ \A t \in Task : t \in Legacy <=> status[t] # "absent"
    /\ cancel \in [Task -> BOOLEAN]
    /\ \A t \in Task \ Legacy : ~cancel[t]
    /\ owner    = [t \in Task |-> None]
    /\ lease    = [t \in Task |-> 0]
    /\ attempts = [t \in Task |-> 0]
    /\ keyed    = [t \in Task |-> FALSE]
    /\ open     = [t \in Task |-> t \in Legacy \cap Hooked]
    /\ wake     = [t \in Task |-> FALSE]
    /\ seen     = [t \in Task |-> "none"]
    /\ job      = [w \in Worker |-> None]
    /\ pc       = [w \in Worker |-> "idle"]
    /\ gate     = None
    /\ faults   = 0

-----------------------------------------------------------------------------
(* Rows.                                                                   *)

\* Mutant: the fence is the owner token alone.
OwnerOfRow(t, w) == owner[t] = w

\* _is_live_owner, the fence in front of every write of an attempt.
IsLiveOwner(t, w) == status[t] = "running" /\ owner[t] = w /\ lease[t] > 0

Running == {t \in Task : status[t] = "running"}

\* The failure hook of t's type, run in the transaction that fails t.
FailureHook(t) == open' = [open EXCEPT ![t] = @ /\ t \notin Hooked]

\* A row ends: status, key and execution columns.
EndRow(t, st) ==
    /\ status' = [status EXCEPT ![t] = st]
    /\ keyed'  = [keyed EXCEPT ![t] = FALSE]
    /\ owner'  = [owner EXCEPT ![t] = None]
    /\ lease'  = [lease EXCEPT ![t] = 0]

KeepRow == UNCHANGED <<status, keyed, owner, lease, open>>

Goto(w, label) == pc' = [pc EXCEPT ![w] = label]

\* The attempt is over; the slot takes another message.
Leave(w) == Goto(w, "idle") /\ job' = [job EXCEPT ![w] = None]

-----------------------------------------------------------------------------
(* Users and the API.                                                      *)

\* create_or_get_in_session: a task whose key is held by an active one is not
\* created.  Some types open their domain rows in the same transaction.
CreateTask(t, opens) ==
    /\ status[t] = "absent"
    /\ t \in Deduped => \A o \in Deduped : ~keyed[o]
    /\ opens => t \in Hooked
    /\ status' = [status EXCEPT ![t] = "pending"]
    /\ keyed'  = [keyed EXCEPT ![t] = t \in Deduped]
    /\ open'   = [open EXCEPT ![t] = opens]
    /\ UNCHANGED <<cancel, owner, lease, attempts, wake, seen, job, pc, gate, faults>>

\* cancel_task reads the row without a lock and picks the hook by its status.
ReadForCancel(t) ==
    /\ status[t] \in Active
    /\ seen[t] = "none"
    /\ seen' = [seen EXCEPT ![t] = IF status[t] = "pending" THEN "pending" ELSE "other"]
    /\ UNCHANGED <<status, cancel, owner, lease, attempts, keyed, open, wake, job, pc, gate, faults>>

\* request_cancel under the row lock: a pending row is cancelled, a running one
\* is only marked.
RequestCancel(t, hook) ==
    /\ cancel' = [cancel EXCEPT ![t] = @ \/ status[t] \in Active]
    /\ IF status[t] = "pending"
       THEN /\ EndRow(t, "cancelled")
            /\ IF hook THEN FailureHook(t) ELSE UNCHANGED open
       ELSE KeepRow

CancelTask(t) ==
    /\ seen[t] # "none"
    /\ RequestCancel(t, seen[t] = "pending")
    /\ seen' = [seen EXCEPT ![t] = "none"]
    /\ UNCHANGED <<attempts, wake, job, pc, gate, faults>>

\* prune_terminal and delete_terminal.
DeleteTerminal(t) ==
    /\ status[t] \in Terminal
    /\ status' = [status EXCEPT ![t] = "deleted"]
    /\ UNCHANGED <<cancel, owner, lease, attempts, keyed, open, wake, seen, job, pc, gate, faults>>

-----------------------------------------------------------------------------
(* Publication: after a creation, after each attempt, and in the periodic  *)
(* loop of every worker, from the list of pending rows.                    *)

Publish(t) ==
    /\ status[t] = "pending"
    /\ t \notin Legacy
    /\ wake' = [wake EXCEPT ![t] = TRUE]
    /\ UNCHANGED <<status, cancel, owner, lease, attempts, keyed, open, seen, job, pc, gate, faults>>

\* publish_pending_tasks cannot send a row whose handler version is gone: it
\* carries out its cancellation or fails it, with the hook of its type.
SettleUnbuildable(t) ==
    /\ status[t] = "pending"
    /\ t \in Legacy
    /\ EndRow(t, IF cancel[t] THEN "cancelled" ELSE "failed")
    /\ FailureHook(t)
    /\ UNCHANGED <<cancel, attempts, wake, seen, job, pc, gate, faults>>

-----------------------------------------------------------------------------
(* process_task up to the claim.                                           *)

\* A message reaches a worker, perhaps not for the last time; the row is read
\* without a lock.
Deliver(w, t) ==
    /\ pc[w] = "idle"
    /\ wake[t]
    /\ \E again \in BOOLEAN : wake' = [wake EXCEPT ![t] = again]
    /\ IF status[t] \in Active
       THEN /\ Goto(w, IF cancel[t] THEN "cancel" ELSE "claim")
            /\ job' = [job EXCEPT ![w] = t]
       ELSE UNCHANGED <<pc, job>>
    /\ UNCHANGED <<status, cancel, owner, lease, attempts, keyed, open, seen, gate, faults>>

\* The cancellation that was read is carried out under the lock.
CancelBeforeClaim(w) ==
    /\ pc[w] = "cancel"
    /\ RequestCancel(job[w], TRUE)
    /\ Leave(w)
    /\ UNCHANGED <<attempts, wake, seen, gate, faults>>

\* Mutant: the running tasks are counted without the advisory lock.
CountUnlocked(w) ==
    /\ pc[w] = "claim"
    /\ IF Cardinality(Running) >= MaxRunning
       THEN Leave(w)
       ELSE Goto(w, "counted") /\ UNCHANGED job
    /\ UNCHANGED <<status, cancel, owner, lease, attempts, keyed, open, wake, seen, gate, faults>>

\* claim, first half: the advisory lock, then the count.
CountRunning(w) ==
    /\ pc[w] = "claim"
    /\ gate = None
    /\ IF Cardinality(Running) >= MaxRunning
       THEN Leave(w) /\ UNCHANGED gate
       ELSE Goto(w, "counted") /\ gate' = w /\ UNCHANGED job
    /\ UNCHANGED <<status, cancel, owner, lease, attempts, keyed, open, wake, seen, faults>>

\* claim, second half: the row.
Claim(w) ==
    LET t == job[w] IN
    /\ pc[w] = "counted"
    /\ gate' = IF gate = w THEN None ELSE gate
    /\ IF status[t] = "pending" /\ ~cancel[t]
       THEN /\ status'   = [status EXCEPT ![t] = "running"]
            /\ owner'    = [owner EXCEPT ![t] = w]
            /\ lease'    = [lease EXCEPT ![t] = LeaseTicks]
            /\ attempts' = [attempts EXCEPT ![t] = @ + 1]
            /\ Goto(w, "exec")
            /\ UNCHANGED <<job, keyed>>
       ELSE /\ IF status[t] = "pending"
               THEN EndRow(t, "cancelled")
               ELSE UNCHANGED <<status, owner, lease, keyed>>
            /\ Leave(w)
            /\ UNCHANGED attempts
    /\ UNCHANGED <<cancel, open, wake, seen, faults>>

-----------------------------------------------------------------------------
(* The attempt.                                                            *)

\* Mutant: the domain write is not fenced.
CheckpointUnfenced(w) ==
    /\ pc[w] = "exec"
    /\ job[w] \in Hooked
    /\ open' = [open EXCEPT ![job[w]] = ~@]
    /\ UNCHANGED <<status, cancel, owner, lease, attempts, keyed, wake, seen, job, pc, gate, faults>>

\* run_owned_transaction: the handler opens or closes an intermediate state.
Checkpoint(w) ==
    /\ pc[w] = "exec"
    /\ job[w] \in Hooked
    /\ IsLiveOwner(job[w], w)
    /\ open' = [open EXCEPT ![job[w]] = ~@]
    /\ UNCHANGED <<status, cancel, owner, lease, attempts, keyed, wake, seen, job, pc, gate, faults>>

\* The handler ends: it returns, raises (or times out), raises a retryable
\* exception, saw the durable cancellation, or was cancelled for any other
\* reason (worker shutdown, a lost file owner).
EndHandler(w, label) ==
    /\ pc[w] = "exec"
    /\ label \in Attempt \ {"exec"}
    /\ label = "retry" => job[w] \in Retryable
    /\ label = "cancelled" => cancel[job[w]]
    /\ Goto(w, label)
    /\ UNCHANGED <<status, cancel, owner, lease, attempts, keyed, open, wake, seen, job, gate, faults>>

\* Mutant: the commit is fenced by the owner token only.
FinishByToken(w, label, st, closes) ==
    LET t == job[w] IN
    /\ pc[w] = label
    /\ IF OwnerOfRow(t, w)
       THEN /\ EndRow(t, IF cancel[t] THEN "cancelled" ELSE st)
            /\ IF cancel[t] \/ st # "success" THEN FailureHook(t)
               ELSE open' = [open EXCEPT ![t] = @ /\ ~closes]
       ELSE KeepRow
    /\ Leave(w)
    /\ UNCHANGED <<cancel, attempts, wake, seen, gate, faults>>

\* finish_owned: a requested cancellation overrides what the attempt came to.
\* The success hook, where the type has one, closes the domain state.
FinishOwned(w, label, st, closes) ==
    LET t == job[w] IN
    /\ pc[w] = label
    /\ IF IsLiveOwner(t, w)
       THEN /\ EndRow(t, IF cancel[t] THEN "cancelled" ELSE st)
            /\ IF cancel[t] \/ st # "success" THEN FailureHook(t)
               ELSE open' = [open EXCEPT ![t] = @ /\ ~closes]
       ELSE KeepRow
    /\ Leave(w)
    /\ UNCHANGED <<cancel, attempts, wake, seen, gate, faults>>

Finish(w) ==
    \/ \E closes \in BOOLEAN : FinishOwned(w, "success", "success", closes)
    \/ FinishOwned(w, "failing", "failed", FALSE)
    \/ FinishOwned(w, "cancelled", "cancelled", FALSE)

\* Back to pending with the key kept; requeue_owned clears the execution columns.
BackToPending(t) ==
    /\ status' = [status EXCEPT ![t] = "pending"]
    /\ owner'  = [owner EXCEPT ![t] = None]
    /\ lease'  = [lease EXCEPT ![t] = 0]

\* Mutant: the retry gives the key away.
RequeueWithoutKey(w) ==
    LET t == job[w] IN
    /\ pc[w] = "retry"
    /\ IF ~IsLiveOwner(t, w) THEN UNCHANGED <<status, keyed, owner, lease>>
       ELSE IF cancel[t] THEN EndRow(t, "cancelled")
       ELSE BackToPending(t) /\ keyed' = [keyed EXCEPT ![t] = FALSE]
    /\ Leave(w)
    /\ UNCHANGED <<cancel, attempts, open, wake, seen, gate, faults>>

\* requeue_owned after a retryable exception: cancelled if that was asked for,
\* "exhausted" goes on to _finish_task_failure in a second transaction.
RequeueOwned(w) ==
    LET t == job[w]
        exhausted == attempts[t] >= MaxAttempts IN
    /\ pc[w] = "retry"
    /\ IF ~IsLiveOwner(t, w) THEN UNCHANGED <<status, keyed, owner, lease>> /\ Leave(w)
       ELSE IF cancel[t] THEN EndRow(t, "cancelled") /\ Leave(w)
       ELSE IF exhausted
       THEN UNCHANGED <<status, keyed, owner, lease, job>> /\ Goto(w, "failing")
       ELSE BackToPending(t) /\ UNCHANGED keyed /\ Leave(w)
    /\ UNCHANGED <<cancel, attempts, open, wake, seen, gate, faults>>

\* release_interrupted_owner: an interrupted attempt fails, it is not retried.
ReleaseInterrupted(w) ==
    /\ pc[w] = "released"
    /\ IF IsLiveOwner(job[w], w)
       THEN EndRow(job[w], "failed") /\ FailureHook(job[w])
       ELSE KeepRow
    /\ Leave(w)
    /\ UNCHANGED <<cancel, attempts, wake, seen, gate, faults>>

\* lease_lost: a refused heartbeat or write ends the handler and nothing is
\* committed.
LoseLease(w) ==
    /\ pc[w] = "exec"
    /\ ~IsLiveOwner(job[w], w)
    /\ Leave(w)
    /\ UNCHANGED <<status, cancel, owner, lease, attempts, keyed, open, wake, seen, gate, faults>>

\* The process dies, or a database error ends the attempt: an open transaction
\* is rolled back, which frees the advisory lock.
Crash(w) ==
    /\ pc[w] # "idle"
    /\ faults < MaxFaults
    /\ faults' = faults + 1
    /\ gate' = IF gate = w THEN None ELSE gate
    /\ Leave(w)
    /\ UNCHANGED <<status, cancel, owner, lease, attempts, keyed, open, wake, seen>>

-----------------------------------------------------------------------------
(* Leases.                                                                 *)

Tick ==
    /\ \E t \in Task : lease[t] > 0
    /\ lease' = [t \in Task |-> IF lease[t] > 0 THEN lease[t] - 1 ELSE 0]
    /\ UNCHANGED <<status, cancel, owner, attempts, keyed, open, wake, seen, job, pc, gate, faults>>

\* Mutant: the renewal is added to what is left of the lease.
HeartbeatAdds(w) ==
    /\ pc[w] \in Attempt
    /\ IsLiveOwner(job[w], w)
    /\ lease' = [lease EXCEPT ![job[w]] = @ + LeaseTicks]
    /\ UNCHANGED <<status, cancel, owner, attempts, keyed, open, wake, seen, job, pc, gate, faults>>

\* _heartbeat_task renews from the claim until the attempt is over.
Heartbeat(w) ==
    /\ pc[w] \in Attempt
    /\ IsLiveOwner(job[w], w)
    /\ lease' = [lease EXCEPT ![job[w]] = LeaseTicks]
    /\ UNCHANGED <<status, cancel, owner, attempts, keyed, open, wake, seen, job, pc, gate, faults>>

\* Mutant: an expired task is given another attempt.
ReconcileToPending(S) ==
    /\ S # {}
    /\ \A t \in S : status[t] = "running" /\ lease[t] = 0
    /\ status' = [t \in Task |-> IF t \in S THEN "pending" ELSE status[t]]
    /\ owner'  = [t \in Task |-> IF t \in S THEN None ELSE owner[t]]
    /\ UNCHANGED <<cancel, lease, attempts, keyed, open, wake, seen, job, pc, gate, faults>>

\* Mutant: only rows that have an owner are selected, so a null lease is not.
ReconcileOwned(S) ==
    /\ S # {}
    /\ \A t \in S : status[t] = "running" /\ lease[t] = 0 /\ owner[t] # None
    /\ status' = [t \in Task |-> IF t \in S THEN "failed" ELSE status[t]]
    /\ owner'  = [t \in Task |-> IF t \in S THEN None ELSE owner[t]]
    /\ keyed'  = [t \in Task |-> keyed[t] /\ t \notin S]
    /\ open'   = [t \in Task |-> open[t] /\ t \notin S \cap Hooked]
    /\ UNCHANGED <<cancel, lease, attempts, wake, seen, job, pc, gate, faults>>

\* reconcile_expired_leases, for the rows it could lock: always "failed", because
\* what the lost attempt did outside the database is unknown.
ReconcileLeases(S) ==
    /\ S # {}
    /\ \A t \in S : status[t] = "running" /\ lease[t] = 0
    /\ status' = [t \in Task |-> IF t \in S THEN "failed" ELSE status[t]]
    /\ owner'  = [t \in Task |-> IF t \in S THEN None ELSE owner[t]]
    /\ keyed'  = [t \in Task |-> keyed[t] /\ t \notin S]
    /\ open'   = [t \in Task |-> open[t] /\ t \notin S \cap Hooked]
    /\ UNCHANGED <<cancel, lease, attempts, wake, seen, job, pc, gate, faults>>

-----------------------------------------------------------------------------
EndAttempt(w) ==
    \/ \E label \in Attempt : EndHandler(w, label)
    \/ Finish(w)
    \/ RequeueOwned(w)
    \/ ReleaseInterrupted(w)
    \/ LoseLease(w)

ClaimStep(w) == CancelBeforeClaim(w) \/ CountRunning(w) \/ Claim(w)

Next ==
    \/ \E t \in Task, opens \in BOOLEAN : CreateTask(t, opens)
    \/ \E t \in Task : ReadForCancel(t)
    \/ \E t \in Task : CancelTask(t)
    \/ \E t \in Task : DeleteTerminal(t)
    \/ \E t \in Task : Publish(t)
    \/ \E t \in Task : SettleUnbuildable(t)
    \/ \E w \in Worker, t \in Task : Deliver(w, t)
    \/ \E w \in Worker : ClaimStep(w)
    \/ \E w \in Worker : Checkpoint(w)
    \/ \E w \in Worker : EndAttempt(w)
    \/ \E w \in Worker : Crash(w)
    \/ Tick
    \/ \E w \in Worker : Heartbeat(w)
    \/ \E S \in SUBSET Task : ReconcileLeases(S)

Spec == Init /\ [][Next]_vars

(* Fairness.  The periodic loop of every worker publishes each pending row    *)
(* and reconciles; ARQ serves its waiting jobs in order, so a message is      *)
(* delivered once slots keep becoming free; a transaction ends; a handler     *)
(* ends, because process_task bounds it by timeout_seconds; time passes.      *)
(* Nobody has to create or cancel, and no heartbeat has to come in time.      *)
Fairness ==
    /\ WF_vars(Tick)
    /\ WF_vars(\E S \in SUBSET Task : ReconcileLeases(S))
    /\ \A t \in Task :
        /\ WF_vars(Publish(t))
        /\ WF_vars(SettleUnbuildable(t))
        /\ SF_vars(\E w \in Worker : Deliver(w, t))
    /\ \A w \in Worker : SF_vars(ClaimStep(w)) /\ WF_vars(EndAttempt(w))

FairSpec == Spec /\ Fairness

-----------------------------------------------------------------------------
(* Properties.                                                             *)

\* The claims of all workers together never exceed DURABLE_TASK_MAX_RUNNING,
\* although each one counts first and updates its row later.
CapacityBounded == Cardinality(Running \ Legacy) <= MaxRunning

\* A handler is never started while an earlier attempt may still be running it:
\* what an attempt works on is its own running task or one that has ended, never
\* a row that is pending or has a new owner, whatever leases expired meanwhile.
OneExecution ==
    \A w \in Worker : pc[w] \in Attempt =>
        /\ status[job[w]] \notin {"absent", "pending"}
        /\ status[job[w]] = "running" => owner[job[w]] = w

\* Among the tasks of one (type, dedupe_key) at most one is active, also in the
\* gap between an attempt and its retry.
OneTaskPerKey ==
    \A a, b \in Deduped : status[a] \in Active /\ status[b] \in Active => a = b

\* A failed or cancelled task leaves no intermediate domain state behind,
\* whichever of the six paths ended it and whatever a late attempt still writes.
FailureConverged ==
    \A t \in Hooked : status[t] \in {"failed", "cancelled"} => ~open[t]

\* Once a cancellation is recorded the task neither succeeds nor gets another
\* attempt.
CancelHonoured ==
    [][\A t \in Task : cancel[t] /\ status[t] \in Active =>
          status'[t] \in {status[t], "failed", "cancelled"}]_vars

\* A late result is refused: once the lease of an attempt has run out its task
\* can only fail, nothing the attempt commits counts and no heartbeat revives it.
ExpiredOnlyFails ==
    [][\A t \in Task : status[t] = "running" /\ lease[t] = 0 =>
          \/ status'[t] = "failed"
          \/ status'[t] = "running" /\ lease'[t] = 0 /\ open'[t] = open[t]]_vars

\* Tasks live as the code that enqueues them expects (TaskLife), whatever workers,
\* messages, leases, the advisory lock and the unlocked reads do in between: the one
\* task of a key, the capacity, no attempt for a task told to stop, no result of a
\* late attempt, and a hook in every step that ends a task without success.
Life == INSTANCE TaskLife WITH
    state <- [t \in Task |-> IF status[t] = "running" /\ lease[t] = 0 THEN "lost" ELSE status[t]],
    told  <- cancel,
    tries <- attempts

ImplementsTaskLife == Life!Spec

\* Every task ends, also if its messages find no free slot, its worker dies or
\* its handler keeps failing.
TaskSettles ==
    \A t \in Task : status[t] \in Active ~> status[t] \notin Active
=============================================================================
