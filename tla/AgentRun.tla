------------------------------ MODULE AgentRun ------------------------------
(***************************************************************************)
(* The AgentRun lifecycle of one execution scope: the agent_runs rows of   *)
(* one conversation thread (chat and resume runs) and of the subagent runs *)
(* they start, the attempts that own them, and the process_agent_run       *)
(* invocations of the workers.                                             *)
(*                                                                         *)
(* Every database transaction of agent_run_repository.py and run_worker.py *)
(* is one atomic action (each locks the Run row first).  What a worker     *)
(* reads in one transaction and uses in the next is kept in its program    *)
(* counter pc, so everything else interleaves between the two.             *)
(*                                                                         *)
(* Time is relative: lease[r] counts the ticks until lease_expires_at, and *)
(* 0 stands for "expired or null", which no guard in the code tells apart. *)
(***************************************************************************)
EXTENDS Naturals, FiniteSets

CONSTANTS
    Chat,        \* runs with run_type "chat"
    Resume,      \* runs with run_type "resume"
    Sub,         \* runs with run_type "subagent"
    Token,       \* owner tokens: one per process_agent_run invocation
    None,        \* SQL NULL
    LeaseTicks   \* RUN_LEASE_SECONDS, in ticks

Root == Chat \cup Resume
Run  == Root \cup Sub

ASSUME RunTypesDisjoint ==
    /\ Chat \cap Resume = {} /\ Chat \cap Sub = {} /\ Resume \cap Sub = {}
ASSUME NoneIsNoValue == None \notin Run /\ None \notin Token
ASSUME LeaseIsPositive == LeaseTicks \in Nat \ {0}

VARIABLES
    status,      \* AgentRun.status, "absent" before the row exists
    worker,      \* AgentRun.worker_id
    lease,       \* ticks until AgentRun.lease_expires_at
    started,     \* AgentRun.started_at is set
    cleanup,     \* AgentRun.runtime_cleanup_pending
    output,      \* AgentRun.output_message_id is bound
    audit,       \* a model or tool audit message of the run is "running"
    creator,     \* AgentRun.created_by_run_id
    latest,      \* the newest chat/resume run of the thread
    outcome,     \* AgentRunAttempt.outcome of the attempt that a token opened
    job,         \* the run an invocation was started for
    pc,          \* where an invocation of process_agent_run is
    sandbox,     \* what became of the runtime an invocation acquired
    asked        \* history: the chat and resume runs a user asked to cancel

rowVars  == <<status, worker, lease, started, cleanup, output, audit, creator, latest>>
vars == <<status, worker, lease, started, cleanup, output, audit, creator, latest,
          outcome, job, pc, sandbox, asked>>

Terminal == {"completed", "failed", "cancelled", "interrupted"}
Leased   == {"running", "cancel_requested"}
Active   == {"pending"} \cup Leased

Outcome  == {"none", "open", "retry_released", "lease_expired"} \cup Terminal

(* Program counter of process_agent_run, in the order of its body:         *)
(*   cleanup        retry cleanup before the claim                         *)
(*   claim          about to call mark_running                             *)
(*   prepare        validation and manifest                                *)
(*   exec           consuming the stream                                   *)
(*   cancelled      inside except CancelledError, before the durable read  *)
(*   retry          inside the retryable handler, before the durable read  *)
(*   confirmed      cancellation confirmed, about to commit "cancelled"    *)
(*   release, retry_release   about to give the lease back                 *)
(*   failing        about to commit "failed"                               *)
(*   settle         terminal or released: about to clean the runtime       *)
(*   children       the finally block                                      *)
(*   reclose, reclean   a delivery that found the run terminal             *)
PC == {"idle", "cleanup", "claim", "prepare", "exec", "cancelled", "retry", "confirmed",
       "release", "retry_release", "failing", "settle", "children", "reclose", "reclean",
       "done"}

TypeOK ==
    /\ status  \in [Run -> {"absent"} \cup Active \cup Terminal]
    /\ worker  \in [Run -> Token \cup {None}]
    /\ lease   \in [Run -> 0..LeaseTicks]
    /\ started \in [Run -> BOOLEAN]
    /\ cleanup \in [Run -> BOOLEAN]
    /\ output  \in [Run -> BOOLEAN]
    /\ audit   \in [Run -> BOOLEAN]
    /\ creator \in [Run -> Run \cup {None}]
    /\ latest  \in Root \cup {None}
    /\ outcome \in [Token -> Outcome]
    /\ job     \in [Token -> Run \cup {None}]
    /\ pc      \in [Token -> PC]
    /\ sandbox \in [Token -> {"none", "held", "gone"}]
    /\ asked   \in SUBSET Root

Init ==
    /\ status  = [r \in Run |-> "absent"]
    /\ worker  = [r \in Run |-> None]
    /\ lease   = [r \in Run |-> 0]
    /\ started = [r \in Run |-> FALSE]
    /\ cleanup = [r \in Run |-> FALSE]
    /\ output  = [r \in Run |-> FALSE]
    /\ audit   = [r \in Run |-> FALSE]
    /\ creator = [r \in Run |-> None]
    /\ latest  = None
    /\ outcome = [t \in Token |-> "none"]
    /\ job     = [t \in Token |-> None]
    /\ pc      = [t \in Token |-> "idle"]
    /\ sandbox = [t \in Token |-> "none"]
    /\ asked   = {}

-----------------------------------------------------------------------------
(* Row predicates and row updates shared by the transactions.              *)

\* A live lease of exactly this attempt.
OwnsLive(r, t) == worker[r] = t /\ lease[r] > 0

\* Mutant: the fence compares the owner token and forgets the expiry.
IsOwnerEvenExpired(r, t) == status[r] = "running" /\ worker[r] = t

\* _require_lease_owner: the fence in front of every output, audit, manifest
\* and memory write.
IsLeaseOwner(r, t) == status[r] = "running" /\ OwnsLive(r, t)

\* Mutant: a run that was given back for a retry counts as never started.
NeverOwned(r) == status[r] = "pending" /\ worker[r] = None

\* A queued delivery that no attempt ever claimed.
NeverStarted(r) == status[r] = "pending" /\ worker[r] = None /\ ~started[r]

\* The active descendants cancel_active_execution_tree_descendants reaches
\* from r by following created_by_run_id through active rows.  Two levels are
\* all there is: the creator of a resume run is terminal and subagents start
\* nothing.
Descendants(r) ==
    {c \in Run :
        /\ r \notin Sub
        /\ status[c] \in Active
        /\ \/ creator[c] = r
           \/ \E p \in Run : creator[p] = r /\ status[p] \in Active /\ creator[c] = p}

\* What an active row becomes when it is told to stop.
Stopped(c) == IF NeverStarted(c) THEN "cancelled" ELSE "cancel_requested"

\* The row statuses after the tree below r is closed, written over st.
CloseTree(st, r) ==
    [c \in Run |-> IF c \in Descendants(r) THEN Stopped(c) ELSE st[c]]

\* Mutant: a thread is free as soon as no run is active.
ThreadBusyIgnoringCleanup == \E r \in Root : status[r] \in Active

\* get_active_run_by_thread_for_user: a non-terminal run of the thread, or one
\* whose runtime still has to be released.
ThreadBusy == \E r \in Root : status[r] \in Active \/ cleanup[r]

\* _close_open_attempts / _finish_open_attempt.
FinishAttempts(r, out) ==
    [t \in Token |-> IF job[t] = r /\ outcome[t] = "open" THEN out ELSE outcome[t]]

\* What set_terminal_status accepts from attempt t.
MaySetTerminal(r, t, st) ==
    /\ status[r] \in Leased
    /\ OwnsLive(r, t)
    /\ (status[r] = "cancel_requested") <=> (st = "cancelled")
    /\ st = "completed" => output[r]

\* Mutant: the terminal transaction leaves the attempt open.
SetTerminalWithoutAttempt(r, t, st) ==
    /\ status'  = CloseTree([status EXCEPT ![r] = st], r)
    /\ worker'  = [worker EXCEPT ![r] = None]
    /\ lease'   = [lease EXCEPT ![r] = 0]
    /\ cleanup' = [cleanup EXCEPT ![r] = r \notin Sub]
    /\ audit'   = [audit EXCEPT ![r] = FALSE]
    /\ UNCHANGED outcome

\* Mutant: the tree is left to the finally block, in a transaction of its own.
SetTerminalWithoutTree(r, t, st) ==
    /\ status'  = [status EXCEPT ![r] = st]
    /\ worker'  = [worker EXCEPT ![r] = None]
    /\ lease'   = [lease EXCEPT ![r] = 0]
    /\ cleanup' = [cleanup EXCEPT ![r] = r \notin Sub]
    /\ audit'   = [audit EXCEPT ![r] = FALSE]
    /\ outcome' = [outcome EXCEPT ![t] = st]

\* set_terminal_status and the tree closing that every caller puts in the same
\* transaction.  The attempt outcome is the run status.
SetTerminal(r, t, st) ==
    /\ status'  = CloseTree([status EXCEPT ![r] = st], r)
    /\ worker'  = [worker EXCEPT ![r] = None]
    /\ lease'   = [lease EXCEPT ![r] = 0]
    /\ cleanup' = [cleanup EXCEPT ![r] = r \notin Sub]
    /\ audit'   = [audit EXCEPT ![r] = FALSE]
    /\ outcome' = [outcome EXCEPT ![t] = st]

Goto(t, label) == pc' = [pc EXCEPT ![t] = label]

-----------------------------------------------------------------------------
(* Runs are created.                                                       *)

\* A new row: create_run.
CreateRow(r, by) ==
    /\ status[r] = "absent"
    /\ status'  = [status EXCEPT ![r] = "pending"]
    /\ creator' = [creator EXCEPT ![r] = by]
    /\ UNCHANGED <<worker, lease, started, cleanup, output, audit,
                   outcome, job, pc, sandbox, asked>>

\* The request queue dispatches its head on a thread that is not busy.  An intake that
\* read the newest run before it was interrupted does so while the thread waits for its
\* user, too.
CreateChat(r) ==
    /\ ~ThreadBusy
    /\ CreateRow(r, None)
    /\ latest' = r

\* prepare_agent_run_creation_scope for run_type "resume": only the latest run,
\* only when it is interrupted, only on an idle thread.
CreateResume(r) ==
    /\ latest # None
    /\ status[latest] = "interrupted"
    /\ ~ThreadBusy
    /\ CreateRow(r, latest)
    /\ latest' = r

\* Mutant: the creator row is not looked at again before the subagent is queued.
StartSubagentUnchecked(t, c) ==
    /\ pc[t] = "exec"
    /\ job[t] \notin Sub
    /\ CreateRow(c, job[t])
    /\ UNCHANGED latest

\* SubagentRunService.start, called by a tool of an executing attempt.  The
\* creator row is locked and must be "running"; the caller's lease is not
\* looked at.
StartSubagent(t, c) ==
    /\ pc[t] = "exec"
    /\ job[t] \notin Sub
    /\ status[job[t]] = "running"
    /\ CreateRow(c, job[t])
    /\ UNCHANGED latest

-----------------------------------------------------------------------------
(* Users.                                                                  *)

\* Mutant: the cancel request does not look at the status it overwrites.
CancelAnyRun(r) == [status EXCEPT ![r] = Stopped(r)]

\* request_cancel_execution_tree: a run that never started is cancelled on
\* the spot, any other active run is marked.  The HTTP entry point cascades.
CancelLocked(r) ==
    IF status[r] \notin Active THEN status
    ELSE [status EXCEPT ![r] = Stopped(r)]

RequestCancel(r) ==
    /\ status[r] # "absent"
    /\ asked'  = asked \cup ({r} \cap Root)
    /\ status' = CloseTree(CancelLocked(r), r)
    /\ cleanup' = IF NeverStarted(r) THEN [cleanup EXCEPT ![r] = FALSE] ELSE cleanup
    /\ UNCHANGED <<worker, lease, started, output, audit, creator, latest,
                   outcome, job, pc, sandbox>>

-----------------------------------------------------------------------------
(* process_agent_run up to the claim.                                      *)

\* ARQ hands the job of an existing run to a worker, possibly again, possibly
\* while another invocation of the same job is still running.
Deliver(t, r) ==
    /\ pc[t] = "idle"
    /\ status[r] # "absent"
    /\ job' = [job EXCEPT ![t] = r]
    /\ Goto(t, IF status[r] \in Terminal THEN "reclose"
               ELSE IF cleanup[r] THEN "cleanup" ELSE "claim")
    /\ UNCHANGED <<rowVars, outcome, sandbox, asked>>

\* Mutant: the release does not read again that the run still owes a cleanup.
MayReleaseUnchecked(r) ==
    /\ r \notin Sub
    /\ \A o \in Run \ {r} : status[o] \notin Active

\* _release_runtime_if_idle can destroy the runtime: the run still owns a
\* cleanup and no other run of the scope is active.
MayRelease(r) ==
    /\ r \notin Sub
    /\ cleanup[r]
    /\ \A o \in Run \ {r} : status[o] \notin Active

ReleaseRuntime(r) ==
    /\ cleanup' = [cleanup EXCEPT ![r] = FALSE]
    /\ sandbox' = [t \in Token |-> IF sandbox[t] = "held" THEN "gone" ELSE sandbox[t]]

KeepRuntime == UNCHANGED <<cleanup, sandbox>>

\* _require_runtime_cleanup: released, already released by someone else, or
\* RuntimeCleanupPendingError (busy scope, or the provisioner failed).
RequireCleanup(t, ok, error) ==
    /\ \/ MayRelease(job[t]) /\ ReleaseRuntime(job[t]) /\ Goto(t, ok)
       \/ ~cleanup[job[t]] /\ KeepRuntime /\ Goto(t, ok)
       \/ cleanup[job[t]] /\ KeepRuntime /\ Goto(t, error)
    /\ UNCHANGED <<status, worker, lease, started, output, audit, creator, latest,
                   outcome, job, asked>>

CleanupBeforeClaim(t) == pc[t] = "cleanup" /\ RequireCleanup(t, "claim", "done")

\* The guard of mark_running.
MayClaim(r, t) ==
    /\ status[r] \in Active
    /\ ~cleanup[r]
    /\ \/ status[r] = "pending"
       \/ status[r] = "cancel_requested" /\ worker[r] = None
       \/ status[r] \in Leased /\ OwnsLive(r, t)

\* mark_running.
Claim(t) ==
    LET r == job[t] IN
    /\ pc[t] = "claim"
    /\ IF MayClaim(r, t)
       THEN /\ status'  = [status EXCEPT ![r] = IF @ = "pending" THEN "running" ELSE @]
            /\ worker'  = [worker EXCEPT ![r] = t]
            /\ lease'   = [lease EXCEPT ![r] = LeaseTicks]
            /\ started' = [started EXCEPT ![r] = TRUE]
            /\ outcome' = [FinishAttempts(r, "lease_expired") EXCEPT ![t] = "open"]
            /\ Goto(t, "prepare")
       ELSE /\ Goto(t, "done")
            /\ UNCHANGED <<status, worker, lease, started, outcome>>
    /\ UNCHANGED <<cleanup, output, audit, creator, latest, job, sandbox, asked>>

-----------------------------------------------------------------------------
(* process_agent_run: preparation and execution.                           *)

\* Everything before the stream: a durable cancellation diverts to the cancel
\* path, an invalid input or a lost manifest fence to "failed".
Prepare(t) ==
    /\ pc[t] = "prepare"
    /\ \/ status[job[t]] = "cancel_requested" /\ Goto(t, "cancelled")
       \/ status[job[t]] # "cancel_requested" /\ Goto(t, "failing")
       \/ IsLeaseOwner(job[t], t) /\ Goto(t, "exec")
    /\ UNCHANGED <<rowVars, outcome, job, sandbox, asked>>

\* A tool of the attempt brings up the sandbox of the scope.
UseRuntime(t) ==
    /\ pc[t] = "exec"
    /\ sandbox[t] = "none"
    /\ sandbox' = [sandbox EXCEPT ![t] = "held"]
    /\ UNCHANGED <<rowVars, outcome, job, pc, asked>>

\* A model or tool call starts, or reports its end: both are fenced.
WriteAudit(t, running) ==
    /\ pc[t] = "exec"
    /\ IsLeaseOwner(job[t], t)
    /\ audit[job[t]] # running
    /\ audit' = [audit EXCEPT ![job[t]] = running]
    /\ UNCHANGED <<status, worker, lease, started, cleanup, output, creator, latest,
                   outcome, job, pc, sandbox, asked>>

\* save_partial_message: binds an output message without ending the run.
SavePartialOutput(t) ==
    /\ pc[t] = "exec"
    /\ IsLeaseOwner(job[t], t)
    /\ output' = [output EXCEPT ![job[t]] = TRUE]
    /\ UNCHANGED <<status, worker, lease, started, cleanup, audit, creator, latest,
                   outcome, job, pc, sandbox, asked>>

\* save_messages_from_langgraph_state: messages, output binding and terminal
\* status in one transaction.  There may be no message to bind, which only an
\* interrupt accepts; a refused transaction is an output_persistence_error.
SaveAndEnd(t, st, bound) ==
    LET r == job[t] IN
    /\ pc[t] = "exec"
    /\ IF IsLeaseOwner(r, t) /\ (st = "completed" => output[r] \/ bound)
       THEN /\ output' = [output EXCEPT ![r] = @ \/ bound]
            /\ SetTerminal(r, t, st)
            /\ Goto(t, "settle")
       ELSE /\ Goto(t, "failing")
            /\ UNCHANGED <<status, worker, lease, cleanup, output, audit, outcome>>
    /\ UNCHANGED <<started, creator, latest, job, sandbox, asked>>

\* mark_run_terminal and _finish_run: commit st if the row still admits it.
MarkTerminal(t, st) ==
    /\ IF MaySetTerminal(job[t], t, st)
       THEN SetTerminal(job[t], t, st)
       ELSE UNCHANGED <<status, worker, lease, cleanup, audit, outcome>>
    /\ UNCHANGED <<started, output, creator, latest, job, sandbox, asked>>

\* The stream ended without a committed terminal status: a question to the
\* user, a broken stream (cancelled if the durable status says so), or plain end
\* of stream, which needs a bound output.  When the row refuses the status, a set
\* cancel event still raises CancelledError.
EndStream(t, st) ==
    LET r == job[t] IN
    /\ pc[t] = "exec"
    /\ st = "cancelled" => status[r] = "cancel_requested"
    /\ MarkTerminal(t, st)
    /\ \/ MaySetTerminal(r, t, st) /\ Goto(t, "settle")
       \/ /\ ~MaySetTerminal(r, t, st)
          /\ \/ st = "completed" /\ IsLeaseOwner(r, t) /\ Goto(t, "failing")
             \/ ~IsLeaseOwner(r, t) /\ Goto(t, "settle")
             \/ ~IsLeaseOwner(r, t) /\ Goto(t, "cancelled")

\* An exception leaves the stream or the preparation.
Raise(t, label) ==
    /\ pc[t] \in {"prepare", "exec"}
    /\ label \in {"cancelled", "retry", "failing"}
    /\ Goto(t, label)
    /\ UNCHANGED <<rowVars, outcome, job, sandbox, asked>>

-----------------------------------------------------------------------------
(* process_agent_run: exception handlers and the finally block.            *)

\* _confirmed_user_cancel at the top of the two handlers.  A failed read
\* counts as "not cancelled"; the last ARQ try fails instead of releasing.
ConfirmCancel(t) ==
    /\ \/ /\ pc[t] \in {"cancelled", "retry"}
          /\ status[job[t]] = "cancel_requested"
          /\ Goto(t, "confirmed")
       \/ pc[t] = "cancelled" /\ Goto(t, "release")
       \/ pc[t] = "retry" /\ Goto(t, "retry_release")
       \/ pc[t] = "retry" /\ Goto(t, "failing")
    /\ UNCHANGED <<rowVars, outcome, job, sandbox, asked>>

\* _finish_user_cancel.
FinishUserCancel(t) ==
    /\ pc[t] = "confirmed"
    /\ MarkTerminal(t, "cancelled")
    /\ Goto(t, "settle")

\* _finish_run(..., "failed", ...) and the validation failures.
Fail(t) ==
    /\ pc[t] = "failing"
    /\ MarkTerminal(t, "failed")
    /\ Goto(t, "settle")

\* release_run_lease_for_retry: back to pending, runtime to be cleaned, tree
\* closed, all in one transaction.
ReleaseForRetry(t) ==
    LET r == job[t] IN
    /\ pc[t] \in {"release", "retry_release"}
    /\ IF IsLeaseOwner(r, t)
       THEN /\ status'  = CloseTree([status EXCEPT ![r] = "pending"], r)
            /\ worker'  = [worker EXCEPT ![r] = None]
            /\ lease'   = [lease EXCEPT ![r] = 0]
            /\ cleanup' = [cleanup EXCEPT ![r] = r \notin Sub]
            /\ outcome' = [outcome EXCEPT ![t] = "retry_released"]
            /\ Goto(t, IF pc[t] = "retry_release" THEN "settle" ELSE "children")
       ELSE /\ Goto(t, IF status[r] = "cancel_requested" THEN "confirmed" ELSE "children")
            /\ UNCHANGED <<status, worker, lease, cleanup, outcome>>
    /\ UNCHANGED <<started, output, audit, creator, latest, job, sandbox, asked>>

\* _release_runtime_before_terminal_event, or the retry cleanup.
Settle(t) == pc[t] = "settle" /\ RequireCleanup(t, "children", "children")

\* _finish_execution_tree_children when the run is terminal, a no-op otherwise.
FinishChildren(t, from, to) ==
    /\ pc[t] = from
    /\ status' = IF status[job[t]] \in Terminal THEN CloseTree(status, job[t]) ELSE status
    /\ Goto(t, to)
    /\ UNCHANGED <<worker, lease, started, cleanup, output, audit, creator, latest,
                   outcome, job, sandbox, asked>>

Finally(t)       == FinishChildren(t, "children", "done")
RecloseTree(t)   == FinishChildren(t, "reclose", "reclean")
CleanTerminal(t) == pc[t] = "reclean" /\ RequireCleanup(t, "done", "done")

-----------------------------------------------------------------------------
(* Leases, heartbeats and crashes.                                         *)

\* Time passes for every lease.
Tick ==
    /\ \E r \in Run : lease[r] > 0
    /\ lease' = [r \in Run |-> IF lease[r] > 0 THEN lease[r] - 1 ELSE 0]
    /\ UNCHANGED <<status, worker, started, cleanup, output, audit, creator, latest,
                   outcome, job, pc, sandbox, asked>>

\* The heartbeat task runs from run_ctx.start to run_ctx.close.
Beating(t) ==
    pc[t] \in {"exec", "cancelled", "retry", "confirmed", "release", "retry_release",
               "failing", "settle"}

\* Mutant: the renewal is added to what is left of the lease.
HeartbeatAdds(t) ==
    LET r == job[t] IN
    /\ Beating(t)
    /\ status[r] \in Leased
    /\ OwnsLive(r, t)
    /\ lease' = [lease EXCEPT ![r] = @ + LeaseTicks]
    /\ UNCHANGED <<status, worker, started, cleanup, output, audit, creator, latest,
                   outcome, job, pc, sandbox, asked>>

\* renew_lease by its owner.
Heartbeat(t) ==
    LET r == job[t] IN
    /\ Beating(t)
    /\ status[r] \in Leased
    /\ OwnsLive(r, t)
    /\ lease' = [lease EXCEPT ![r] = LeaseTicks]
    /\ UNCHANGED <<status, worker, started, cleanup, output, audit, creator, latest,
                   outcome, job, pc, sandbox, asked>>

\* renew_lease is refused and this attempt did not finish the run itself:
\* lease_lost stops the stream and the handler returns at once.
LoseLease(t) ==
    LET r == job[t] IN
    /\ pc[t] = "exec"
    /\ ~(status[r] \in Leased /\ OwnsLive(r, t))
    /\ Goto(t, "children")
    /\ UNCHANGED <<rowVars, outcome, job, sandbox, asked>>

\* A worker process dies between two transactions.
Crash(t) ==
    /\ pc[t] \notin {"idle", "done"}
    /\ Goto(t, "done")
    /\ UNCHANGED <<rowVars, outcome, job, sandbox, asked>>

-----------------------------------------------------------------------------
(* The reconciliation loop of every worker.                                *)

\* Mutant: a cancelled run that was given back for a retry is not selected.
OrphanedWithOwner(r) ==
    \/ status[r] = "running" /\ lease[r] = 0
    \/ status[r] = "cancel_requested" /\ worker[r] # None /\ lease[r] = 0

\* The rows reconcile_expired_leases selects.
Orphaned(r) ==
    \/ status[r] = "running" /\ lease[r] = 0
    \/ status[r] = "cancel_requested" /\ worker[r] # None /\ lease[r] = 0
    \/ status[r] = "cancel_requested" /\ worker[r] = None /\ started[r]

\* reconcile_expired_leases, for the orphans it could lock (skip_locked).
ReconcileLeases(S) ==
    LET below == UNION {Descendants(r) : r \in S} IN
    /\ S # {}
    /\ \A r \in S : Orphaned(r)
    /\ status'  = [r \in Run |-> IF r \in S THEN "failed"
                                ELSE IF r \in below THEN Stopped(r) ELSE status[r]]
    /\ worker'  = [r \in Run |-> IF r \in S THEN None ELSE worker[r]]
    /\ lease'   = [r \in Run |-> IF r \in S THEN 0 ELSE lease[r]]
    /\ cleanup' = [r \in Run |-> IF r \in S THEN r \notin Sub ELSE cleanup[r]]
    /\ audit'   = [r \in Run |-> IF r \in S THEN FALSE ELSE audit[r]]
    /\ outcome' = [t \in Token |-> IF job[t] \in S /\ outcome[t] = "open"
                                   THEN "lease_expired" ELSE outcome[t]]
    /\ UNCHANGED <<started, output, creator, latest, job, pc, sandbox, asked>>

\* reconcile_pending_runtime_cleanups, for one of the listed rows.
ReconcileCleanup(r) ==
    /\ MayRelease(r)
    /\ ReleaseRuntime(r)
    /\ UNCHANGED <<status, worker, lease, started, output, audit, creator, latest,
                   outcome, job, pc, asked>>

\* fail_nonterminal_for_storage_migration, run while every worker is stopped
\* and every old runtime is proved gone.
StorageMigration ==
    LET S == {r \in Run : status[r] \in Active} IN
    /\ \A t \in Token : pc[t] \in {"idle", "done"}
    /\ S # {}
    /\ status'  = [r \in Run |-> IF r \in S THEN "failed" ELSE status[r]]
    /\ worker'  = [r \in Run |-> IF r \in S THEN None ELSE worker[r]]
    /\ lease'   = [r \in Run |-> IF r \in S THEN 0 ELSE lease[r]]
    /\ cleanup' = [r \in Run |-> IF r \in S THEN FALSE ELSE cleanup[r]]
    /\ audit'   = [r \in Run |-> IF r \in S THEN FALSE ELSE audit[r]]
    /\ outcome' = [t \in Token |-> IF job[t] \in S /\ outcome[t] = "open"
                                   THEN "failed" ELSE outcome[t]]
    /\ UNCHANGED <<started, output, creator, latest, job, pc, sandbox, asked>>

-----------------------------------------------------------------------------
Invocation(t) ==
    \/ CleanupBeforeClaim(t)
    \/ Claim(t)
    \/ Prepare(t)
    \/ UseRuntime(t)
    \/ \E running \in BOOLEAN : WriteAudit(t, running)
    \/ SavePartialOutput(t)
    \/ \E st \in {"completed", "interrupted"}, bound \in BOOLEAN : SaveAndEnd(t, st, bound)
    \/ \E st \in {"completed", "interrupted", "cancelled"} : EndStream(t, st)
    \/ \E label \in {"cancelled", "retry", "failing"} : Raise(t, label)
    \/ ConfirmCancel(t)
    \/ FinishUserCancel(t)
    \/ Fail(t)
    \/ ReleaseForRetry(t)
    \/ Settle(t)
    \/ Finally(t)
    \/ RecloseTree(t)
    \/ CleanTerminal(t)

Next ==
    \/ \E r \in Chat : CreateChat(r)
    \/ \E r \in Resume : CreateResume(r)
    \/ \E t \in Token, c \in Sub : StartSubagent(t, c)
    \/ \E r \in Run : RequestCancel(r)
    \/ \E t \in Token, r \in Run : Deliver(t, r)
    \/ \E t \in Token : Invocation(t)
    \/ \E t \in Token : Heartbeat(t)
    \/ \E t \in Token : LoseLease(t)
    \/ \E t \in Token : Crash(t)
    \/ Tick
    \/ \E S \in SUBSET Run : ReconcileLeases(S)
    \/ \E r \in Root : ReconcileCleanup(r)
    \/ StorageMigration

Spec == Init /\ [][Next]_vars

(* Fairness.  Time passes; every worker runs the reconciliation loop, so an  *)
(* orphan and a releasable runtime are eventually handled; a live worker     *)
(* polls the durable cancellation and its event loop carries a handler to    *)
(* its end.  Nothing forces users, ARQ deliveries or the model to act.       *)
NoticeCancel(t) ==
    /\ pc[t] = "exec"
    /\ status[job[t]] = "cancel_requested"
    /\ Raise(t, "cancelled")

Handler(t) ==
    \/ ConfirmCancel(t)
    \/ FinishUserCancel(t)
    \/ Fail(t)
    \/ ReleaseForRetry(t)
    \/ Settle(t)
    \/ Finally(t)

Fairness ==
    /\ WF_vars(Tick)
    /\ WF_vars(\E S \in SUBSET Run : ReconcileLeases(S))
    /\ \A r \in Root : WF_vars(ReconcileCleanup(r))
    /\ \A t \in Token : WF_vars(NoticeCancel(t)) /\ WF_vars(Handler(t))

FairSpec == Spec /\ Fairness

-----------------------------------------------------------------------------
(* Properties.                                                             *)

\* The attempt of an invocation is open exactly while the row names it as its
\* owner: mark_running, the terminal transaction, the retry release and the
\* reconciler keep worker_id, lease and agent_run_attempts in step, so a run
\* never has two open attempts and a finished or queued run has none.
AttemptMatchesOwner ==
    /\ \A t \in Token : outcome[t] = "open" <=> (job[t] # None /\ worker[job[t]] = t)
    /\ \A r \in Run :
        /\ worker[r] # None => /\ job[worker[r]] = r
                               /\ status[r] \in Leased
                               /\ started[r]
        /\ status[r] = "running" => worker[r] # None
        /\ lease[r] > 0 => worker[r] # None

\* What an invocation is before it runs anything (auxiliary): it has a job from
\* its delivery on, and acquires a runtime only after its claim.
InvocationShape ==
    \A t \in Token :
        /\ pc[t] = "idle" <=> job[t] = None
        /\ pc[t] \in {"idle", "cleanup", "claim", "prepare"} => sandbox[t] = "none"

\* The shape of the execution tree (auxiliary): a resume run hangs below an
\* interrupted run, a subagent below a chat or resume run.
TreeShape ==
    /\ \A r \in Root : creator[r] # None =>
                          creator[r] \in Root /\ status[creator[r]] = "interrupted"
    /\ \A c \in Sub : status[c] # "absent" => creator[c] \in Root

\* The cleanup fence: a run that still owes the destruction of its runtime has
\* no owner, and while it does no other chat or resume run of the thread is
\* active, so a claim can never meet a runtime that is about to be destroyed.
CleanupFence ==
    \A r \in Root :
        /\ cleanup[r] => worker[r] = None
        /\ status[r] \in Active \/ cleanup[r] =>
               \A o \in Root \ {r} : status[o] \notin Active /\ ~cleanup[o]

\* The execution tree is closed.  A subagent may only be queued or running while the
\* run that started it is running: every transaction that takes the creator out of
\* "running" (end, retry release, cancel, lease reconciliation) closes the tree with
\* it, and SubagentRunService.start cannot add to a closed tree.
SubagentsStop ==
    \A c \in Sub :
        status[c] \in {"pending", "running"} => status[creator[c]] = "running"

\* And while a stopped subagent is not confirmed yet, the run that started it still
\* keeps the next chat or resume run out, although ThreadBusy never looks at subagents.
SubagentsHoldThread ==
    \A c \in Sub :
        status[c] \in Active => status[creator[c]] \in Active \/ cleanup[creator[c]]

ExecutionTreeClosed == SubagentsStop /\ SubagentsHoldThread

\* The runtime is never destroyed under an attempt that still owns its run:
\* neither the reconciler nor a late worker of an older run may release it.
RuntimeOutlivesOwner ==
    \A t \in Token :
        job[t] # None /\ OwnsLive(job[t], t) => sandbox[t] # "gone"

\* The rows implement the lifecycle their readers rely on: a terminal status is
\* final, a run told to stop can only be confirmed or fail, only its owner works on,
\* ends or gives back a run, an ended run has no open audit and a completed one has
\* its output, and no transaction decides about more than one run, except to stop
\* or to fail what nobody executes any more.
Lifecycle == INSTANCE RunLifecycle WITH owner <- worker, result <- output, busy <- audit

ImplementsLifecycle == Lifecycle!Spec

\* The chat and resume runs keep the contract on which the request queue of the thread
\* is built (RequestQueue!ImplementsThreadRuns): whatever leases, crashes, late workers
\* and subagents do, one run occupies the thread until its runtime is released, and a
\* resume run follows an interrupted run only.  What an intake may have overlooked is
\* left to the queue.
Runs == INSTANCE ThreadRuns WITH
    status  <- [r \in Root |-> status[r]],
    claimed <- {r \in Root : started[r]},
    owes    <- [r \in Root |-> cleanup[r]],
    unaware <- TRUE

ImplementsThreadRuns == Runs!Spec

\* Expired ownership cannot be taken over or revived: from the moment the lease
\* of an owner has run out, the only change of ownership is the reconciler's
\* "failed" (or the storage migration's), and no output or audit is written.
ExpiredOwnershipOnlyFails ==
    [][\A r \in Run : worker[r] # None /\ lease[r] = 0 =>
          \/ /\ worker'[r] = worker[r] /\ lease'[r] = 0
             /\ status'[r] \in Leased
             /\ output'[r] = output[r] /\ audit'[r] = audit[r]
          \/ status'[r] = "failed" /\ worker'[r] = None]_vars

\* A run that was told to stop, or whose owner died, ends: whatever the owner was
\* doing, the cancellation is confirmed or the reconciler fails the run, and
\* nobody ever executes it again.
Abandoned(r) ==
    \/ status[r] = "cancel_requested"
    \/ status[r] = "running" /\ \E t \in Token : worker[r] = t /\ pc[t] = "done"

AbandonedRunEnds == \A r \in Run : Abandoned(r) ~> status[r] \in Terminal

\* The runtime of an ended or retried run is eventually destroyed, which is what
\* unblocks the thread: no descendant can keep the scope busy for ever.
CleanupConverges ==
    \A r \in Root : cleanup[r] ~> ~cleanup[r]

\* agent-request-queue.md: an interrupted run can be continued by a resume
\* request; the resume run is stopped only when a user cancels it or the run
\* it continues.
ResumeStoppedOnlyByUser ==
    \A r \in Resume :
        status[r] \in {"cancel_requested", "cancelled"} =>
            r \in asked \/ creator[r] \in asked
=============================================================================
