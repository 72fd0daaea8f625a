---------------------------- MODULE RequestQueue ----------------------------
(***************************************************************************)
(* The request queue of one conversation thread: the agent_run_requests    *)
(* rows that intake_request writes, the chat run that each dispatch        *)
(* creates, and the ARQ job that brings a run to a worker.                 *)
(*                                                                         *)
(* Every operation on the queue holds the row lock of the conversation; tx *)
(* is that lock and the intake transaction under it.  Runs end without the *)
(* lock, so the runs move between two statements of an intake.  The run    *)
(* lifecycle itself is AgentRun: here a run is only its status, whether it *)
(* still owes a runtime cleanup, and when it finished.                     *)
(*                                                                         *)
(* A session keeps the objects it has loaded: a row that is selected again *)
(* in one transaction, with or without FOR UPDATE, is the object with the  *)
(* attributes of the first read (conversations are the exception), and a   *)
(* flush writes the columns that were assigned.  What is filtered by SQL   *)
(* is fresh, what is read from an object is not: tx.seen and calls are     *)
(* such objects.                                                           *)
(*                                                                         *)
(* Timestamps: clock counts the requests inserted so far; created_at of a  *)
(* request is its number and finished_at of a run the clock at that time.  *)
(***************************************************************************)
EXTENDS Naturals, FiniteSets

CONSTANTS
    Request,     \* request ids
    Resume,      \* ids of resume runs
    None,        \* SQL NULL
    Policies,    \* the queue policies clients use
    MaxCalls,    \* bound: steer and cancel calls between their first read and the lock
    MaxFaults    \* bound: rollbacks, lost hand-overs and lost jobs in a behaviour

Run == Request \cup Resume      \* a chat run is named by the request it serves

ASSUME ResumeIsNoRequest == Request \cap Resume = {}
ASSUME NoneIsNoRun == None \notin Run
ASSUME PoliciesKnown == Policies \subseteq {"enqueue", "reject", "steer"}
ASSUME CallsCounted == MaxCalls \in Nat
ASSUME FaultsCounted == MaxFaults \in Nat

VARIABLES
    status,      \* AgentRunRequest.status, "absent" before the row is committed
    policy,      \* AgentRunRequest.queue_policy
    created,     \* AgentRunRequest.created_at
    run,         \* AgentRun.status of the thread's chat and resume runs
    started,     \* runs that an attempt has claimed once (AgentRun.started_at)
    cleanup,     \* AgentRun.runtime_cleanup_pending
    finished,    \* AgentRun.finished_at; set on an active run: its terminal
                 \* transaction holds the run row and is not committed yet
    latest,      \* the newest chat/resume run
    job,         \* ARQ: the job "run:{id}" and, after it, its kept result
    sending,     \* runs committed by a process that has not called ARQ yet
    tx,          \* the conversation lock, and what the intake under it has read
    calls,       \* steer and cancel calls that hold the row as it was before the lock
    yielding,    \* runs that SteerMiddleware told to end
    clock,       \* requests inserted so far
    faults       \* faults so far

vars == <<status, policy, created, run, started, cleanup, finished, latest, job, sending, tx,
          calls, yielding, clock, faults>>
runVars == <<run, started, cleanup, finished, latest, yielding>>

Terminal == {"completed", "failed", "cancelled", "interrupted"}
Active   == {"pending", "running", "cancel_requested"}

NoTx == [req |-> None, policy |-> "enqueue", step |-> "free", seen |-> "absent"]

\* What a call intends, and for a cancellation which policy it has read.
Kinds == {"steer", "cancel", "cancel steer"}

TypeOK ==
    /\ status   \in [Request -> {"absent", "queued", "dispatched", "cancelled", "rejected"}]
    /\ policy   \in [Request -> {"enqueue", "reject", "steer"}]
    /\ created  \in [Request -> Nat]
    /\ run      \in [Run -> {"absent"} \cup Active \cup Terminal]
    /\ started  \in SUBSET Run
    /\ cleanup  \in [Run -> BOOLEAN]
    /\ finished \in [Run -> Nat \cup {None}]
    /\ latest   \in Run \cup {None}
    /\ job      \in [Run -> {"none", "queued", "taken", "kept"}]
    /\ sending  \in SUBSET Run
    /\ tx       \in [req : Request \cup {None}, policy : {"enqueue", "reject", "steer"},
                     step : {"free", "reject", "insert", "dispatch"},
                     seen : {"absent"} \cup Active \cup Terminal]
    /\ calls    \in SUBSET (Request \X Kinds)
    /\ yielding \in SUBSET Run
    /\ clock    \in Nat
    /\ faults   \in 0..MaxFaults

Init ==
    /\ status   = [q \in Request |-> "absent"]
    /\ policy   = [q \in Request |-> "enqueue"]
    /\ created  = [q \in Request |-> 0]
    /\ run      = [r \in Run |-> "absent"]
    /\ started  = {}
    /\ cleanup  = [r \in Run |-> FALSE]
    /\ finished = [r \in Run |-> None]
    /\ latest   = None
    /\ job      = [r \in Run |-> "none"]
    /\ sending  = {}
    /\ tx       = NoTx
    /\ calls    = {}
    /\ yielding = {}
    /\ clock    = 0
    /\ faults   = 0

-----------------------------------------------------------------------------
(* What the queue operations read.                                         *)

Queued == {q \in Request : status[q] = "queued"}

\* The order of _queued_for_thread_query: steer first, then FIFO.
Precedes(pol, a, b) ==
    \/ pol[a] = "steer" /\ pol[b] # "steer"
    \/ (pol[a] = "steer" <=> pol[b] = "steer") /\ created[a] < created[b]

\* get_queue_head over the queued requests S (none or one).
QueueHead(S, pol) == {h \in S : \A o \in S \ {h} : Precedes(pol, h, o)}

\* get_pending_steer finds one.
PendingSteer == \E q \in Queued : policy[q] = "steer"

\* Mutant: a run that ended no longer occupies the thread, cleaned or not.
BusyIgnoringCleanup == \E r \in Run : run[r] \in Active

\* get_active_run_by_thread_for_user: still active, or its runtime still owed.
Busy == \E r \in Run : run[r] \in Active \/ cleanup[r]

Interrupted == latest # None /\ run[latest] = "interrupted"

\* _is_steerable_message_run for the active run of the thread: the newest run,
\* running, of type chat.
Steerable == latest \in Request /\ run[latest] = "running"

\* The status of the newest run, as get_latest_chat_or_resume_run finds it.
Newest == IF latest = None THEN "absent" ELSE run[latest]

\* _get_queue_state for the head, "paused" and "ready", with the status of the newest
\* run that the session holds.
PausedAfter(head, seen) ==
    /\ ~Busy
    /\ seen \in {"failed", "cancelled"}
    /\ created[head] <= finished[latest]

\* Mutant: an interrupted thread counts as ready.
ReadyIgnoringInterrupt(head, seen) == ~Busy /\ ~PausedAfter(head, seen)

ReadyAfter(head, seen) == ~Busy /\ seen # "interrupted" /\ ~PausedAfter(head, seen)

Paused(head) == PausedAfter(head, Newest)
Ready(head)  == ReadyAfter(head, Newest)

Unlocked == tx = NoTx

\* Mutant: the request takes the status of its run.
StartRunWrongStatus(h, st) ==
    /\ status' = [st EXCEPT ![h] = "pending"]
    /\ run'    = [run EXCEPT ![h] = "pending"]
    /\ latest' = h
    /\ UNCHANGED <<started, cleanup, finished, yielding>>

\* _dispatch_locked_head: the chat run and the request status, written over st.
StartRun(h, st) ==
    /\ status' = [st EXCEPT ![h] = "dispatched"]
    /\ run'    = [run EXCEPT ![h] = "pending"]
    /\ latest' = h
    /\ UNCHANGED <<started, cleanup, finished, yielding>>

-----------------------------------------------------------------------------
(* intake_request: checks, insert, dispatch, under the conversation lock.  *)

\* Reads of the active run, the newest run and the queue; an active run is the newest
\* one, so the second statement finds the object of the first.  A refused request
\* (409) leaves no trace; a request id that exists is answered from its row.
IntakeChecks(q, p) ==
    /\ Unlocked
    /\ status[q] = "absent"
    /\ ~Interrupted
    /\ p = "steer" => (Busy => Steerable) /\ ~PendingSteer
    /\ tx' = [req |-> q, policy |-> p,
              step |-> IF p = "reject" /\ (Busy \/ Queued # {}) THEN "reject" ELSE "insert",
              seen |-> Newest]
    /\ UNCHANGED <<status, policy, created, runVars, job, sending, calls, clock, faults>>

\* The row is inserted "rejected" and committed.
IntakeReject ==
    /\ tx.step = "reject"
    /\ status' = [status EXCEPT ![tx.req] = "rejected"]
    /\ policy' = [policy EXCEPT ![tx.req] = tx.policy]
    /\ tx' = NoTx
    /\ UNCHANGED <<created, runVars, job, sending, calls, clock, faults>>

\* The row gets its created_at; nobody else sees it before the commit.
IntakeInsert ==
    /\ tx.step = "insert"
    /\ clock'   = clock + 1
    /\ created' = [created EXCEPT ![tx.req] = clock + 1]
    /\ tx'      = [tx EXCEPT !.step = "dispatch"]
    /\ UNCHANGED <<status, policy, runVars, job, sending, calls, faults>>

\* Mutant: a ready thread starts the new request instead of the head.
IntakeDispatchOwn ==
    LET q == tx.req IN
    /\ tx.step = "dispatch"
    /\ policy' = [policy EXCEPT ![q] = tx.policy]
    /\ IF ReadyAfter(q, tx.seen)
       THEN StartRun(q, status) /\ sending' = sending \cup {q}
       ELSE status' = [status EXCEPT ![q] = "queued"] /\ UNCHANGED <<runVars, sending>>
    /\ tx' = NoTx
    /\ UNCHANGED <<created, job, calls, clock, faults>>

\* _dispatch_ready_head with the new row visible to this transaction, then the
\* commit.  That no run occupies the thread is read afresh; the newest run is the
\* object of the checks, so a run that has ended in between still counts as going on
\* and neither pauses the queue nor keeps it waiting for the user.  A reject request
\* that is not dispatched at once is rejected.  Only the request's own run is handed
\* to ARQ: if the ready head is an older request, its run is committed and left to
\* recover_pending_dispatches.
IntakeDispatch ==
    LET q == tx.req
        pol == [policy EXCEPT ![q] = tx.policy]
        starts == {h \in QueueHead(Queued \cup {q}, pol) :
                     ReadyAfter(h, tx.seen) /\ (tx.policy = "reject" => h = q)}
        committed == [status EXCEPT ![q] = IF tx.policy = "reject" THEN "rejected" ELSE "queued"]
    IN
    /\ tx.step = "dispatch"
    /\ policy' = pol
    /\ \/ starts = {} /\ status' = committed /\ UNCHANGED runVars
       \/ \E h \in starts : StartRun(h, committed)
    /\ sending' = sending \cup (starts \cap {q})
    /\ tx' = NoTx
    /\ UNCHANGED <<created, job, calls, clock, faults>>

\* The API process dies or the transaction fails: everything is rolled back.
IntakeRollback ==
    /\ ~Unlocked
    /\ faults < MaxFaults
    /\ faults' = faults + 1
    /\ created' = [created EXCEPT ![tx.req] = 0]
    /\ tx' = NoTx
    /\ UNCHANGED <<status, policy, runVars, job, sending, calls, clock>>

-----------------------------------------------------------------------------
(* The other operations on the queue.                                      *)

\* The first statement of steer_queued_request and cancel_queued_request: a waiting
\* request is read before the lock.  Calls that find anything else are answered from
\* that object and change nothing.
ReadRequest(q, kind) ==
    /\ Cardinality(calls) < MaxCalls
    /\ status[q] = "queued"
    /\ kind = "steer"        => policy[q] = "enqueue"
    /\ kind = "cancel"       => policy[q] # "steer"
    /\ kind = "cancel steer" => policy[q] = "steer"
    /\ calls' = calls \cup {<<q, kind>>}
    /\ UNCHANGED <<status, policy, created, runVars, job, sending, tx, clock, faults>>

\* The call has the lock and is answered.
Answered(q, kind) ==
    /\ Unlocked
    /\ <<q, kind>> \in calls
    /\ calls' = calls \ {<<q, kind>>}
    /\ UNCHANGED <<created, runVars, job, sending, tx, clock, faults>>

\* steer_queued_request: a chat request becomes the steer of the running run.  That no
\* other steer waits and that the run can be steered is read afresh; the status of the
\* request itself is not.
SteerQueued(q) ==
    LET granted == Steerable /\ \A o \in Queued \ {q} : policy[o] # "steer" IN
    /\ Answered(q, "steer")
    /\ \/ granted /\ policy' = [policy EXCEPT ![q] = "steer"]
       \/ ~granted /\ UNCHANGED policy
    /\ UNCHANGED status

\* Mutant: a steer is cancelled like any other request.
CancelQueuedSteer(q) ==
    /\ \E kind \in {"cancel", "cancel steer"} : Answered(q, kind)
    /\ status' = [status EXCEPT ![q] = "cancelled"]
    /\ UNCHANGED policy

\* cancel_queued_request: what was read as a steer is only cancelled on an idle thread.
\* "cancelled" is written over whatever the request has become since it was read.
CancelQueued(q) ==
    /\ \/ /\ Answered(q, "cancel") \/ (Answered(q, "cancel steer") /\ ~Busy)
          /\ status' = [status EXCEPT ![q] = "cancelled"]
       \/ /\ Answered(q, "cancel steer") /\ Busy
          /\ UNCHANGED status
    /\ UNCHANGED policy

\* continue_thread_queue: the user releases a paused queue, head first.
ContinueQueue ==
    /\ Unlocked
    /\ \E h \in QueueHead(Queued, policy) :
        /\ Paused(h)
        /\ StartRun(h, status)
        /\ sending' = sending \cup {h}
    /\ UNCHANGED <<policy, created, job, tx, calls, clock, faults>>

\* Mutant: recovery only looks at the queue, never at a pending run.
DispatchNextQueueOnly ==
    /\ Unlocked
    /\ \E h \in QueueHead(Queued, policy) :
        /\ Ready(h)
        /\ StartRun(h, status)
        /\ sending' = sending \cup {h}
    /\ UNCHANGED <<policy, created, job, tx, calls, clock, faults>>

\* Mutant: recovery only sends pending runs again.
DispatchNextRunOnly ==
    /\ Unlocked
    /\ \E r \in Run : run[r] = "pending" /\ sending' = sending \cup {r}
    /\ UNCHANGED <<status, policy, created, runVars, job, tx, calls, clock, faults>>

\* dispatch_next_request.  Its callers are the recovery loop of every worker, which
\* visits each thread with a pending run or a queued request, and the ends of a
\* run and of a runtime cleanup; all of them may come at any time.
DispatchNext ==
    /\ Unlocked
    /\ \/ /\ Busy
          /\ \E r \in Run : run[r] = "pending" /\ sending' = sending \cup {r}
          /\ UNCHANGED <<status, runVars>>
       \/ \E h \in QueueHead(Queued, policy) :
             /\ Ready(h)
             /\ StartRun(h, status)
             /\ sending' = sending \cup {h}
    /\ UNCHANGED <<policy, created, job, tx, calls, clock, faults>>

\* create_agent_run_view: a resume run continues the interrupted newest run.
ResumeRun(m) ==
    /\ Unlocked
    /\ run[m] = "absent"
    /\ Interrupted
    /\ ~Busy
    /\ run' = [run EXCEPT ![m] = "pending"]
    /\ latest' = m
    /\ sending' = sending \cup {m}
    /\ UNCHANGED <<status, policy, created, started, cleanup, finished, yielding, job, tx,
                   calls, clock, faults>>

-----------------------------------------------------------------------------
(* ARQ.                                                                    *)

\* enqueue_agent_run: enqueue_job drops a job whose id is still known, be it
\* waiting, running or only a kept result.
Enqueue(r) ==
    /\ r \in sending
    /\ sending' = sending \ {r}
    /\ job' = [job EXCEPT ![r] = IF @ = "none" THEN "queued" ELSE @]
    /\ UNCHANGED <<status, policy, created, runVars, tx, calls, clock, faults>>

\* The process dies after its commit, or Redis refuses the job.
LoseHandOver(r) ==
    /\ r \in sending
    /\ faults < MaxFaults
    /\ faults' = faults + 1
    /\ sending' = sending \ {r}
    /\ UNCHANGED <<status, policy, created, runVars, job, tx, calls, clock>>

\* Redis loses a waiting job.
LoseJob(r) ==
    /\ job[r] = "queued"
    /\ faults < MaxFaults
    /\ faults' = faults + 1
    /\ job' = [job EXCEPT ![r] = "none"]
    /\ UNCHANGED <<status, policy, created, runVars, sending, tx, calls, clock>>

\* keep_result runs out.
ExpireResult(r) ==
    /\ job[r] = "kept"
    /\ job' = [job EXCEPT ![r] = "none"]
    /\ UNCHANGED <<status, policy, created, runVars, sending, tx, calls, clock, faults>>

\* The terminal transaction of r is not in progress.
RowFree(r) == finished[r] = None

\* process_agent_run up to mark_running: the claim, or a delivery that cannot
\* claim.  RuntimeCleanupPendingError leaves the job to ARQ's retry, or ends it
\* when its tries are used up.
TakeJob(r) ==
    /\ job[r] = "queued"
    /\ RowFree(r) \/ run[r] \in Terminal
    /\ \/ /\ run[r] = "pending" /\ ~cleanup[r]
          /\ run' = [run EXCEPT ![r] = "running"]
          /\ job' = [job EXCEPT ![r] = "taken"]
          /\ started' = started \cup {r}
       \/ /\ run[r] # "pending" \/ cleanup[r]
          /\ job' = [job EXCEPT ![r] = "kept"]
          /\ UNCHANGED <<run, started>>
    /\ UNCHANGED <<status, policy, created, cleanup, finished, latest, sending, tx, calls,
                   yielding, clock, faults>>

-----------------------------------------------------------------------------
(* The runs (module AgentRun has their whole lifecycle).                   *)

\* should_end_run_for_steer: the middleware of a running chat run sees a
\* committed pending steer and ends the graph.
YieldToSteer(r) ==
    /\ r \in Request
    /\ run[r] = "running"
    /\ RowFree(r)
    /\ PendingSteer
    /\ yielding' = yielding \cup {r}
    /\ UNCHANGED <<status, policy, created, run, started, cleanup, finished, latest, job,
                   sending, tx, calls, clock, faults>>

\* release_lease_for_retry: back to pending, runtime to be cleaned, job back in
\* ARQ or dropped because its tries are used up.
Retry(r) ==
    /\ run[r] = "running"
    /\ RowFree(r)
    /\ run' = [run EXCEPT ![r] = "pending"]
    /\ cleanup' = [cleanup EXCEPT ![r] = TRUE]
    /\ yielding' = yielding \ {r}
    /\ \E after \in {"queued", "kept"} : job' = [job EXCEPT ![r] = after]
    /\ UNCHANGED <<status, policy, created, started, finished, latest, sending, tx, calls,
                   clock, faults>>

\* request_cancel_execution_tree, for a run that was claimed before.
RequestCancel(r) ==
    /\ run[r] \in {"pending", "running"}
    /\ r \in started
    /\ RowFree(r)
    /\ run' = [run EXCEPT ![r] = "cancel_requested"]
    /\ UNCHANGED <<status, policy, created, started, cleanup, finished, latest, job, sending,
                   tx, calls, yielding, clock, faults>>

\* A terminal transaction locks the run row and takes its finished_at ...
Stamp(r) ==
    /\ run[r] \in Active
    /\ run[r] = "pending" => r \notin started
    /\ RowFree(r)
    /\ finished' = [finished EXCEPT ![r] = clock]
    /\ UNCHANGED <<status, policy, created, run, started, cleanup, latest, job, sending, tx,
                   calls, yielding, clock, faults>>

\* ... and commits: the end of an attempt, the reconciler's "failed", or the
\* cancellation of a run that never started, which owes no cleanup.
Finish(r, st) ==
    /\ run[r] \in Active
    /\ ~RowFree(r)
    /\ CASE run[r] = "pending"          -> st = "cancelled"
         [] run[r] = "running"          -> st \in {"completed", "interrupted", "failed"}
         [] run[r] = "cancel_requested" -> st \in {"cancelled", "failed"}
    /\ run' = [run EXCEPT ![r] = st]
    /\ cleanup' = [cleanup EXCEPT ![r] = run[r] # "pending"]
    /\ job' = [job EXCEPT ![r] = IF @ = "taken" THEN "kept" ELSE @]
    /\ yielding' = yielding \ {r}
    /\ UNCHANGED <<status, policy, created, started, finished, latest, sending, tx, calls,
                   clock, faults>>

\* _release_runtime_if_idle succeeds.
CleanRuntime(r) ==
    /\ cleanup[r]
    /\ RowFree(r) \/ run[r] \in Terminal
    /\ cleanup' = [cleanup EXCEPT ![r] = FALSE]
    /\ UNCHANGED <<status, policy, created, run, started, finished, latest, job, sending, tx,
                   calls, yielding, clock, faults>>

-----------------------------------------------------------------------------
Intake ==
    \/ \E q \in Request, p \in Policies : IntakeChecks(q, p)
    \/ IntakeReject
    \/ IntakeInsert
    \/ IntakeDispatch
    \/ IntakeRollback

RequestCall(q) ==
    \/ \E kind \in Kinds : ReadRequest(q, kind)
    \/ SteerQueued(q)
    \/ CancelQueued(q)

RunStep(r) ==
    \/ YieldToSteer(r)
    \/ Retry(r)
    \/ RequestCancel(r)
    \/ Stamp(r)
    \/ \E st \in Terminal : Finish(r, st)
    \/ CleanRuntime(r)

Next ==
    \/ Intake
    \/ \E q \in Request : RequestCall(q)
    \/ ContinueQueue
    \/ DispatchNext
    \/ \E m \in Resume : ResumeRun(m)
    \/ \E r \in Run : Enqueue(r)
    \/ \E r \in Run : LoseHandOver(r)
    \/ \E r \in Run : LoseJob(r)
    \/ \E r \in Run : ExpireResult(r)
    \/ \E r \in Run : TakeJob(r)
    \/ \E r \in Run : RunStep(r)

Spec == Init /\ [][Next]_vars

(* Fairness.  A transaction that holds a lock ends; a live process calls ARQ *)
(* after its commit; a worker takes waiting jobs; the recovery loop visits   *)
(* the thread and the reconciler its runtime; a kept result expires.  No user*)
(* has to act, and no run has to end.                                        *)
Fairness ==
    /\ WF_vars(IntakeReject \/ IntakeInsert \/ IntakeDispatch)
    /\ WF_vars(DispatchNext)
    /\ \A r \in Run :
        /\ WF_vars(Enqueue(r))
        /\ WF_vars(TakeJob(r))
        /\ WF_vars(ExpireResult(r))
        /\ WF_vars(CleanRuntime(r))
        /\ WF_vars(\E st \in Terminal : Finish(r, st))

FairSpec == Spec /\ Fairness

-----------------------------------------------------------------------------
(* Properties.                                                             *)

\* The thread never has two runs that are active or owe a cleanup, although runs
\* are created by intake, continue, recovery and resume from reads that runs may
\* overtake: uq_agent_runs_one_active_per_thread is never needed.
OneRunAtATime ==
    \A r, o \in Run :
        (run[r] \in Active \/ cleanup[r]) /\ (run[o] \in Active \/ cleanup[o]) => r = o

\* The queue implements the protocol of its thread: one run at a time, served in the
\* order of arrival with at most one steer before everybody else, every request
\* admitted once; a resume run is the only one that does not come from the line.
\* Runs occupy the thread until their runtime is cleaned.
InLine == {q \in Queued : policy[q] # "steer"}

Thread == INSTANCE ThreadProtocol WITH
    known    <- {q \in Request : status[q] # "absent"},
    tickets  <- clock,
    line     <- [q \in InLine |-> created[q]],
    steer    <- Queued \ InLine,
    occupant <- {r \in Run : run[r] \in Active \/ cleanup[r]}

ImplementsThread == Thread!Spec

\* While a run gives way to a steer, that steer stays the next request: it is neither
\* dispatched nor cancelled, unless cancelled by a call that read the request before it
\* became a steer and therefore never asked whether a run is active.
Steer(q) == status[q] = "queued" /\ policy[q] = "steer"

YieldKeepsSteer ==
    [][\A q \in Request :
        yielding # {} /\ Steer(q) =>
            \/ Steer(q)'
            \/ <<q, "cancel">> \in calls /\ status'[q] = "cancelled"]_vars

\* The runs of the thread keep the contract that AgentRun keeps with all its leases,
\* workers and subagents (AgentRun!ImplementsThreadRuns): a run is only added to a
\* free thread; while the thread waits for its user only a resume run is, or the chat
\* run of an intake that still takes the newest run for active; and what happens to
\* the one run in between is what a worker can do to it.
Runs == INSTANCE ThreadRuns WITH
    Chat <- Request, status <- run, claimed <- started, owes <- cleanup,
    unaware <- tx.seen \in Active

ImplementsThreadRuns == Runs!Spec

\* No committed run is left without a delivery: whatever was lost, a pending run
\* reaches a worker.
PendingRunStarts ==
    \A r \in Run : run[r] = "pending" ~> run[r] # "pending"

\* A queue whose head may run does not stall.
ReadyQueueMoves ==
    \A q \in Request :
        (q \in QueueHead(Queued, policy) /\ Ready(q))
            ~> ~(q \in QueueHead(Queued, policy) /\ Ready(q))

=============================================================================
