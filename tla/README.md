# TLA+ verification of the Yuxi run and task runtime

This directory holds TLA+ models of the durable core of the Yuxi platform (the
repository under `src/`), the TLC configurations that check them on small
instances, and TLAPS proofs for every instance. Paths below are relative to
`src/backend/package/yuxi/` unless they start with `src/`.

The core is the part of the program in which several processes write the same
PostgreSQL rows: API processes, any number of ARQ workers that receive each job
at least once, and periodic reconcilers inside every worker; around it are the
services that keep state outside that database, the sandbox provisioner with its
containers and the knowledge bases with their vectors in Milvus. Its correctness
rests on row locks, leases, fencing tokens, generations and status guards, which
unit tests exercise one interleaving at a time.

## 1. Inventory

| Component | State it keeps | Operations | Interacts with |
|---|---|---|---|
| **AgentRun lifecycle** (`repositories/agent_run_repository.py`, `services/run_worker.py`) | `agent_runs` (status, worker_id, lease, started_at, runtime_cleanup_pending, output_message_id, created_by_run_id), `agent_run_attempts` | claim, heartbeat, terminal, retry release, cancel tree, close tree, lease reconciliation, runtime cleanup, storage migration; `process_agent_run` | ARQ (delivery), request queue (creates chat runs, is called when a run completes), subagents, sandbox provider, chat service (output) |
| **Request queue** (`services/agent_request_queue_service.py`, `repositories/agent_run_request_repository.py`) | `agent_run_requests` (status, policy, created_at) under the lock of the conversation row | intake, steer, cancel, continue, relay, recovery | runs (reads newest and active), ARQ (enqueue), steer middleware |
| **Durable tasks** (`repositories/task_repository.py`, `services/task_service.py`, `task_queue_service.py`, `task_registry.py`) | `tasks` (status, cancel_requested, worker_id, lease, attempt_count, dedupe_key) | create, publish, cancel, claim, checkpoint, finish, requeue, release, reconcile, prune | ARQ, knowledge and evaluation handlers, which keep their own status rows and register failure hooks |
| **Subagent runs** (`services/subagent_run_service.py`) | `subagent_threads`, runs of type subagent | start, continue | creator run (row lock), ARQ |
| **Agent run API** (`services/agent_run_service.py`) | – | resume, cancel, views, SSE | all of the above |
| **Run output and audits** (`services/chat_service.py`, audit repositories) | messages of an attempt | fenced start/end of model and tool calls, output with terminal status | AgentRun fence |
| **Sandbox provider** (`agents/backends/sandbox/provider.py`) | cached connections with a generation, per process | get, touch, release, shutdown | run cleanup fence, provisioner (HTTP) |
| **Sandbox provisioner** (`src/docker/sandbox_provisioner/app.py`) | containers; in memory: operation pins, deletions, quiescence gate, last activity | create, discover, touch, delete, proxy, idle reaping, quiesce | Docker, providers, the agents' file and shell tools through the proxy |
| **Scheduled agents** (`services/scheduled_agent_service.py`) | jobs, trigger records | create, update, delete, run now, claim due, dispatch, recover | run submission, request queue |
| **Run events** (`services/run_queue_service.py`) | Redis streams, cancel keys | append, list, signal | worker, SSE |
| **Knowledge files** (`knowledge/base.py`, `knowledge/implementations/milvus.py`, `repositories/knowledge_file_repository.py`, `knowledge_parent_child_chunk_repository.py`, `services/knowledge_task_service.py`) | file status and processing owner, document versions, chunks and vectors in Milvus | parse, index along two paths, publish, roll back, clean up, delete | durable tasks (attempt fence, failure hook), Milvus, MinIO |
| **Evaluation** (`knowledge/eval/service.py`) | datasets, evaluation runs | generate, resume, finish, fail | durable tasks |
| Graph, parsing, chunking, retrieval; agents, tools, skills, MCP; identity, API keys, login limits; workspace; migrations; HTTP routes; web and CLI | | | |

Hard behaviours, component by component, and what makes the component correct:

* **AgentRun.** Duplicate deliveries; a worker that lost its lease and does not
  know; a durable cancellation read in one transaction and acted on in the next;
  a runtime shared by a run, its subagents and its successor, destroyed outside
  the database; the finally block running after the run is visibly over. *Correct
  if* ownership, attempts and leases agree, an expired owner can do nothing, ended
  runs are final, the execution tree is closed with its root, the runtime outlives
  its owner, and every cancellation, orphan and owed cleanup converges.
* **Request queue.** Runs end without the conversation lock, between two reads of
  an intake; objects of a session are older than the lock it waited for; ARQ drops job
  ids it still knows; hand-over after commit can be lost.
  *Correct if* there is one run at a time, nothing overtakes, steer and reject
  keep their meaning, an interrupted thread is only resumed, and no committed run
  or ready queue stalls. Two of these hold with exceptions (section 7).
* **Durable tasks.** Count-then-claim; late commits; six ways for a task to end,
  each with a hook; cancellation against success and retry. *Correct if* capacity
  and exclusivity hold, dedupe keys hold across retries, failures leave no
  intermediate domain state, late results are refused and every task ends.
* **Scheduled agents.** A trigger is claimed, submitted and recorded as submitted
  in three transactions, by the loop of any worker, a recovery round and a user at
  once. *Correct if* triggers of a job do not overlap, the row of a trigger tells
  the truth about its submission, a pause is not made up for, and no trigger is lost.
* **Knowledge files.** A file status bound to a task attempt, and vectors in a
  store without transactions. *Correct if* no file stays in parsing or indexing
  after its task ended, no late attempt writes, what is shown as indexed can be
  found, a failing reslice takes nothing away that is published, and somebody knows of
  every version that is to be cleaned. The first and the last hold only while a write
  or an enqueue that handles a failure does not fail itself (section 7).
* **Sandbox.** Caches in several processes, deletes that outlive the call that
  asked for them, a reaper, long proxy requests that may be cancelled, a migration that
  must find no container. *Correct if* a release never deletes a container created
  after its client read the generation it names, quiescence leaves none, and every
  deletion and owed release ends.

`PROJECT.json` lists every component with its status and every hazard with the
line at which it bites.

## 2. Plan

| # | Module | Models | Status |
|---|---|---|---|
| 1 | `AgentRun` | run lifecycle of one execution scope | done |
| 2 | `RunLifecycle` | abstract lifecycle of a run, implemented by `AgentRun` | done |
| 3 | `RequestQueue` | one thread's queue over abstract runs | done |
| 4 | `ThreadProtocol` | abstract line with one server, implemented by `RequestQueue` | done |
| 5 | `DurableTask` | background tasks | done |
| 6 | `KnowledgeFile` | parsing, indexing and publication of a file, with the tasks around it | done |
| 7 | `ScheduledAgent` | jobs and triggers as clients of the queue | done |
| 8 | `Sandbox` | provider caches, provisioner, reaper, proxy, quiescence | done |
| 9 | `ThreadRuns` | abstract runs of one thread, implemented by `AgentRun` and by `RequestQueue` | done |
| 10 | `TaskLife` | abstract life of durable tasks, implemented by `DurableTask` | done |
| 11 | `AgentRunProofs`, `AgentRunSafetyProofs` | types, ownership, tree and runtime of the lifecycle, proved | done |
| 12 | `AgentRunRefinementProofs` | `AgentRun` implements `RunLifecycle` and `ThreadRuns`, proved | done |
| 13 | `RequestQueueProofs` | the queue and that it implements `ThreadProtocol` and `ThreadRuns`, proved | done |
| 14 | `DurableTaskProofs` | the tasks and that they implement `TaskLife`, proved | done |
| 15 | `ScheduledAgentProofs`, `SandboxProofs`, `KnowledgeFileProofs` | the safety properties of the other components, proved | done |

Next, if the project goes on: abstract specifications of the sandbox and of a
scheduled job, continuing a child thread of a subagent, the event
stream and its cursor, the Kubernetes backend of the provisioner, evaluation runs
as a client of `DurableTask`.

## 3. Modules and the code

### `AgentRun`

One execution scope: the chat and resume runs of one conversation thread and the
subagent runs below them. Each variable is a column or a set of rows (the comment
at each `VARIABLES` line says which), except `pc` (where an invocation of
`process_agent_run` is), `sandbox` (what became of the runtime an invocation
acquired) and `asked` (history: whom users cancelled).

* A database transaction is one action. Every one of them locks the run row
  first, so this is the granularity at which the code interleaves. What a worker
  reads in one transaction and uses in a later one is in its `pc`.
* A token is one invocation (`_run_owner_token` makes a fresh one each time), so
  redelivery, a second worker and a late worker are simply other tokens.
* `SetTerminal` is `set_terminal_status` with the tree closing that each caller
  does in the same transaction; `MarkTerminal`, `SaveAndEnd` and `EndStream` are
  its callers.
* `lease` counts down with `Tick`; 0 is "expired or NULL", which no guard of the
  code tells apart. Time is thus as fast or slow as any behaviour needs.
* The stream is abstracted to its effects: audits, partial output, subagents,
  runtime use, and the ways it ends. What the graph computes is left out.
* Several branches of `process_agent_run` differ in events and error texts only;
  they are one action (`Fail` stands for all writes of "failed").

### `RequestQueue`

One thread. `tx` is the row lock of the conversation together with the intake
transaction under it: intake takes three steps (reads, insert, dispatch) because
runs end in between. The other operations do under the lock in one step what they do
there, but a session keeps the objects it has loaded: a row selected again, even with
`FOR UPDATE`, is the object with the attributes of the first read (only the
conversation is refreshed, `populate_existing`), while whatever SQL filters is fresh.
This is what the model keeps of the two places where it matters:

* `calls` are the steer and cancel calls that have read a waiting request before they
  wait for the lock (`ReadRequest`); they check that object and write over whatever the
  row has become (`Answered`, `SteerQueued`, `CancelQueued`). Whether a run is active or
  another steer waits is asked of the database.
* `tx.seen` is the status of the newest run at the checks of the intake, which its
  dispatch reads again from the object (`ReadyAfter`). Whether a run occupies the thread
  is asked of the database (`Busy`).

`Finish` is preceded by `Stamp`, because `finished_at` is taken before the
terminal transaction commits. `job` is what ARQ knows under the id `run:{id}`,
including the result kept for 60 seconds, which makes `enqueue_job` drop a new
job; `sending` are runs whose process has committed but not called ARQ yet.
`get_active_run_by_runtime_scope_for_user`, which also sees subagents, is read as
`Busy`: while a subagent of the scope is active, its root is active or still owes
its cleanup (`ExecutionTreeClosed`, `MayRelease` and `CleanupFence` of `AgentRun`).
Attachments, model selection and idempotent replays of a known request id leave
no trace in this state and are left out.

### `RunLifecycle`, `ThreadProtocol`, `ThreadRuns` and `TaskLife`: what is promised

`RunLifecycle` says what a reader of `agent_runs` may rely on, without leases,
workers, cleanups or trees: how status and owner of one run change together
(`Claimed`, `GivenBack`, `Ended`, ...), that an output once there stays and a
completed run has one, that no call is left running in an ended run, that a run
told to stop ends as cancelled or, its owner lost, as failed, and which changes
may happen to several runs in one step. `AgentRun!ImplementsLifecycle` is
`Lifecycle!Spec` with `owner <- worker, result <- output, busy <- audit`.

`ThreadProtocol` is the queue of a thread as its clients see it: a line ordered by
tickets, one urgent request before it, a single server, and continuations that
occupy the server outside the line. `RequestQueue!ImplementsThread` maps a ticket
to `created_at`, the server to the run or cleanup that keeps the thread busy. In
one step of the code's intake the request may also find the head served; all
other operations map one to one, and the ends of runs to `Free`. Pauses after a
failed run are not part of the promise (section 7).

`ThreadRuns` is what the queue and the workers know of each other: the chat and
resume runs of a thread with their status, whether a worker ever claimed them,
whether they owe the release of a runtime, and which is the newest. It says who may
add a run (nobody while one is active or owes its release; a resume run only when the
newest run waits for its user, and a chat run only when it does not, or as far as an
intake knows that read it while it was active: `unaware`) and what becomes of the one run
in between. `unaware` is `tx.seen \in Active` in the queue and TRUE in `AgentRun`, which
leaves to the queue what an intake may overlook.
`AgentRun!ImplementsThreadRuns` reads it off the root runs of the scope
(`claimed <- {r : started[r]}`), `RequestQueue!ImplementsThreadRuns` off the
abstract runs of the queue. Both models keep this one
contract: what the queue assumes of runs and what the lifecycle assumes of whoever
creates them do not drift apart. The storage migration (`Migrate`) is taken by
`AgentRun` only: it runs offline, before any queue.

`TaskLife` is a durable task as the code that enqueues it relies on it: without
workers, messages, leases, locks and unlocked reads, an attempt whose lease ran out
being "lost". It says when a task may be created, within which capacity it is
executed, what its attempt may write, that a task that was told to stop neither
succeeds nor is given another attempt, that a lost one can only fail, and that every
step which ends a task without success closes its domain state. Several tasks may
be lost in one step (time) or fail in one step (reconciliation); everything else
happens to one task at a time. `DurableTask!ImplementsTaskLife` is `TaskLife` with
`state <- "lost" for a running row without lease, else status`, `told <- cancel`,
`tries <- attempts`.

### `DurableTask`

Rows, wake-up messages and worker slots. `CountRunning` and `Claim` are the two
halves of `claim` with the advisory lock (`gate`) between them; all other
transactions are atomic under the row lock. `seen` is what `cancel_task` read
without a lock. Of what handlers write, one bit per task is kept (`open`): an
intermediate status in the domain tables, for those task types whose failure hook
closes it. `Legacy` are the rows that the schema migration found pending or
running (`handler_version` 0). `Retryable` and `Hooked` are disjoint
(`RegistrySeparates`), as they are in `task_registry.py`.

### `ScheduledAgent`

One job. An occurrence is named by its `scheduled_for` (`Slot`), a manual start by
its request id; both are triggers. Operations on the job hold its row lock up to
their commit and are one action. `Dispatch`, `Intake`, `Mark` and `Settle` are the
transactions of `dispatch_scheduled_run` in one process (`pc`, `at`): the commit
inside `submit_run_command` drops the lock of the trigger (`Locked`) before
"submitted" is written. A request is reduced to absent, active and ended; its own
life is `RequestQueue` and `AgentRun`. Recovery waits until a trigger is 30 seconds
old; since a dispatch may be slower than that at any point, `Recover` is always
possible. `floor` and `hidden` are history. `has_active_run` takes a run that was
interrupted for the user's answer as ended; so does `RequestEnds`.

### `Sandbox`

One scope: provider processes (`Client`), requests through the proxy (`Proxy`), the
idle reaper and the quiescing migration, over the provisioner's memory (`pins`,
`deleting`, `gate`, `creating`, `activity`) and one container whose generation is
counted. A provider call is a sequence of HTTP calls under the scope lock of its
process, `pc` says where it is; `del` and `want` are the delete handlers, which go on
when their caller has given up. `Look`/`Looked` are discover and touch with the pin
held in between; `BeginDelete`, `Drain`, `Execute`, `EndDelete` the parts of the three
handlers that delete. `Restart` loses the memory of the service. `FreeThread` is the
default executor of the event loop, in which `proxy_sandbox_request` waits for its
pin. `PoolSize` is its number of threads. `Cancelled` is a cancellation at any await of a
proxied request: at its `acquire` the thread goes on without it (`orphaned`) and takes a
pin for nobody, and a response that is dropped before it is iterated never reaches the
`finally` of its generator; both leave a pin that nobody gives back (`leaked`). `known` is
history: which container was the newest when a client read the generation that its cache,
its call or its delete handler names.

### `KnowledgeFile`

One file, the tasks that work on it (they have one attempt, so a task is also the
processing owner and its version has its name), the versions and chunks in both
stores, the durable cleanup task of each version and an HTTP deletion. `pc` is the
point of the handler between two transactions or calls to Milvus; the groups
`Clearing`, `Building`, `Staged`, `Undoing`, `Settling` say which failures are
possible there. `Fence` is `update_fields_if_status` with the owner filter, which
locks the task row and checks its lease; `FailProcessing` the failure hook that the
end of a task, reconciliation and the handler's own error path share. A Milvus
insert may be partial, a delete may fail, a cancellation may arrive anywhere
(`Fail`) and a second one skip the rest of a rollback. The durable task machinery is
reduced to what the fence and the hook need (`task`); `DurableTask` has the rest.
A write that settles the file and raises an ordinary exception (`SettleRaises`) is a
failed item to the loop of the handler, which goes on with the next file; the file keeps
its owner and its status (`unsettled`). The enqueueing of a cleanup may raise too
(`EnqueueCleanup`), and then nobody knows of the version any more (`forgotten`).

### `MC*` modules

They extend their module with model values, symmetry sets and views, `MCAgentRun` with
`LiveSpec` (section 5) and `MCSandbox` with `BoundedSpec` (section 4).

## 4. What the runs check

| Run | Instance | Shows |
|---|---|---|
| `AgentRun` | 1 chat, 1 resume, 1 subagent, 2 tokens, lease 2 | ownership, fencing, execution tree, runtime, cleanup fence, the abstract lifecycle and the abstract runs of the thread (about 315 000 states) |
| `AgentRunLive` | 1 chat, 1 subagent, 2 tokens, lease 1, `LiveSpec` | abandoned runs end, owed cleanups converge |
| `RequestQueueSafety` | 3 requests of all policies, 1 resume run, 2 calls in flight, 1 fault | one run, steer, the abstract thread and its abstract runs (about 747 000 states) |
| `RequestQueueLive` | 2 requests, 1 call in flight, 1 fault | pending runs start, ready queues move (about 261 000 states) |
| `DurableTaskSafety` | 1 hooked, 2 retryable tasks with one key, 2 workers, capacity 1, 2 attempts, 1 crash | capacity, exclusivity, keys, convergence and the abstract life of a task (about 757 000 states) |
| `DurableTaskLive` | 1 retryable, 1 legacy hooked task, 2 workers | every task ends |
| `ScheduledAgent` | 2 occurrences, 1 manual start, 2 dispatchers, 1 fault | no overlap by claims, truthful rows, no backfill, triggers settle (about 160 000 states) |
| `Sandbox` | 2 clients (the second one bounded), 1 proxy request, reaper, quiesce, 2 generations, 1 thread, 1 fault | generations, quiescence, deletions and releases end (about 138 000 states) |
| `KnowledgeFile` | 2 tasks, an older version, 2 cleanup attempts, 1 deletion | six properties (about 2.06 million states) |
| `AgentRunResume`, `ScheduledAgentOverlap`, `SandboxDeadlock` | smaller instances | the three disagreements of section 7 |

**Bounds and why they are enough.** Row transactions concern one run and, through
the tree, its descendants; two tokens give every race of an owner with a late or
duplicate invocation, three give an old invocation, the owner of the old run and
the owner of the new one. A subagent behaves alike towards each parent, and
subagents start nothing, so one shows every relation between two levels; the tree
walk of the code is a loop over levels, and two is the depth the creation paths
allow. A lease of 2 ticks distinguishes full, nearly expired and expired; where
only expired matters it is 1. Two tasks over one key, one capacity and two slots
let every pair of transactions of the task code meet; `MaxAttempts` 2 separates a
retry from exhaustion. Two steer or cancel calls in flight (`MaxCalls`) give a cancel
that read before a promotion and the promotion itself; further calls only repeat what
one of them does. `MaxFaults` bounds rollbacks, lost messages (queue),
crashes (tasks, dispatchers) and restarts, backend errors, timeouts and cancelled
requests (sandbox) only to keep the state space finite; in `AgentRun` and
`KnowledgeFile` crashes are unbounded because every token and every task has one life.
Two occurrences and a manual start give an earlier, a current and a competing trigger; two dispatchers a
slow one and its recovery. Two clients of the provisioner give a cache and the process
that makes it stale, and a delete handler that its client gave up is a third actor of
its own; two generations give an old and a new container. `Bounded` of `MCSandbox` keeps
that instance small: the first client meets everything; the second one starts its calls
only while nothing has failed, nobody migrates and no request is proxied, none of which
begins while it is in use, and a call starts only while the other client is idle or waits
for its delete (in the code, too, the scope lock and the cleanup fence let one call of a
scope run at a time). Only steps without fairness are left out; the retry of an owed
cleanup is never one of them. One proxy request suffices except for the deadlock,
which needs one more request than threads. Two tasks on one file give an old attempt
and its successor, and with the older version two publications in a row.

**Symmetry and views.** Symmetry is used in runs without liveness properties only: of
tokens, requests and knowledge tasks, and in `DurableTaskSafety` of the two slots
and, independently, of the two retryable tasks with one key (`SlotAndTaskSymmetry`).
The members of each of these sets have the same roles in every definition and every
property. A view leaves out history variables no property of the run reads
(`NoHistory`) and parts of the state no later step or property reads (`Relevant`:
columns of rows that ended, distances of timestamps to the clock instead of the
timestamps).

**Deadlock** is not checked: when every run, request and task has ended and every
token is used up, the system rightly has nothing to do.

**Mutants.** Each property of each passing run has a mutant: a plausible mistake
in one definition (a dropped guard, a forgotten column, a stale read) written next
to it in the module, with which TLC finds the property violated.

## 5. Fairness

* *Time* (`Tick`) passes.
* *Reconcilers*: every worker repeats `_reconcile_agent_run_leases_forever` and
  `_reconcile_durable_tasks_forever`; weak fairness of lease reconciliation,
  runtime cleanup, publication and recovery dispatch. This assumes that some
  worker is up and that the provisioner eventually deletes, which is what the
  loops themselves retry for.
* *Handlers*: a live event loop carries an exception handler to its end
  (`Handler`), and polls the durable cancellation (`NoticeCancel`). A crash
  disables them for good.
* *ARQ* serves waiting jobs. `DurableTask` needs strong fairness for `Deliver` and
  `ClaimStep`, because slots and the capacity are taken and freed again and again;
  ARQ takes jobs in the order of their time, and the reconciler re-publishes.
* *Handlers of tasks* end, because `process_task` bounds them with
  `timeout_seconds`.
* *Scheduled agents*: the loop of every worker recovers open triggers and claims due
  jobs each round (`recover_scheduled_dispatches`, `claim_and_dispatch_due_jobs`), and
  a live process carries its dispatch on: weak fairness of each.
* *Sandbox*: delete handlers, the reaper's and the quiescing handler's steps are weakly
  fair, and so is the retry of an owed cleanup (`reconcile_pending_runtime_cleanups`).
  Provider calls and proxy requests are strongly fair: what they wait for (a pin, a
  thread) is free again and again, `end_delete` notifies every waiter, and the executor
  serves its queue in order. Nothing forces a client to ask for a sandbox.
* Nothing forces users, the model, a run, or a heartbeat: a run may take for ever,
  and no liveness property says that it ends by itself.

`LiveSpec` of `MCAgentRun` is `Init /\ [][Next /\ Quiet]_vars /\ Fairness`: audits,
partial outputs and runtime acquisitions do not happen. No guard of the actions
that the liveness properties rely on reads them, except that "completed" needs an
output, and an attempt may always fail instead; the safety runs cover them.

## 6. Proofs

The theorems hold for every value of the constants: any sets of runs, requests,
tasks, invocations, workers, clients and occurrences, any lease, capacity, number of
attempts, and any bound on faults, generations and time. They rest only on the named
assumptions next to the `CONSTANTS` of each module: roles are disjoint, `None` is no
value, limits are counts or positive; besides, `TasksFinite` of `DurableTask` (a
capacity is a count of rows), `RegistrySeparates` (no task type is both retryable and
has a failure hook, as in `task_registry.py`) and `LegacyRowsHaveNoKey`. TLC evaluates
all of them in the runs.

Every module of proofs has the same shape: lemmas about the operators that several
actions share, one lemma per conjunct of the invariant with a step for each action
(or group of actions) that can disturb it, and a theorem that ends in temporal logic.

| Module | Proved (`Spec => ...`) | From the inductive invariant |
|---|---|---|
| `AgentRunProofs` | `TypeOK` | itself |
| `AgentRunSafetyProofs` | `AttemptMatchesOwner`, `SubagentsStop`, `ExpiredOwnershipOnlyFails`, `CleanupFence`, `RuntimeOutlivesOwner` | those five and `InvocationShape`, `TreeShape`, in layers |
| `AgentRunRefinementProofs` | `ImplementsLifecycle`, `ImplementsThreadRuns`, `ExecutionTreeClosed`; from the lifecycle alone `EndedIsWhole`, `NothingComesBack` | the layers above and `QuietStart`, `RootShape`, `SubagentShape` |
| `RequestQueueProofs` | `TypeOK`, `OneRunAtATime`, `YieldKeepsSteer`, `ImplementsThread`, `ImplementsThreadRuns`, `RequestsEndOnce` | `TypeOK`, `TxShape`, `CallShape`, `OneRunAtATime`, `Tickets`, `RunShape`, `RejectShape`, `YieldActive` |
| `DurableTaskProofs` | `TypeOK`, `OneExecution`, `CapacityBounded`, `OneTaskPerKey`, `FailureConverged`, `ImplementsTaskLife`; from the task life alone `CancelHonoured`, `ExpiredOnlyFails`, `OneAttempt`, `StagesFollow` | `TypeOK`, `HasJob`, `AttemptsLeft`, and `LifeInv` (`HookInv`, `CountHolds`, `KeyHeld`, `LabelsMean`) |
| `ScheduledAgentProofs` | `TypeOK`, `NoBackfill`, `TriggerTellsTruth`, `OneLiveTrigger` | `TypeOK`, `Aimed`, `LockHeld`, `PlanAhead`, `Books` |
| `SandboxProofs` | `TypeOK`, `QuiescedIsEmpty`, `ReleaseSparesNewer`, `OnlyCancelledRequestsLeak` | `TypeOK`, `Quiet`, `Known`, `Pinned`, `Marked` |
| `KnowledgeFileProofs` | `TypeOK`, `IntermediateIsHandled`, `SupersededIsTracked`, `RowOutlivesVectors`, `PublishedIsKept`, `IndexedIsSearchable`, `RowInOneHand`, `PublishedByOwner` | `Inv` (the fences), and `Orderly` (the lock) |

Every invariant and every action property that a run checks is a theorem, and so are
the five refinements of the four abstract specifications. The properties that are named
here and checked by no run
(`SubagentsStop`, `EndedIsWhole`, `NothingComesBack`, `RequestsEndOnce`,
`CancelHonoured`, `ExpiredOnlyFails`, `OneAttempt`, `StagesFollow`,
`OnlyCancelledRequestsLeak`, `RowInOneHand`, `PublishedByOwner`) were checked by TLC on the
instances of section 4 before they were proved. They are halves or consequences of
properties that have a run, the safety side of a liveness property
(`OnlyCancelledRequestsLeak`), what one component assumes of another, or, for the file row, the single steps behind the
invariants that have a run.

Why the strengthenings are needed, and what they say about the code:

* **AgentRun.** `AttemptMatchesOwner` is inductive relative to `TypeOK`: every action
  that changes `worker` changes the attempt of the same token with it. That an owned
  run is leased and started is part of it; without that a queued run could be reset
  while it is owned. The tree needs `InvocationShape` (an invocation that works for a
  run it owns is where the code says it is) and `TreeShape` (who may have created
  whom; nothing is below itself), because one transaction writes a whole subtree.
  `CleanupFence` comes before `RuntimeOutlivesOwner`: a runtime is destroyed only
  under a fence that no owner can pass. `ExecutionTreeClosed` has two halves:
  `SubagentsStop` (a subagent is queued or running only while its creator runs) is
  what the fence rests on; `SubagentsHoldThread` (while a stopped subagent is not
  confirmed, its creator is active or owes its cleanup) rests in turn on the fence.
  The queue reads `Busy` off root runs only, and this second half is why it may.
* **The lifecycle.** Each transaction is mapped to a step of `RunLifecycle`: the run
  it is about takes the step, the rows of its tree stay or are told to stop.
  `QuietStart` (a run that was never claimed has no audit) is what lets a queued
  subagent be cancelled in one step. `EndedIsWhole` and `NothingComesBack` are derived
  from `Lifecycle!Spec` and nothing else, so they show that the abstract specification
  is strong enough for its readers: ended rows are final and whole, nobody takes a run
  over from another owner.
* **The runs of a thread.** `RootShape`: a root run that owes a release or was told to
  stop has been claimed, which `ThreadRuns` needs to tell a stop from a withdrawal.
  `SubagentShape`: the creator of a subagent has been claimed, so that its end is never
  a withdrawal that owes nothing, and the subagent keeps the thread busy through it.
* **Request queue.** `TxShape` says what the open intake transaction has read and
  still holds under the lock of the conversation: a steer found no other steer.
  `CallShape`: a request that a steer or cancel call has read was queued, so by now it is
  queued, dispatched or cancelled, and writing over it admits nothing a second time.
  `Tickets` says that whoever waits came earlier than the request that is committing,
  so that a request is really put at the end of the line. `OneRunAtATime` is used in
  the mapping because the server of `ThreadProtocol` is the set of runs that are
  active or owe a cleanup. `YieldKeepsSteer` needs `YieldActive` (a run that gives way is
  active, so nothing is dispatched meanwhile). `RunShape` says that a run is committed
  together with the status of its request, that one cancelled while it waits was
  never claimed, and that what an intake has read of the newest run is still so or was
  "active", which `ImplementsThreadRuns` needs: an intake overlooks the end of a run, but
  takes no finished run for another one. `RejectShape` is the one fact of an
  intake that `RequestsEndOnce` needs.
* **Durable tasks.** `HasJob` and `AttemptsLeft` type the work of a slot. Capacity
  needs `CountHolds`: who has counted holds the advisory lock, and nobody else can
  add a running task until the row is written. `KeyHeld` is the unique key, which
  every path that leaves a task active must carry along. `HookInv` says
  that rows of the migration are never worked on, that a hooked task never goes back
  to pending once it was told to stop (here `RegistrySeparates` is used), and hence
  that a `cancel_task` which read "running" never finds the row pending, where it would
  end it without the hook. `LabelsMean` says what the way in which a handler is
  about to end (`pc`) tells about its row: only a retryable task is given back, and
  "cancelled" is said by a handler that was told to stop. Together they are
  `LifeInv`, from which each transaction is mapped to `TaskLife`. `CancelHonoured`, `ExpiredOnlyFails`, `OneAttempt` and `StagesFollow` are
  then consequences of `TaskLife`.
* **Scheduled agents.** `LockHeld` gives the trigger row to one process between its
  dispatch and its commit; `PlanAhead` says that no occurrence at or after the
  planned instant has been recorded, so a claim never meets its own trigger. `Books`
  couples the five statements about trigger rows, which are inductive only together.
* **Sandbox.** `Quiet` adds to `QuiescedIsEmpty` that no creation is on its way once
  the gate is shut and the count was taken. `Known` says that what exists is the newest
  container, and (`Noted`) that the generations which a client keeps in its cache, its
  call and its delete handler are those it read, each the newest of its time, and that
  no deletion goes without one: from the comparison of generations in `backend.delete` it
  then follows that what a client deletes is not newer than what it has read.
  `Pinned` and `Marked` are the safety side of `DeletionEnds`: every pin that has not
  leaked has a holder that gives it back, and every mark of a deletion a handler that
  takes it away, whoever gives up, fails or restarts. The third part of
  `OnlyCancelledRequestsLeak` says which steps leak: an orphaned thread that takes its
  pin, and the cancellation of a response before it is iterated.
* **Knowledge files.** Two layers show which mechanism carries which property. `Inv`
  uses only the fences of the owner and the task, and gives everything about
  versions, rows and cleanups: these would hold without the advisory lock. Its invariants
  name their exceptions by history: a file stays in parsing or indexing only for an owner
  in `unsettled`, a superseded version is lost only if it is in `forgotten`. `Orderly`
  uses the lock: while a handler is at the file, the stores hold what its point in
  the code implies. `IndexedIsSearchable` and `PublishedIsKept` depend on it: a task
  that lost its lease may still be deleting while its successor would publish.
  `RowInOneHand` and `PublishedByOwner` say the same of single steps: whatever happens
  to the row is a claim, a settlement by the live owner under the lock, a failure of
  the owner, or the removal of the file.

**How the components fit together.** A module that is a client of another one keeps
only a small state of it. What it assumes there is a theorem of the other module:

| Assumed by | of | is proved as |
|---|---|---|
| `RequestQueue`: what a worker does to the run of a thread | `AgentRun` | both implement `ThreadRuns` |
| `RequestQueue`: `Busy` needs root runs only | `AgentRun` | `ExecutionTreeClosed`, `CleanupFence` |
| `ScheduledAgent`: a request is absent, active, ended | `RequestQueue` | `RequestsEndOnce` (its requests are never of policy "reject"; one that is cancelled over its dispatch reads as ended while its run goes on, and `has_active_run` reads it so, too) |
| `KnowledgeFile`: one attempt, running, expired, ended | `DurableTask` | `OneAttempt`, `StagesFollow` (its task types are not retryable) |
| `KnowledgeFile`: the hook runs with the end of the task | `DurableTask` | `ImplementsTaskLife` (`Converges`) |
| `AgentRun`: a release takes no later runtime of the scope away | `Sandbox` | `ReleaseSparesNewer` |
| any reader of `agent_runs`: a terminal status is the end | `AgentRun` | `EndedIsWhole`, `NothingComesBack` |

These are statements about what a component may do. That a client model allows
everything the other component may do (for instance that the queue's runs can take
every step of `ThreadRuns` but the migration) is a statement about `ENABLED`; it is
not proved, and follows from reading the two modules side by side.

Only model-checked: the liveness properties (`AbandonedRunEnds`, `CleanupConverges`,
`PendingRunStarts`, `ReadyQueueMoves`, `TaskSettles`, `TriggerSettles`, `DeletionEnds`,
`ReleaseConverges`), because the prover has no reasoning about fairness and `ENABLED`.
`OnlyCancelledRequestsLeak` and the refinements are the part of them that safety can
express.
The three disagreements of section 7 are counterexamples found by TLC.

## 7. Where the code and its documents disagree

1. `AgentRunResume`: `src/docs/agents/agent-request-queue.md:83` says an interrupted
   run can be resumed; the resume run is below the interrupted run in
   `created_by_run_id`, and the finally block of the interrupted run, or a
   redelivery of its job, closes that "execution tree" and cancels the resume run.
   The window of the finally block is the time between the end event and the end
   of the invocation; a redelivery may come any time the job is retried.
2. `ScheduledAgentOverlap`: the decision of 2026-08-26 says that an occurrence is
   skipped while an earlier request or run of the job has not ended. A dispatch that
   has submitted its request but not yet recorded it can be overtaken by a recovery
   which finds the job switched off and cancels the trigger without looking for the
   request; switched on again, the job starts its next occurrence beside it.
   `OneLiveTrigger` shows that this is the only way: without those triggers
   (`hidden`) nothing overlaps.
3. `SandboxDeadlock`: `SandboxOperationPins` lets a deletion wait for the proxy
   requests that have started and stops new ones. The new ones wait in threads of the
   default executor, in which the started ones still have to run their `discover`;
   when the waiting ones have taken all of them, deletion and requests wait for each
   other for ever. With fewer waiting requests than threads `DeletionEnds` holds.

Observed while modelling, without a document that says otherwise:

* `cancel_requested` without an owner (a cancel after a retry release) contradicts
  `src/ARCHITECTURE.md:103`, but `mark_running` and the reconciler are prepared for
  it; `AbandonedRunEnds` covers that such a run ends.
* Requests paused by a failed run follow by themselves after a later steer request
  completes (`_get_queue_state` derives the pause from head and newest run).
* `_deleting` of the provisioner is a set: of two overlapping deletions the one that
  ends first lets new requests in while the other still waits. `DeletionEnds` and
  `ReleaseConverges` leave such an overtaken deletion out.
* A staging version whose rollback fails leaves rows or vectors behind that nobody
  refers to, and a superseded version is forgotten if its worker dies before the
  cleanup. If the durable cleanup task cannot be created
  (`knowledge/implementations/milvus.py:1012`), the exception is deferred and recorded as a failed item (1165, 1166), and the version
  is forgotten too; these are the versions that `SupersededIsTracked` exempts.
* A write that gives a file its error status may raise itself (`knowledge/base.py:424`).
  The loops of the handlers (`services/knowledge_task_service.py:105`, 132, 214, 290, 356)
  take that for one more failed file; the task may end in success, its hook does not run,
  and the file stays in parsing or indexing. `IntermediateIsHandled` exempts these owners
  and shows that nothing else leaves a file there.

Weaker than its comments, and therefore named in the properties as exceptions:

* `cancel_queued_request` says "已 dispatched 的不可取消" and "先锁定 Conversation，再在
  `SELECT ... FOR UPDATE` 后判断最终请求状态"
  (`services/agent_request_queue_service.py:544`, 545). It loads the request at 549, before
  the lock (553), and 561 selects it again into the same object, whose attributes the ORM
  does not refresh. A request dispatched in between is overwritten with "cancelled" while
  its run executes (`RequestsEndOnce`), and one that became a steer in between is
  cancelled although a run has given way to it (`YieldKeepsSteer`: only such a call does
  that). `steer_queued_request` (338, 349) does the same; there it only changes the
  policy of a request that has left the queue.
* `src/docs/agents/agent-request-queue.md:92` says that a thread which waits for the user
  takes no new message. `intake_request` keeps the newest run it read (187); a run that
  is interrupted before `_get_queue_state` selects it again (885 to 888) still reads as
  active, and the message starts a chat run on the waiting thread. A run that fails or is
  cancelled there does not pause the queue. `ImplementsThreadRuns` allows it to an intake
  that has read an active run, and to nobody else.
* `SandboxOperationPins` lets a deletion wait for the requests that have started ("让删除等待
  已经开始的 proxy 请求排空", `src/docker/sandbox_provisioner/app.py:383`). A request that
  is cancelled while it awaits its `acquire` (2181, outside the `try`), or whose response
  is dropped before its generator has begun (2219 to 2227), leaves a pin behind, and every
  later deletion of that sandbox waits until the provisioner restarts. `DeletionEnds` and
  `ReleaseConverges` exempt a leaked pin; `OnlyCancelledRequestsLeak` shows that there are
  no other leaks.

## 8. Not modelled

* The storage migration in `RequestQueue`: it is an offline step of `AgentRun`, and the
  queue starts on what it leaves.
* Result views, SSE and event streams: Redis is only a notification; the database
  state it announces is modelled.
* Message contents and audit reconciliation, attachments, prompts, manifests, timing
  points, token usage: data without control.
* Of the knowledge bases: upload, folders, statistics and search, chunking and parsing
  (pure data transformation), the graph projection (it is deleted by the same calls as
  the vectors), and the handlers of evaluation and dataset generation, whose protocol
  with their task is the `open` bit of `DurableTask`.
* Of the knowledge files: a commit of `activate_version` whose outcome the worker does not
  learn, and `update_file_params`, which changes parameters outside the processing lock.
* Of the run lifecycle: the branch of `set_terminal_status` for callers without a token,
  which `run_worker` never uses.
* Of the sandbox: the Kubernetes and memory backends, networks, mounts, capacity and
  readiness probes.
* Identity, API keys, login limits, OIDC, configuration, workspace and skills: single-row
  or file operations. HTTP routes, web front end and CLI: thin layers or user interfaces.
  These and the data transformations are most of the repository's lines; the model
  covers the part in which concurrent actors share durable state.

## 9. Running

    tlc -workers 2 -config AgentRun.cfg MCAgentRun
    tlapm AgentRunSafetyProofs.tla     # and likewise every other *Proofs.tla
