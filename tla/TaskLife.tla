------------------------------ MODULE TaskLife ------------------------------
(***************************************************************************)
(* The life of durable tasks as the code that enqueues them relies on it:  *)
(* when a task may be created, when it is executed, what its attempt may   *)
(* write, and how it can end.  No workers, messages, leases, locks, keys or*)
(* unlocked reads; an attempt whose lease has run out is "lost".           *)
(***************************************************************************)
EXTENDS Naturals, FiniteSets

CONSTANTS
    Task,        \* durable tasks
    Legacy,      \* tasks of a release whose handlers are gone
    Hooked,      \* tasks with an intermediate domain state to close
    Retryable,   \* tasks that may be given another attempt
    Deduped,     \* tasks of which one at a time may be active
    MaxRunning,  \* tasks that may be executed at the same time
    MaxAttempts  \* attempts of a retryable task

VARIABLES
    state,       \* how far the task has got
    told,        \* its cancellation was requested
    open,        \* its intermediate domain state is open
    tries        \* attempts it was given

vars == <<state, told, open, tries>>

Active == {"pending", "running", "lost"}

\* Legacy tasks wait, or were lost with the worker that executed them.
Init ==
    /\ state \in [Task -> {"absent", "pending", "lost"}]
    /\ told  \in [Task -> BOOLEAN]
    /\ \A t \in Task : state[t] = "absent" <=> t \notin Legacy
    /\ \A t \in Task \ Legacy : ~told[t]
    /\ open  = [t \in Task |-> t \in Legacy \cap Hooked]
    /\ tries = [t \in Task |-> 0]

-----------------------------------------------------------------------------
Executed == {t \in Task \ Legacy : state[t] \in {"running", "lost"}}

Becomes(t, from, to) == state[t] \in from /\ state'[t] \in to

KeepsTold(t) == told'[t] = told[t]
KeepsOpen(t) == open'[t] = open[t]
KeepsTries(t) == tries'[t] = tries[t]
Stays(t) == state'[t] = state[t] /\ KeepsTold(t) /\ KeepsOpen(t) /\ KeepsTries(t)

\* The domain state of t is closed, in the step that ends t without success.
Converges(t) == open'[t] = (open[t] /\ t \notin Hooked)

-----------------------------------------------------------------------------
(* What can happen to one task.                                            *)

Created(t) ==
    /\ Becomes(t, {"absent"}, {"pending"})
    /\ t \in Deduped => \A o \in Deduped : state[o] \notin Active
    /\ open'[t] => t \in Hooked
    /\ KeepsTold(t) /\ KeepsTries(t)

\* A cancellation ends a task that waits; an attempt is only told.
Cancelled(t) ==
    /\ \/ Becomes(t, {"pending"}, {"cancelled"}) /\ Converges(t)
       \/ Becomes(t, {"running"}, {"running"}) /\ KeepsOpen(t)
       \/ Becomes(t, {"lost"}, {"lost"}) /\ KeepsOpen(t)
    /\ told'[t]
    /\ KeepsTries(t)

\* A legacy task is never executed.
Refused(t) ==
    /\ t \in Legacy
    /\ Becomes(t, {"pending"}, IF told[t] THEN {"cancelled"} ELSE {"failed"})
    /\ Converges(t)
    /\ KeepsTold(t) /\ KeepsTries(t)

\* An attempt starts, within the capacity.
Started(t) ==
    /\ Becomes(t, {"pending"}, {"running"})
    /\ t \notin Legacy
    /\ ~told[t]
    /\ Cardinality(Executed) < MaxRunning
    /\ tries'[t] = tries[t] + 1
    /\ KeepsTold(t) /\ KeepsOpen(t)

\* The attempt opens or closes the domain state.
Writes(t) ==
    /\ t \in Hooked
    /\ Becomes(t, {"running"}, {"running"})
    /\ KeepsTold(t) /\ KeepsTries(t)

\* The attempt ends the task: never with success once it was told to stop, and as
\* cancelled only if it was.
Finished(t) ==
    /\ \/ Becomes(t, {"running"}, {"success"}) /\ ~told[t] /\ (open'[t] => open[t])
       \/ Becomes(t, {"running"}, {"cancelled"}) /\ told[t] /\ Converges(t)
       \/ Becomes(t, {"running"}, {"failed"}) /\ Converges(t)
    /\ KeepsTold(t) /\ KeepsTries(t)

\* The attempt gives the task back.
GivenBack(t) ==
    /\ Becomes(t, {"running"}, {"pending"})
    /\ t \in Retryable
    /\ ~told[t]
    /\ tries[t] < MaxAttempts
    /\ KeepsTold(t) /\ KeepsOpen(t) /\ KeepsTries(t)

\* The attempt is lost, and what it still does no longer counts ...
Lost(t) ==
    /\ Becomes(t, {"running"}, {"lost"})
    /\ KeepsTold(t) /\ KeepsOpen(t) /\ KeepsTries(t)

\* ... until the task fails: nobody knows what the attempt has done.
Failed(t) ==
    /\ Becomes(t, {"lost"}, {"failed"})
    /\ Converges(t)
    /\ KeepsTold(t) /\ KeepsTries(t)

Deleted(t) ==
    /\ Becomes(t, {"success", "failed", "cancelled"}, {"deleted"})
    /\ KeepsTold(t) /\ KeepsOpen(t) /\ KeepsTries(t)

-----------------------------------------------------------------------------
(* What can happen in one step.                                            *)

Moves(t) ==
    \/ Created(t)
    \/ Cancelled(t)
    \/ Refused(t)
    \/ Started(t)
    \/ Writes(t)
    \/ Finished(t)
    \/ GivenBack(t)
    \/ Deleted(t)

Next ==
    \/ \A t \in Task : Stays(t) \/ Lost(t)
    \/ \A t \in Task : Stays(t) \/ Failed(t)
    \/ \E t \in Task : Moves(t) /\ \A o \in Task \ {t} : Stays(o)

Spec == Init /\ [][Next]_vars
=============================================================================
