---------------------------- MODULE RunLifecycle ----------------------------
(***************************************************************************)
(* What the AgentRun tables promise to everybody who reads them, without   *)
(* leases, workers, cleanups or execution trees: which changes of status   *)
(* and of ownership a run can go through, and which of them may happen to  *)
(* several runs in one step.                                               *)
(***************************************************************************)
CONSTANTS
    Run,      \* agent runs
    Token,    \* attempts
    None      \* nobody

VARIABLES
    status,   \* what a reader of the row sees
    owner,    \* the attempt that holds the run
    result,   \* the run has an output
    busy      \* a model or tool call of the run is reported as running

vars == <<status, owner, result, busy>>

Active == {"pending", "running", "cancel_requested"}
Status == {"absent", "completed", "failed", "cancelled", "interrupted"} \cup Active

Init ==
    /\ status = [r \in Run |-> "absent"]
    /\ owner  = [r \in Run |-> None]
    /\ result = [r \in Run |-> FALSE]
    /\ busy   = [r \in Run |-> FALSE]

-----------------------------------------------------------------------------
(* What can happen to one run.                                             *)

Becomes(r, from, to) == status[r] \in from /\ status'[r] \in to

KeepsWork(r) == result'[r] = result[r] /\ busy'[r] = busy[r]

Stays(r) == status'[r] = status[r] /\ owner'[r] = owner[r] /\ KeepsWork(r)

Created(r) == Becomes(r, {"absent"}, {"pending"}) /\ owner'[r] = None /\ KeepsWork(r)

\* An attempt takes a run that nobody owns, to execute it or to confirm its stop.
Claimed(r) ==
    /\ owner[r] = None /\ owner'[r] \in Token
    /\ \/ Becomes(r, {"pending"}, {"running"})
       \/ Becomes(r, {"cancel_requested"}, {"cancel_requested"})
    /\ KeepsWork(r)

\* The owner of a running run works: an output, once there, stays.
Works(r) ==
    /\ owner[r] # None /\ owner'[r] = owner[r]
    /\ Becomes(r, {"running"}, {"running"})
    /\ result[r] => result'[r]

\* An active run is told to stop; its owner, if any, has to finish.  Only a run
\* that never did anything can be cancelled on the spot.
ToldToStop(r) ==
    /\ owner'[r] = owner[r]
    /\ \/ Becomes(r, {"running"}, {"cancel_requested"})
       \/ Becomes(r, {"pending"}, {"cancel_requested"})
       \/ Becomes(r, {"pending"}, {"cancelled"}) /\ owner[r] = None /\ ~busy[r]
    /\ KeepsWork(r)

\* The owner gives the run back to be executed again: never one told to stop.
GivenBack(r) ==
    /\ owner[r] # None /\ owner'[r] = None
    /\ Becomes(r, {"running"}, {"pending"})
    /\ KeepsWork(r)

\* The owner ends the run: a run told to stop ends as cancelled and as nothing else,
\* a completed run has its output, and no call is left running.
Ended(r) ==
    /\ owner[r] # None /\ owner'[r] = None
    /\ \/ Becomes(r, {"running"}, {"completed", "interrupted", "failed"})
       \/ Becomes(r, {"cancel_requested"}, {"cancelled"})
    /\ status'[r] = "completed" => result'[r]
    /\ result[r] => result'[r]
    /\ ~busy'[r]

\* The run is failed by somebody else.
Failed(r) ==
    /\ owner'[r] = None
    /\ Becomes(r, Active, {"failed"})
    /\ result'[r] = result[r]
    /\ ~busy'[r]

-----------------------------------------------------------------------------
(* What can happen in one step.                                            *)

Others(r) == \A o \in Run \ {r} : Stays(o)
OthersStop(r) == \A o \in Run \ {r} : Stays(o) \/ ToldToStop(o)

Create == \E r \in Run : Created(r) /\ Others(r)
Claim  == \E r \in Run : Claimed(r) /\ Others(r)
Work   == \E r \in Run : Works(r) /\ Others(r)
Stop   == \A r \in Run : Stays(r) \/ ToldToStop(r)
Finish == \E r \in Run : (Ended(r) \/ GivenBack(r)) /\ OthersStop(r)

\* Runs whose attempt was lost fail, and what they had started stops.
Reconcile == \A r \in Run :
    Stays(r) \/ ToldToStop(r) \/ (status[r] # "pending" /\ Failed(r))

\* Every active run fails.
Migrate == \A r \in Run : IF status[r] \in Active THEN Failed(r) ELSE Stays(r)

Next == Create \/ Claim \/ Work \/ Stop \/ Finish \/ Reconcile \/ Migrate

Spec == Init /\ [][Next]_vars
=============================================================================
