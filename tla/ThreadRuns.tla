----------------------------- MODULE ThreadRuns -----------------------------
(***************************************************************************)
(* The chat and resume runs of one thread, as the request queue and the    *)
(* workers both see them in the database: who may add a run, what becomes  *)
(* of the one run that occupies the thread, and what must have happened    *)
(* before the next one.  No leases, subagents, requests, jobs or locks.    *)
(***************************************************************************)
CONSTANTS
    Chat,        \* runs that answer a message
    Resume,      \* runs that continue an interrupted run
    None         \* no run

Run == Chat \cup Resume

VARIABLES
    status,      \* what the row of a run says
    claimed,     \* runs that a worker has executed or tried to
    owes,        \* the runtime of the run has to be released first
    latest,      \* the newest run
    unaware      \* somebody may add a run who has not seen how the newest one ended

vars  == <<status, claimed, owes, latest, unaware>>
runs  == <<status, claimed, owes, latest>>

Active == {"pending", "running", "cancel_requested"}

Init ==
    /\ status  = [r \in Run |-> "absent"]
    /\ claimed = {}
    /\ owes    = [r \in Run |-> FALSE]
    /\ latest  = None
    /\ unaware \in BOOLEAN

-----------------------------------------------------------------------------
Occupied == \E r \in Run : status[r] \in Active \/ owes[r]
Waits    == latest # None /\ status[latest] = "interrupted"

\* A run joins a free thread: the answer the thread waits for, or a message, for which
\* it does not wait as far as those who add one know.
Add(r) ==
    /\ status[r] = "absent"
    /\ ~Occupied
    /\ r \in Resume => Waits
    /\ r \in Chat => ~Waits \/ unaware
    /\ status' = [status EXCEPT ![r] = "pending"]
    /\ latest' = r
    /\ UNCHANGED <<claimed, owes>>

\* Run r moves from one of the statuses "from" to one of "to".
Moves(r, from, to) ==
    /\ status[r] \in from
    /\ \E s \in to : status' = [status EXCEPT ![r] = s]
    /\ UNCHANGED latest

\* A worker executes the run, on a clean runtime only.
Claim(r) ==
    /\ ~owes[r]
    /\ Moves(r, {"pending"}, {"running"})
    /\ claimed' = claimed \cup {r}
    /\ UNCHANGED owes

\* The worker gives the run back, and leaves a runtime behind.
Retry(r) ==
    /\ Moves(r, {"running"}, {"pending"})
    /\ owes' = [owes EXCEPT ![r] = TRUE]
    /\ UNCHANGED claimed

\* A run that somebody may be executing is told to stop ...
Stop(r) ==
    /\ r \in claimed
    /\ Moves(r, {"pending", "running"}, {"cancel_requested"})
    /\ UNCHANGED <<claimed, owes>>

\* ... and one that nobody ever executed is cancelled, and leaves nothing behind.
Withdraw(r) ==
    /\ r \notin claimed
    /\ Moves(r, {"pending"}, {"cancelled"})
    /\ owes' = [owes EXCEPT ![r] = FALSE]
    /\ UNCHANGED claimed

\* The run ends, and its runtime has to be released.  A run that was told to stop
\* neither completes nor asks its user.
Finish(r) ==
    /\ \/ Moves(r, {"running"}, {"completed", "interrupted", "failed"})
       \/ Moves(r, {"cancel_requested"}, {"cancelled", "failed"})
    /\ owes' = [owes EXCEPT ![r] = TRUE]
    /\ UNCHANGED claimed

Release(r) ==
    /\ owes[r]
    /\ owes' = [owes EXCEPT ![r] = FALSE]
    /\ UNCHANGED <<status, claimed, latest>>

\* The storage migration fails what it finds, with every old runtime proved gone.
Migrate(r) ==
    /\ Moves(r, Active, {"failed"})
    /\ owes' = [owes EXCEPT ![r] = FALSE]
    /\ UNCHANGED claimed

\* Nobody overlooks a thread that waits already.
Look == unaware' \in BOOLEAN /\ (unaware' => unaware \/ ~Waits)

RunStep(r) ==
    \/ Add(r)
    \/ Claim(r)
    \/ Retry(r)
    \/ Stop(r)
    \/ Withdraw(r)
    \/ Finish(r)
    \/ Release(r)
    \/ Migrate(r)

Next == Look /\ (UNCHANGED runs \/ \E r \in Run : RunStep(r))

Spec == Init /\ [][Next]_vars
=============================================================================
