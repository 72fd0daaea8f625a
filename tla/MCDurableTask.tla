--------------------------- MODULE MCDurableTask ---------------------------
(* Model values and symmetry for DurableTask.                              *)
EXTENDS DurableTask, TLC

CONSTANTS h, r1, r2, v0, w1, w2

\* One task with a failure hook, two retryable tasks with one key, and a row
\* that the migration found.
ThreeTasks == {h, r1, r2}
RetryableAndLegacy == {r1, v0}
TwoRetryable == {r1, r2}
OneRetryable == {r1}
OneHooked == {h}
OneLegacy == {v0}
NoTask == {}
TwoWorkers == {w1, w2}

\* The two slots do the same, and so do the two retryable tasks with one key.
SlotAndTaskSymmetry ==
    {p @@ q : p \in Permutations(Worker), q \in Permutations(TwoRetryable)}

\* The part of the state that any later step or property reads: of a row that
\* ended, only what it ended as and what it left open; which status cancel_task
\* read, only if there is a hook to pick.
Ended(t) == status[t] \in Terminal \cup {"deleted"}
Relevant ==
    <<job, pc, gate, faults,
      [t \in Task |->
         IF Ended(t) THEN <<status[t], open[t]>>
         ELSE <<status[t], open[t], cancel[t], owner[t], lease[t], attempts[t], keyed[t],
                wake[t], IF t \in Hooked THEN seen[t] ELSE seen[t] # "none">>]>>
=============================================================================
