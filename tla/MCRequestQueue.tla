--------------------------- MODULE MCRequestQueue ---------------------------
(* Model values and symmetry for RequestQueue.                             *)
EXTENDS RequestQueue, TLC

CONSTANTS q1, q2, q3, m1

TwoRequests == {q1, q2}
ThreeRequests == {q1, q2, q3}
OneResume == {m1}
NoResume == {}
AllPolicies == {"enqueue", "reject", "steer"}
OnlyEnqueue == {"enqueue"}
RequestSymmetry == Permutations(Request)

\* The part of the state that any later step reads: timestamps are compared with
\* each other only, so the distance to the clock is enough; policy and created_at
\* matter while a request waits, finished_at while its run is the newest or active,
\* and the job of a run that ended does nothing any more.
Waiting(q) == status[q] = "queued" \/ tx.req = q
Ended(r) == run[r] \in Terminal
Relevant ==
    <<status, tx, calls, latest, cleanup, yielding, started, faults,
      [q \in Request |-> IF Waiting(q) THEN <<policy[q], clock - created[q]>> ELSE <<>>],
      [r \in Run |-> IF Ended(r) /\ r # latest THEN "ended" ELSE run[r]],
      [r \in Run |-> IF finished[r] # None /\ (r = latest \/ ~Ended(r))
                     THEN <<clock - finished[r]>> ELSE <<>>],
      [r \in Run |-> IF Ended(r) THEN "none" ELSE job[r]],
      {r \in sending : ~Ended(r)}>>
=============================================================================
