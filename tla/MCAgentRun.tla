----------------------------- MODULE MCAgentRun -----------------------------
(* Model values and symmetry for AgentRun.                                 *)
EXTENDS AgentRun, TLC

CONSTANTS c1, c2, m1, s1, s2, t1, t2, t3

OneChat  == {c1}
TwoChats == {c1, c2}
OneResume == {m1}
NoRun == {}
OneSub == {s1}
TwoSubs == {s1, s2}
TwoTokens == {t1, t2}
ThreeTokens == {t1, t2, t3}

TokenSymmetry == Permutations(Token)

\* asked is a history variable: runs whose properties do not read it leave it
\* out of the state.
NoHistory == <<status, worker, lease, started, cleanup, output, audit, creator, latest,
               outcome, job, pc, sandbox>>

\* No progress depends on audits, partial outputs or the bookkeeping of who holds
\* the sandbox: the liveness run explores the behaviours without them.
Quiet == UNCHANGED <<audit, sandbox>> /\ (output' # output => status' # status)

LiveSpec == Init /\ [][Next /\ Quiet]_vars /\ Fairness
=============================================================================
