-------------------------- MODULE MCScheduledAgent --------------------------
(* Model values for ScheduledAgent.                                        *)
EXTENDS ScheduledAgent

CONSTANTS m1, p1, p2

OneManual == {m1}
NoManual == {}
TwoProcs == {p1, p2}
=============================================================================
