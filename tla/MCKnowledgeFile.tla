--------------------------- MODULE MCKnowledgeFile ---------------------------
(* Model values and symmetry for KnowledgeFile.                            *)
EXTENDS KnowledgeFile, TLC

CONSTANTS k1, k2

TwoTasks == {k1, k2}
TaskSymmetry == Permutations(Task)
=============================================================================
