--------------------------- MODULE MCSenderQueue ---------------------------
(* SenderQueue for TLC: interchangeable subjects.                          *)
EXTENDS SenderQueue, TLC

SubjectSymmetry == Permutations(Subjects)
============================================================================
