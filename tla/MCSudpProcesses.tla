--------------------------- MODULE MCSudpProcesses ---------------------------
(* Names and pids are interchangeable.                                      *)
EXTENDS SudpProcesses, TLC

Symmetry == Permutations(Apps) \cup Permutations(Pids)

=============================================================================
