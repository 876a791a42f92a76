---------------------------- MODULE MCSpeedManger ----------------------------
(* Threads are interchangeable: no property below names one.                *)
EXTENDS SpeedManger, TLC

Symmetry == Permutations(Threads)

=============================================================================
