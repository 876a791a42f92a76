------------------------------ MODULE JobPool -------------------------------
(***************************************************************************)
(* What a thread pool promises: every accepted job is started once, in the *)
(* order of acceptance, and finished by the thread that started it; at     *)
(* most Max jobs wait and at most Threads run.                             *)
(***************************************************************************)
EXTENDS Naturals, Sequences, FiniteSets

CONSTANTS Jobs, Max, Threads

VARIABLES waiting, running, done

poolVars == <<waiting, running, done>>

Init == waiting = << >> /\ running = {} /\ done = {}

Accept(j) ==
  /\ j \notin running \cup done \cup {waiting[i] : i \in 1..Len(waiting)}
  /\ Len(waiting) < Max
  /\ waiting' = Append(waiting, j)
  /\ UNCHANGED <<running, done>>

Start ==
  /\ waiting # << >> /\ Cardinality(running) < Threads
  /\ running' = running \cup {Head(waiting)}
  /\ waiting' = Tail(waiting)
  /\ UNCHANGED done

Finish(j) ==
  /\ j \in running
  /\ running' = running \ {j} /\ done' = done \cup {j}
  /\ UNCHANGED waiting

Next == Start \/ \E j \in Jobs : Accept(j) \/ Finish(j)

Safety == Init /\ [][Next]_poolVars

(* Nothing obliges a client to bring jobs; those brought get done.          *)
Spec == Safety /\ WF_poolVars(Start) /\ \A j \in Jobs : WF_poolVars(Finish(j))

=============================================================================
