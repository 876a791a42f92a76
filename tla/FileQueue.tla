----------------------------- MODULE FileQueue ------------------------------
(***************************************************************************)
(* What an application's send list promises: a file that append_file       *)
(* accepts is handled once, alone, in the order of acceptance; at most Cap *)
(* files wait.                                                             *)
(***************************************************************************)
EXTENDS Naturals, Sequences

CONSTANTS Files, Cap, None

VARIABLES waiting, current

queueVars == <<waiting, current>>

Init == waiting = << >> /\ current = None

Accept(f) ==
  /\ Len(waiting) < Cap
  /\ waiting' = Append(waiting, f)
  /\ UNCHANGED current

Begin ==
  /\ waiting # << >> /\ current = None
  /\ current' = Head(waiting)
  /\ waiting' = Tail(waiting)

Finish ==
  /\ current # None
  /\ current' = None
  /\ UNCHANGED waiting

Next == Begin \/ Finish \/ \E f \in Files : Accept(f)

Safety == Init /\ [][Next]_queueVars

(* Nobody has to queue a file; a queued one gets its turn.                  *)
Spec == Safety /\ WF_queueVars(Begin \/ Finish)

=============================================================================
