---------------------------- MODULE SudpProcesses ----------------------------
(***************************************************************************)
(* ProxyServer composed with the life of the Sudp processes it forks       *)
(* (main, signal_func and my_exit1 of Sudp.c) and the System V message     *)
(* queues of the host, which every process of the user may remove.         *)
(* The ids of queues: 0 is the first since the host was booted, 1 stands   *)
(* for any other.  Each step of a Sudp is a step of ProxyServer or one it  *)
(* does not see.                                                           *)
(***************************************************************************)
EXTENDS ProxyServer

CONSTANT NoId

ASSUME HostAssumption == NoId \notin {0, 1}

VARIABLES
  stage,       \* where p is: see Places; "early", "exited", "crashed" once it has ended
  mqid,        \* the id of p's queue
  mqid_save,   \* the id my_exit1 removes: a global int, so 0 at first
  live,        \* live[p]: p's queue exists
  zero_taken,  \* history: there has been a queue 0
  early        \* history: a Sudp has run my_exit1 before line 204

hostVars == <<stage, mqid, mqid_save, live, zero_taken, early>>
serverVars == vars

(* exec: up to signal_init; bind: up to msgget; save: between msgget and    *)
(* line 204; serve: the receive loop.                                       *)
Places == {"exec", "bind", "save", "serve"}

HostInit ==
  /\ Init
  /\ stage = [p \in Pids |-> "none"] /\ mqid = [p \in Pids |-> NoId]
  /\ mqid_save = [p \in Pids |-> 0] /\ live = [p \in Pids |-> FALSE]
  /\ zero_taken = FALSE /\ early = FALSE

-----------------------------------------------------------------------------
(* The start of a Sudp.  A SIGTERM on its way does not stop it at once.     *)

(* What is kept of a process starts anew with the next of its number.       *)
Forgets(p, s) ==
  /\ stage' = [stage EXCEPT ![p] = s] /\ mqid' = [mqid EXCEPT ![p] = NoId]
  /\ mqid_save' = [mqid_save EXCEPT ![p] = 0] /\ live' = [live EXCEPT ![p] = FALSE]
  /\ UNCHANGED <<zero_taken, early>>

ForksSudp(p) == Fork(p) /\ Forgets(p, "exec")
Reaps(p) == Wait(p) /\ Forgets(p, "none")

Goes(p, from, to) ==
  /\ proc[p] \in {"run", "killed"} /\ stage[p] = from
  /\ stage' = [stage EXCEPT ![p] = to]
  /\ UNCHANGED <<serverVars, early>>

(* check_param, the pool, atexit, signal_init *)
SetsUp(p) == Goes(p, "exec", "bind") /\ UNCHANGED <<mqid, mqid_save, live, zero_taken>>

(* socket, bind, the temporary file, ftok, msgget *)
Msgget(p) ==
  /\ Goes(p, "bind", "save")
  /\ mqid' = [mqid EXCEPT ![p] = IF zero_taken THEN 1 ELSE 0]
  /\ live' = [live EXCEPT ![p] = TRUE] /\ zero_taken' = TRUE
  /\ UNCHANGED mqid_save

(* Mutation SavedNot: line 204 is missing.                                  *)
SavedNot(p) == 0
Saved(p) == mqid[p]

Saves(p) ==
  /\ Goes(p, "save", "serve")
  /\ mqid_save' = [mqid_save EXCEPT ![p] = Saved(p)]
  /\ UNCHANGED <<mqid, live, zero_taken>>

-----------------------------------------------------------------------------
(* Its end                                                                  *)

(* Mutation RemovedNone: my_exit1 does not call msgctl.                     *)
RemovedNone(p) == {q \in Pids : FALSE}
Removed(p) == IF mqid_save[p] = 0 THEN {q \in Pids : mqid[q] = 0} ELSE {p}

(* exit: my_exit1 removes the queue mqid_save names, whosever it is.        *)
my_exit1(p) ==
  /\ live' = [q \in Pids |-> live[q] /\ q \notin Removed(p)]
  /\ stage' = [stage EXCEPT ![p] = IF stage[p] = "serve" THEN "exited" ELSE "early"]
  /\ early' = (early \/ stage[p] # "serve")
  /\ UNCHANGED <<mqid, mqid_save, zero_taken>>

(* It ends without my_exit1.                                                *)
Vanishes(p) ==
  /\ stage' = [stage EXCEPT ![p] = "crashed"]
  /\ UNCHANGED <<mqid, mqid_save, live, zero_taken, early>>

(* SIGTERM: signal_func calls exit, before signal_init the default ends it. *)
Terminates(p) ==
  /\ DiesKilled(p)
  /\ IF stage[p] = "exec" THEN Vanishes(p) ELSE my_exit1(p)

(* execl fails, parameters are missing or there are no threads; or a crash. *)
Crashes(p) == DiesAlone(p) /\ Vanishes(p)

(* bind, fopen, ftok or msgget fails.                                       *)
StartFails(p) == stage[p] = "bind" /\ DiesAlone(p) /\ my_exit1(p)

(* recvfrom fails, or File_Process exits at err_end: a disk error, or       *)
(* msgrcv after the queue has been removed.                                 *)
ServeFails(p) == stage[p] = "serve" /\ DiesAlone(p) /\ my_exit1(p)

-----------------------------------------------------------------------------
SudpStep(p) == SetsUp(p) \/ Msgget(p) \/ Saves(p)
SudpEnds(p) == Terminates(p) \/ Crashes(p) \/ StartFails(p) \/ ServeFails(p)

ServerStep ==
  /\ \/ \E a \in Apps : Register(a) \/ Delete(a)
     \/ ForkFails \/ Insert \/ Number \/ EraseApp \/ Kill \/ Deliver
     \/ WaitsForNobody \/ DelPid
     \/ \E p \in Pids : Stops(p)
  /\ UNCHANGED hostVars

HostNext == ServerStep \/ \E p \in Pids : ForksSudp(p) \/ SudpStep(p) \/ SudpEnds(p) \/ Reaps(p)

HostSpec == HostInit /\ [][HostNext]_<<serverVars, hostVars>>

-----------------------------------------------------------------------------
(* Types, what is known at each place, and that queue 0 has one creator.    *)
HostTypeOK ==
  /\ stage \in [Pids -> Places \cup {"none", "early", "exited", "crashed"}]
  /\ mqid \in [Pids -> {0, 1, NoId}] /\ mqid_save \in [Pids -> {0, 1}]
  /\ live \in [Pids -> BOOLEAN] /\ zero_taken \in BOOLEAN /\ early \in BOOLEAN
  /\ \A p \in Pids :
       /\ proc[p] \in {"run", "killed"} <=> stage[p] \in Places
       /\ stage[p] \in {"exec", "bind"} => mqid[p] = NoId
       /\ stage[p] \in {"save", "serve"} => mqid[p] # NoId
       /\ stage[p] = "serve" => mqid_save[p] = mqid[p]
  /\ \A p, q \in Pids : mqid[p] = 0 /\ mqid[q] = 0 => p = q

(* A Sudp that receives loses its queue only if it is queue 0, and only     *)
(* after some Sudp has exited before it knew its own (Sudp.c 204, 376).     *)
OnlyZeroIsLost ==
  \A p \in Pids : stage[p] = "serve" /\ ~live[p] => mqid[p] = 0 /\ early

(* A Sudp that exits after line 204 leaves no queue behind, whatever else   *)
(* has happened on the host (Sudp.c 376).                                   *)
LeavesNothing == \A p \in Pids : stage[p] = "exited" => ~live[p]

(* my_exit1 "destroys the message queue" of its own process, says the       *)
(* comment of mqid_save (Sudp.c 65): as long as a Sudp receives it has its  *)
(* queue.                                                                   *)
KeepsItsQueue == \A p \in Pids : stage[p] = "serve" => live[p]

=============================================================================
