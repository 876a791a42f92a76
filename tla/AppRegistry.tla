---------------------------- MODULE AppRegistry -----------------------------
(***************************************************************************)
(* What the client promises the applications: the answer to each command   *)
(* tells the truth about one set of registered names, each with a queue of *)
(* accepted files that only registration, deletion and sending change.     *)
(***************************************************************************)
EXTENDS Naturals, Sequences

CONSTANTS Names, Files, Cap, None

VARIABLES
  queues,   \* registered name -> the files accepted and not yet taken
  answer    \* the answer to the last command, or NoAnswer while one is run

registryVars == <<queues, answer>>

Says(c, n, e) == answer' = [cmd |-> c, app |-> n, code |-> e]

NoAnswer == [cmd |-> None, app |-> None, code |-> None]

Init == queues = [n \in {} |-> << >>] /\ answer = NoAnswer

Ask == answer' = NoAnswer /\ UNCHANGED queues

Register(n) ==
  /\ n \notin DOMAIN queues
  /\ queues' = [m \in DOMAIN queues \cup {n} |-> IF m = n THEN << >> ELSE queues[m]]
  /\ Says("CMD_REGISTER", n, "E_OK")

Delete(n) ==
  /\ n \in DOMAIN queues
  /\ queues' = [m \in DOMAIN queues \ {n} |-> queues[m]]
  /\ Says("CMD_DELECT", n, "E_OK")

AddFile(n, f) ==
  /\ n \in DOMAIN queues /\ Len(queues[n]) < Cap
  /\ queues' = [queues EXCEPT ![n] = Append(queues[n], f)]
  /\ Says("CMD_ADD_FILE", n, "E_OK")

(* What is refused changes nothing.                                         *)
Refuse(n) ==
  /\ UNCHANGED queues
  /\ \/ n \in DOMAIN queues /\ Says("CMD_REGISTER", n, "E_EXIST")
     \/ n \notin DOMAIN queues /\ Says("CMD_REGISTER", n, "E_THREAD")
     \/ n \notin DOMAIN queues /\ Says("CMD_DELECT", n, "E_NOTFOUND")
     \/ n \notin DOMAIN queues /\ Says("CMD_ADD_FILE", n, "E_NOTFOUND")
     \/ n \in DOMAIN queues /\ Len(queues[n]) >= Cap /\ Says("CMD_ADD_FILE", n, "E_FULL")

(* The application's sender takes the oldest file.                          *)
Take(n) ==
  /\ n \in DOMAIN queues /\ queues[n] # << >>
  /\ queues' = [queues EXCEPT ![n] = Tail(queues[n])]
  /\ UNCHANGED answer

Next ==
  Ask \/ \E n \in Names :
    \/ Register(n) \/ Delete(n) \/ Refuse(n) \/ Take(n)
    \/ \E f \in Files : AddFile(n, f)

Safety == Init /\ [][Next]_registryVars

=============================================================================
