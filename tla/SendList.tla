------------------------------ MODULE SendList ------------------------------
(***************************************************************************)
(* The send list of one application (class SendList, proxy_client.cpp):    *)
(* the libevent thread appends files, the application's file_thread        *)
(* (Cudp.cpp) takes them out and sends them.  Every SendList method is one *)
(* critical section under lock, hence one action; file_thread calls them   *)
(* one after the other, and sends between two calls.                       *)
(***************************************************************************)
EXTENDS Naturals, Sequences, FiniteSets

CONSTANTS
  Files,     \* file names
  Nodes,     \* addresses `new SEND_DATA' can return (bound)
  NULL,
  MaxCount   \* max_count, the max_file of the application's registration

ASSUME ListAssumption ==
  /\ NULL \notin Nodes /\ NULL \notin Files
  /\ MaxCount \in Nat

VARIABLES
  in, out,      \* the newest and the oldest node of the list
  per,          \* per[n]: the node appended after n
  filename,     \* filename[n]
  list_count,
  stat,         \* "S_IDLE" or "S_BUSY"
  used,         \* the nodes that are allocated
  pc, data,     \* file_thread's place and the node it has taken
  nodes         \* history: the nodes appended and not taken yet, in order

listVars == <<in, out, per, filename, list_count, stat, nodes>>
vars == <<listVars, used, pc, data>>

Init ==
  /\ in = NULL /\ out = NULL /\ list_count = 0 /\ stat = "S_IDLE"
  /\ per = [n \in Nodes |-> NULL]
  /\ filename = [n \in Nodes |-> NULL]
  /\ used = {} /\ nodes = << >>
  /\ pc = "loop" /\ data = NULL

-----------------------------------------------------------------------------
(* Mutation IsFullPast: one file more than max_count.                       *)
IsFullPast == list_count > MaxCount
IsFull == list_count >= MaxCount

(* Mutations.  LinkOneWay: `in->per = new_data' is missing; LinkBehind: the  *)
(* node is linked in behind out.                                            *)
LinkOneWay(n) ==
  /\ per' = [per EXCEPT ![n] = NULL]
  /\ IF in = NULL /\ out = NULL THEN out' = n ELSE UNCHANGED out
LinkBehind(n) == out' = n /\ per' = [per EXCEPT ![n] = out]

(* An empty list gets its one node; else the node goes in front of in.      *)
Link(n) ==
  IF in = NULL /\ out = NULL
  THEN out' = n /\ per' = [per EXCEPT ![n] = NULL]
  ELSE per' = [per EXCEPT ![n] = NULL, ![in] = n] /\ UNCHANGED out

append_file(f, n) ==
  /\ ~IsFull /\ n \notin used
  /\ used' = used \cup {n}
  /\ filename' = [filename EXCEPT ![n] = f]
  /\ Link(n) /\ in' = n
  /\ list_count' = list_count + 1
  /\ stat' = IF stat = "S_IDLE" THEN "S_BUSY" ELSE stat
  /\ nodes' = Append(nodes, n)
  /\ UNCHANGED <<pc, data>>

-----------------------------------------------------------------------------
(* file_thread                                                              *)

(* get_stat answers S_BUSY: the thread leaves its polling loop.             *)
SeesBusy ==
  /\ pc = "loop" /\ stat # "S_IDLE"
  /\ pc' = "next"
  /\ UNCHANGED <<listVars, used, data>>

(* Mutations.  InStays: in still points to the node that was taken;         *)
(* IdleAfterEach: the state is idle whatever is left in the list.           *)
InStays(next) ==
  in' = in /\ stat' = IF next = NULL THEN "S_IDLE" ELSE stat
IdleAfterEach(next) ==
  in' = (IF next = NULL THEN NULL ELSE in) /\ stat' = "S_IDLE"
Unlinked(next) ==
  IF next = NULL
  THEN in' = NULL /\ stat' = "S_IDLE"
  ELSE UNCHANGED <<in, stat>>

(* An empty list, or an out that points nowhere, gives NULL.                *)
get_next ==
  /\ pc = "next"
  /\ pc' = "got"
  /\ IF list_count = 0 \/ out = NULL
     THEN /\ data' = NULL
          /\ stat' = IF list_count = 0 THEN "S_IDLE" ELSE stat
          /\ UNCHANGED <<in, out, list_count, nodes>>
     ELSE /\ data' = out
          /\ out' = per[out]
          /\ Unlinked(per[out])
          /\ list_count' = list_count - 1
          /\ nodes' = Tail(nodes)
  /\ UNCHANGED <<per, filename, used>>

Delete(n) == used' = used \ {n}

(* The file is gone or empty, or SendPack_ex has sent it: data is deleted.  *)
HandlesFile ==
  /\ pc = "got" /\ data # NULL
  /\ Delete(data)
  /\ pc' = "loop" /\ data' = NULL
  /\ UNCHANGED listVars

(* SendPack_ex fails: the brace of `if(ret==0)' encloses `delete data', so  *)
(* the node is never freed.                                                 *)
SendFails ==
  /\ pc = "got" /\ data # NULL
  /\ pc' = "loop" /\ data' = NULL
  /\ UNCHANGED <<listVars, used>>

FileThread == SeesBusy \/ get_next \/ HandlesFile \/ SendFails

Next == FileThread \/ \E f \in Files, n \in Nodes : append_file(f, n)

(* The thread polls for ever; no file has to come.                          *)
Safety == Init /\ [][Next]_vars
Spec == Safety /\ WF_vars(FileThread)

-----------------------------------------------------------------------------
(* The list as the pointers have it: in, out, per and list_count describe   *)
(* the same chain, its nodes are allocated, and the node file_thread still  *)
(* holds is not among them.                                                 *)
InList == {nodes[i] : i \in 1..Len(nodes)}
TypeOK ==
  /\ nodes \in Seq(Nodes) /\ used \subseteq Nodes /\ data \in Nodes \cup {NULL}
  /\ per \in [Nodes -> Nodes \cup {NULL}] /\ filename \in [Nodes -> Files \cup {NULL}]
  /\ stat \in {"S_IDLE", "S_BUSY"} /\ pc \in {"loop", "next", "got"}
  /\ list_count = Len(nodes) /\ list_count <= MaxCount
WellLinked ==
  /\ nodes = << >> => in = NULL /\ out = NULL
  /\ nodes # << >> => /\ out = nodes[1]
                      /\ in = nodes[Len(nodes)]
                      /\ per[in] = NULL
  /\ \A i \in 1..Len(nodes) : i # Len(nodes) => per[nodes[i]] = nodes[i + 1]
  /\ \A i, j \in 1..Len(nodes) : nodes[i] = nodes[j] => i = j
  /\ InList \subseteq used
  /\ data # NULL => data \in used \ InList

(* file_thread never sleeps on a list with a file in it, and never looks    *)
(* for a file in an empty one: S_BUSY says exactly that there is a file.    *)
BusyWithFiles == stat = "S_BUSY" <=> list_count # 0

(* get_next never returns NULL to file_thread, which reads data->filename   *)
(* before it compares data with NULL (Cudp.cpp 430-433).                    *)
NeverNull == pc = "got" => data # NULL

(* The list keeps the promise of FileQueue: order, capacity, one at a time, *)
(* and in the end every accepted file has its turn.                         *)
Waiting == [i \in 1..Len(nodes) |-> filename[nodes[i]]]
Current == IF data = NULL THEN NULL ELSE filename[data]
Promise == INSTANCE FileQueue WITH
  Cap <- MaxCount, None <- NULL, waiting <- Waiting, current <- Current
KeepsPromise == Promise!Spec
KeepsPromiseSafely == Promise!Safety

=============================================================================
