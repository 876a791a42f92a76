---------------------------- MODULE ProxyClient -----------------------------
(***************************************************************************)
(* The client's list of applications (class ProxyClient, proxy_client.cpp) *)
(* and the life of the file_thread each of them starts (Cudp.cpp).  The    *)
(* libevent thread runs one request at a time; the steps of a request are  *)
(* those of its walk along the list.  An application's SendList is its     *)
(* promise FileQueue here: list_c[a] is the sequence of waiting files.     *)
(***************************************************************************)
EXTENDS Naturals, Sequences, SequencesExt

CONSTANTS
  Names,      \* application names
  Files,
  Apps,       \* addresses `new APP_INFO' can return (bound)
  NULL,
  MaxLine,    \* max_file of every registration
  MaxFaults   \* bound: failures of pthread_create and socket in one behaviour

ASSUME ClientAssumption ==
  /\ NULL \notin Apps /\ NULL \notin Names
  /\ MaxLine \in Nat /\ MaxFaults \in Nat

VARIABLES
  applist, next, app_name,   \* the head of the list, the links, the names
  used,       \* the APP_INFOs that are allocated
  apps,       \* history: the registered applications, in order
  list_c,     \* list_c[a]: a's waiting files
  thread,     \* where a's file_thread is
  cancel,     \* the threads pthread_cancel was called for
  op, name, file, info, tmp, per,   \* the request being run and its locals
  answer,     \* the command answered last, and the code, until the next comes
  crashed,    \* NULL has been written through
  faults

listVars == <<applist, next, app_name, used, apps>>
threadVars == <<list_c, thread, cancel>>
requestVars == <<op, name, file, info, tmp, per>>
vars == <<listVars, threadVars, requestVars, answer, crashed, faults>>

NoAnswer == [cmd |-> NULL, app |-> NULL, code |-> NULL]

Init ==
  /\ applist = NULL /\ used = {} /\ apps = << >>
  /\ next = [a \in Apps |-> NULL] /\ app_name = [a \in Apps |-> NULL]
  /\ list_c = [a \in Apps |-> << >>]
  /\ thread = [a \in Apps |-> "none"] /\ cancel = {}
  /\ op = "idle" /\ name = NULL /\ file = NULL /\ info = NULL /\ tmp = NULL /\ per = NULL
  /\ answer = NoAnswer
  /\ crashed = FALSE /\ faults = 0

Fault == faults < MaxFaults /\ faults' = faults + 1

(* The request returns a code, which handler_msg_c sends back.              *)
Return(cmd, code) ==
  /\ answer' = [cmd |-> cmd, app |-> name, code |-> code]
  /\ op' = "idle" /\ name' = NULL /\ file' = NULL
  /\ info' = NULL /\ tmp' = NULL /\ per' = NULL

(* It is refused before it walks.                                           *)
Refuse(cmd, n, code) ==
  /\ answer' = [cmd |-> cmd, app |-> n, code |-> code]
  /\ UNCHANGED <<listVars, threadVars, requestVars, crashed, faults>>

-----------------------------------------------------------------------------
(* CMD_REGISTER: a new APP_INFO is filled in, Add_App looks for its name,   *)
(* links it in at the end and starts its thread.                            *)
New(n, a) ==
  /\ op = "idle" /\ ~crashed /\ a \notin used
  /\ used' = used \cup {a} /\ app_name' = [app_name EXCEPT ![a] = n]
  /\ list_c' = [list_c EXCEPT ![a] = << >>]
  /\ name' = n /\ info' = a /\ tmp' = applist /\ answer' = NoAnswer
  /\ UNCHANGED <<apps, thread, cancel, file, per, crashed, faults>>

RegisterFirst(n, a) ==
  /\ applist = NULL
  /\ New(n, a)
  /\ applist' = a /\ next' = [next EXCEPT ![a] = NULL]
  /\ op' = "create"

Register(n, a) ==
  /\ applist # NULL
  /\ New(n, a)
  /\ op' = "add"
  /\ UNCHANGED <<applist, next>>

AtEnd == next[tmp] = NULL
Matches == app_name[tmp] = name

(* Mutation TakenBefore: the last application's name is not compared.       *)
TakenBefore == Matches /\ ~AtEnd
Taken == Matches

(* The step of both loops that look one node ahead.                         *)
Advance ==
  /\ tmp' = next[tmp]
  /\ UNCHANGED <<listVars, threadVars, op, name, file, info, per, answer, crashed, faults>>

AddWalks == op = "add" /\ ~Taken /\ ~AtEnd /\ Advance

(* The name is taken; info is never freed and never used again.             *)
AddExists ==
  /\ op = "add" /\ Taken
  /\ Return("CMD_REGISTER", "E_EXIST")
  /\ UNCHANGED <<listVars, threadVars, crashed, faults>>

(* Mutation LinkAndStep: tmp goes on to the node it has just linked in, and *)
(* past it.                                                                 *)
LinkAndStep == next' = [next EXCEPT ![tmp] = info, ![info] = NULL] /\ tmp' = NULL
Link == next' = [next EXCEPT ![tmp] = info, ![info] = NULL] /\ UNCHANGED tmp

AddLinks ==
  /\ op = "add" /\ ~Taken /\ AtEnd
  /\ Link
  /\ op' = "create"
  /\ UNCHANGED <<applist, app_name, used, apps, threadVars, name, file, info, per,
                 answer, crashed, faults>>

Creates ==
  /\ op = "create" /\ ~crashed
  /\ thread' = [thread EXCEPT ![info] = "start"]
  /\ apps' = Append(apps, info)
  /\ Return("CMD_REGISTER", "E_OK")
  /\ UNCHANGED <<applist, next, app_name, used, list_c, cancel, crashed, faults>>

(* pthread_create fails.  tmp is the node before info, or NULL when info is *)
(* the only one: `tmp->next = NULL' then ends the client.                   *)
CreateFails ==
  /\ op = "create" /\ ~crashed /\ Fault
  /\ IF tmp = NULL
     THEN /\ crashed' = TRUE
          /\ UNCHANGED <<listVars, requestVars, answer>>
     ELSE /\ next' = [next EXCEPT ![tmp] = NULL]
          /\ used' = used \ {info}
          /\ Return("CMD_REGISTER", "E_THREAD")
          /\ UNCHANGED <<applist, app_name, apps, crashed>>
  /\ UNCHANGED threadVars

AddApp == AddWalks \/ AddExists \/ AddLinks \/ Creates \/ CreateFails

-----------------------------------------------------------------------------
(* CMD_DELECT: Del_App with DEL_NOW.                                        *)
Delete(n) ==
  /\ op = "idle" /\ ~crashed
  /\ IF applist = NULL
     THEN Refuse("CMD_DELECT", n, "E_NOTFOUND")
     ELSE /\ op' = "del" /\ name' = n /\ tmp' = applist /\ per' = applist
          /\ answer' = NoAnswer
          /\ UNCHANGED <<listVars, threadVars, file, info, crashed, faults>>

DelWalks ==
  /\ op = "del" /\ tmp # NULL /\ ~Matches
  /\ per' = tmp /\ tmp' = next[tmp]
  /\ UNCHANGED <<listVars, threadVars, op, name, file, info, answer, crashed, faults>>

(* Mutations.  UnlinkAll: a deleted head takes the list with it;            *)
(* CancelNot: pthread_cancel is not called.                                 *)
UnlinkAll == IF per = tmp THEN applist' = NULL /\ UNCHANGED next
             ELSE next' = [next EXCEPT ![per] = next[tmp]] /\ UNCHANGED applist
Unlink == IF per = tmp THEN applist' = next[tmp] /\ UNCHANGED next
          ELSE next' = [next EXCEPT ![per] = next[tmp]] /\ UNCHANGED applist
CancelNot == cancel' = cancel
Cancel == cancel' = cancel \cup {tmp}

(* The APP_INFO is never freed, so its thread may still use it.             *)
DelFound ==
  /\ op = "del" /\ tmp # NULL /\ Matches
  /\ Unlink /\ Cancel
  /\ \E i \in 1..Len(apps) : apps[i] = tmp /\ apps' = RemoveAt(apps, i)
  /\ Return("CMD_DELECT", "E_OK")
  /\ UNCHANGED <<app_name, used, list_c, thread, crashed, faults>>

DelNotFound ==
  /\ op = "del" /\ tmp = NULL
  /\ Return("CMD_DELECT", "E_NOTFOUND")
  /\ UNCHANGED <<listVars, threadVars, crashed, faults>>

DelApp == DelWalks \/ DelFound \/ DelNotFound

-----------------------------------------------------------------------------
(* CMD_ADD_FILE: Add_Send_File.                                             *)
AddFile(n, f) ==
  /\ op = "idle" /\ ~crashed
  /\ IF applist = NULL
     THEN Refuse("CMD_ADD_FILE", n, "E_NOTFOUND")
     ELSE /\ op' = "file" /\ name' = n /\ file' = f /\ tmp' = applist
          /\ answer' = NoAnswer
          /\ UNCHANGED <<listVars, threadVars, info, per, crashed, faults>>

(* Mutation WalksOff: the loop ends after the last node, not at it.         *)
WalksOff == ~Matches
WalksOn == ~Matches /\ ~AtEnd

FileWalks == op = "file" /\ WalksOn /\ Advance

(* Mutation IsFullPast: one file more than max_count.                       *)
IsFullPast(a) == Len(list_c[a]) > MaxLine
IsFull(a) == Len(list_c[a]) >= MaxLine

FileQueued ==
  /\ op = "file" /\ Matches /\ ~IsFull(tmp)
  /\ list_c' = [list_c EXCEPT ![tmp] = Append(list_c[tmp], file)]
  /\ Return("CMD_ADD_FILE", "E_OK")
  /\ UNCHANGED <<listVars, thread, cancel, crashed, faults>>

FileRefused ==
  /\ op = "file"
  /\ \/ Matches /\ IsFull(tmp) /\ Return("CMD_ADD_FILE", "E_FULL")
     \/ ~Matches /\ AtEnd /\ Return("CMD_ADD_FILE", "E_NOTFOUND")
  /\ UNCHANGED <<listVars, threadVars, crashed, faults>>

AddSendFile == FileWalks \/ FileQueued \/ FileRefused

-----------------------------------------------------------------------------
(* file_thread of application a                                             *)
Moves(a, p) ==
  /\ ~crashed
  /\ thread' = [thread EXCEPT ![a] = p]
  /\ UNCHANGED <<listVars, cancel, requestVars, answer, crashed>>

ThreadStarts(a) ==
  /\ thread[a] = "start" /\ Moves(a, "loop")
  /\ UNCHANGED <<list_c, faults>>

(* socket() fails: the thread returns, its application stays registered.    *)
SocketFails(a) ==
  /\ thread[a] = "start" /\ Fault /\ Moves(a, "returned")
  /\ UNCHANGED list_c

TakesFile(a) ==
  /\ thread[a] = "loop" /\ a \notin cancel /\ list_c[a] # << >>
  /\ Moves(a, "send")
  /\ list_c' = [list_c EXCEPT ![a] = Tail(list_c[a])]
  /\ UNCHANGED faults

(* Sent, or given up: file_thread goes on in both cases.                    *)
DealsWithFile(a) ==
  /\ thread[a] = "send" /\ a \notin cancel
  /\ Moves(a, "loop")
  /\ UNCHANGED <<list_c, faults>>

(* Every round of the loop, and every packet of a file, passes a            *)
(* cancellation point (usleep, open, read, sendto).                         *)
Dies(a) ==
  /\ thread[a] \in {"loop", "send"} /\ a \in cancel
  /\ Moves(a, "dead")
  /\ UNCHANGED <<list_c, faults>>

FileThread(a) ==
  ThreadStarts(a) \/ TakesFile(a) \/ DealsWithFile(a) \/ Dies(a)

-----------------------------------------------------------------------------
RequestStep == AddApp \/ DelApp \/ AddSendFile

Next ==
  \/ \E n \in Names, a \in Apps : RegisterFirst(n, a) \/ Register(n, a)
  \/ \E n \in Names : Delete(n) \/ \E f \in Files : AddFile(n, f)
  \/ RequestStep
  \/ \E a \in Apps : FileThread(a) \/ SocketFails(a)

Spec == Init /\ [][Next]_vars

-----------------------------------------------------------------------------
Listed == {apps[i] : i \in 1..Len(apps)}

TypeOK ==
  /\ applist \in Apps \cup {NULL} /\ next \in [Apps -> Apps \cup {NULL}]
  /\ app_name \in [Apps -> Names \cup {NULL}]
  /\ used \subseteq Apps /\ cancel \subseteq used /\ apps \in Seq(Apps)
  /\ list_c \in [Apps -> Seq(Files)] /\ \A a \in Apps : Len(list_c[a]) <= MaxLine
  /\ thread \in [Apps -> {"none", "start", "loop", "send", "returned", "dead"}]
  /\ op \in {"idle", "add", "create", "del", "file"}
  /\ name \in Names \cup {NULL} /\ file \in Files \cup {NULL}
  /\ info \in Apps \cup {NULL} /\ tmp \in Apps \cup {NULL} /\ per \in Apps \cup {NULL}
  /\ crashed \in BOOLEAN /\ faults \in 0..MaxFaults

(* Between two requests, and during every walk, the pointers lead through   *)
(* the registered applications in the order of their registration, to the   *)
(* new one while its thread is being created, and no two have one name      *)
(* (Add_App, Del_App: proxy_client.cpp 174-261).                            *)
Chain == IF op = "create" THEN Append(apps, info) ELSE apps
WellLinked ==
  /\ applist = IF Chain = << >> THEN NULL ELSE Chain[1]
  /\ \A i \in 1..Len(Chain) :
       next[Chain[i]] = IF i = Len(Chain) THEN NULL ELSE Chain[i + 1]
  /\ \A i, j \in 1..Len(Chain) : app_name[Chain[i]] = app_name[Chain[j]] => i = j

(* A thread that runs and has not been told to end belongs to a registered  *)
(* application, and a registered application has a thread that was never    *)
(* told to end. So when a name is deleted and registered again, one of its  *)
(* two senders is on its way out (proxy_client.cpp 208, 249).               *)
NoRunawayThread ==
  \A a \in Apps :
    /\ thread[a] \in {"start", "loop", "send"} /\ a \notin cancel => a \in Listed
    /\ a \in Listed => thread[a] # "none" /\ a \notin cancel

(* The loops that read tmp->next before tmp never have a NULL tmp           *)
(* (proxy_client.cpp 187, 274).                                             *)
NeverNull == op \in {"add", "file"} => tmp # NULL

(* A failed pthread_create costs the application its registration and       *)
(* nothing else, unless the list was empty (proxy_client.cpp 203-211).      *)
SurvivesUnlessFirst == crashed => apps = << >>

(* Every answer is true of the list, and the queues change by requests and  *)
(* senders only.                                                            *)
Queues == [n \in {app_name[a] : a \in Listed} |->
             list_c[CHOOSE a \in Listed : app_name[a] = n]]
Promise == INSTANCE AppRegistry WITH
  Cap <- MaxLine, None <- NULL, queues <- Queues
KeepsPromise == Promise!Safety

=============================================================================
