---------------------------- MODULE FileTransfer ----------------------------
(***************************************************************************)
(* One file_thread of the client sending its files over UDP to one Sudp:   *)
(* SendPack_ex (Cudp.cpp) and the network on one side, Sudp.tla on the     *)
(* other.  The network and the disks may fail up to MaxFaults times.       *)
(***************************************************************************)
EXTENDS Sudp, FiniteSets

CONSTANTS
  Paced,      \* TRUE: a file is queued only when Sudp has dealt with the last
  MaxFaults   \* bound: faults in one behaviour

ASSUME TransferAssumption ==
  /\ Paced \in BOOLEAN
  /\ MaxFaults \in Nat

VARIABLES
  pos,     \* the sender's position in Stream
  hit,     \* the transfers a fault has touched
  faults   \* how many faults there were

senderVars == <<pos, hit, faults>>
vars == <<sudpVars, senderVars>>

Init ==
  /\ SudpInit
  /\ pos = 0 /\ hit = {} /\ faults = 0

-----------------------------------------------------------------------------
(* One turn of SendPack_ex's loop: read, number, Sendto.                    *)
SendPack ==
  /\ pos + 1 \in Packets
  /\ Paced /\ Nu(pos + 1) = 1 => Quiet \/ ~up
  /\ pos' = pos + 1
  /\ net' = Append(net, pos + 1)
  /\ UNCHANGED <<up, mode, hand, mq, fileVars, diskVars, poolVars, hit, faults>>

Fault(xs) ==
  /\ faults < MaxFaults
  /\ faults' = faults + 1
  /\ hit' = hit \cup xs

(* The network loses a datagram, or the socket's buffer has no room for it. *)
Lose ==
  \E i \in 1..Len(net) :
    /\ Fault({Xfer(net[i])})
    /\ net' = RemoveAt(net, i)
    /\ UNCHANGED <<pos, up, mode, hand, mq, fileVars, diskVars, poolVars>>

(* Sendto or read fails: SendPack_ex returns and the rest is never sent.    *)
SendFails ==
  /\ pos + 1 \in Packets
  /\ Paced /\ Nu(pos + 1) = 1 => Quiet \/ ~up
  /\ Fault({Xfer(pos + 1)})
  /\ \E q \in Packets :
       /\ Xfer(q) = Xfer(pos + 1)
       /\ q + 1 \in Packets => Nu(q + 1) = 1
       /\ pos' = q
  /\ UNCHANGED sudpVars

DiskFails ==
  /\ DiskError
  /\ Fault(Xfers)
  /\ UNCHANGED pos

-----------------------------------------------------------------------------
(* A move that fails leaves the packets alone.                              *)
MoveFaults ==
  /\ \E w \in Workers : MoveBreaks(w)
  /\ Fault({})
  /\ UNCHANGED pos

SudpStep == (MainThread \/ FileProcess \/ \E w \in Workers : RecvFinish(w))
            /\ UNCHANGED senderVars

(* Every file is sent and dealt with, or the receiver is gone.              *)
Done ==
  /\ pos = Len(Stream)
  /\ ~up \/ Quiet
  /\ UNCHANGED vars

ReliableNext == SendPack \/ SudpStep \/ Done
FaultyNext == ReliableNext \/ Lose \/ SendFails \/ DiskFails \/ MoveFaults

(* The threads of both processes are scheduled by the kernel, the mutexes   *)
(* and the blocking calls are modelled by guards, and file_thread sends     *)
(* whenever it has a file: each gets weak fairness.  No fault has any.      *)
Fairness ==
  /\ WF_vars(SendPack)
  /\ WF_vars(MainThread /\ UNCHANGED senderVars)
  /\ WF_vars(FileProcess /\ UNCHANGED senderVars)
  /\ \A w \in Workers : WF_vars(RecvFinish(w) /\ UNCHANGED senderVars)

ReliableSafety == Init /\ [][ReliableNext]_vars
FaultySafety == Init /\ [][FaultyNext]_vars
ReliableSpec == ReliableSafety /\ Fairness
FaultySpec == FaultySafety /\ Fairness

-----------------------------------------------------------------------------
File == [xfer : Xfers, text : Seq(Packets)]
IsDirectory(d) == DOMAIN d \subseteq Names /\ \A n \in DOMAIN d : d[n] \in Seq(Packets)

VarTypes ==
  /\ up \in BOOLEAN /\ mode \in Modes
  /\ net \in Seq(Packets) /\ mq \in Seq(Packets) /\ Len(mq) <= MQCap
  /\ hand \in Seq(Packets) /\ Len(hand) <= 1
  /\ fpc \in {"poll", "block", "path", "open", "write", "post"}
  /\ pkt \in Packets \cup {0} /\ cur \in Xfers \cup {0}
  /\ pack_move \in Nat \ {0} /\ pack_saved \in Nat
  /\ save_path \in Paths
  /\ fp \in {"null", "dir1", "dir2", "gone"}
  /\ text \in Seq(Packets) /\ IsDirectory(dir1) /\ IsDirectory(dir2)
  /\ jobs \in 0..JobCap
  /\ wpc \in [Workers -> {"idle", "start", "move", "unlink", "notify", "failed"}]
  /\ wpath \in [Workers -> Paths]
  /\ finished \in Seq(File) /\ notified \in Seq(Paths)
  /\ pos \in Packets \cup {0} /\ hit \subseteq Xfers /\ faults \in 0..MaxFaults

(* File_Process's place in its loop says what its header and stream are.    *)
LoopOK ==
  /\ fpc \in {"path", "open", "write", "post"} => cur \in Xfers /\ pkt \in Packets
  /\ pack_saved # 0 => cur \in Xfers
  /\ fp \in {"dir1", "dir2"} => cur \in Xfers
  /\ fpc = "open" => save_path = Name[cur]
  /\ fpc \in {"path", "open"} => fp = "null"

(* Types of the variables, with the facts that tie File_Process's place in  *)
(* its loop to its stream and header (thread_process.c 165-255).            *)
TypeOK == VarTypes /\ LoopOK

(* File_Process calls a file complete only when it holds every packet of    *)
(* one transfer, once and in order (thread_process.c 243-254).              *)
FinishedWhole ==
  \A i \in 1..Len(finished) : IsWhole(finished[i].text, finished[i].xfer)

(* The files are completed in the order they were sent, none is skipped and *)
(* none is completed twice: nothing between the two programs reorders.      *)
FinishedInOrder == \A i \in 1..Len(finished) : finished[i].xfer = i

(* When the application is told of a path, the newest file completed under  *)
(* that name is there, whole: nothing has rewritten, moved or cut it.  A    *)
(* copy over a longer file of that name keeps the rest of that one, and     *)
(* when the move failed, which nobody is told, the file is whole in dir1    *)
(* still (thread_process.c 61-94, file_helper.c 13-86).                     *)
Destination == IF mode = "stay" THEN dir1 ELSE dir2
MayBeCopied == mode = "copy" \/ (mode = "rename" /\ faults # 0)

Newest(i, n) ==
  /\ Name[finished[i].xfer] = n
  /\ \A j \in (i + 1)..Len(finished) : Name[finished[j].xfer] # n
Holds(d, n, x) == n \in DOMAIN d /\ IsWhole(d[n], x)
HoldsWithTail(d, n, x) ==
  /\ n \in DOMAIN d /\ Packs[x] <= Len(d[n]) /\ IsWhole(SubSeq(d[n], 1, Packs[x]), x)
  /\ \E y \in Xfers : Name[y] = n /\ Len(d[n]) <= Packs[y]

IsWhereTold(w, x) ==
  CASE wpc[w] = "failed" -> Holds(dir1, wpath[w], x)
    [] wpc[w] = "notify" /\ ~MayBeCopied -> Holds(Destination, wpath[w], x)
    [] wpc[w] = "notify" /\ MayBeCopied -> HoldsWithTail(Destination, wpath[w], x)

NotifyOnlyWhole ==
  [][\A w \in Workers :
       wpc[w] \in {"notify", "failed"} /\ wpc'[w] = "idle" =>
         \E i \in 1..Len(finished) :
           Newest(i, wpath[w]) /\ IsWhereTold(w, finished[i].xfer)]_vars

(* Every transfer no fault has touched is in the end notified exactly once, *)
(* under its own name, and no other is notified (as many notifications of a *)
(* name as there are such transfers of that name).                          *)
Notifications(n) == Cardinality({i \in 1..Len(notified) : notified[i] = n})
Untouched(n) == Cardinality({x \in Xfers \ hit : Name[x] = n})
EachNotifiedOnce ==
  <>[](up => \A n \in Names : Notifications(n) = Untouched(n))

(* With no faults the pair delivers: every queued file is completed.        *)
Delivery == INSTANCE FileDelivery WITH
  Files <- Cardinality(Xfers), delivered <- Len(finished)
Delivers == Delivery!Spec
DeliversSafely == Delivery!Safety

=============================================================================
