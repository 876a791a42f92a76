-------------------------------- MODULE Sudp --------------------------------
(***************************************************************************)
(* One Sudp process: the main thread that moves datagrams from its UDP     *)
(* socket to a System V message queue (Sudp.c), the File_Process thread    *)
(* that writes them to files in dir1, and the pool threads that run        *)
(* Recv_Finish on each completed file (thread_process.c).  ThreadPool.tla  *)
(* models the pool itself; here its queue is the number of queued jobs,    *)
(* because every job has the same function and the same argument: a        *)
(* pointer to File_Process's save_path buffer.                             *)
(***************************************************************************)
EXTENDS PacketStream, SequencesExt

CONSTANTS
  Workers,  \* the threads of threadpool_init(6, 20)
  JobCap,   \* its queue_max_num
  MQCap,    \* messages the kernel lets the queue hold before msgsnd blocks
  Modes     \* what Recv_Finish does with a file, see mode

(* The directory prefix that sprintf leaves in save_path before strcat adds *)
(* the base name, and the zeroed buffer before the first file.              *)
DirOnly == "dir1/app_name/"
NoPath == ""
Paths == Names \cup {DirOnly, NoPath}

ASSUME SudpAssumption ==
  /\ {DirOnly, NoPath} \cap Names = {}
  /\ JobCap \in Nat \ {0}
  /\ MQCap \in Nat \ {0}
  /\ Modes \subseteq {"stay", "rename", "copy"}

VARIABLES
  up,          \* FALSE once the process has called exit(-1)
  mode,        \* "stay": no -move; else whether dir1 and dir2 share a file system
  net,         \* datagrams in the socket's receive buffer
  hand,        \* the one main holds between recvfrom and msgsnd, if any
  mq,          \* the System V message queue, oldest message first
  fpc,         \* where File_Process is
  pkt,         \* buff: the last message it received, 0 before the first
  pack_move,   \* the message type it asks for next
  pack_saved,  \* packets written to the current file
  cur,         \* the transfer whose header it keeps, 0 before the first
  save_path,   \* the buffer every job points to
  fp,          \* the open stream: "null", or where its file now is
  text,        \* what has been written through fp since fopen
  dir1, dir2,  \* the files of each directory, by base name
  jobs,        \* jobs in the pool's queue
  wpc, wpath,  \* each worker's place in Recv_Finish and its filename
  finished,    \* history: files File_Process closed as complete
  notified     \* history: paths sent to the notification port, in order

mainVars == <<net, hand>>
fileVars == <<fpc, pkt, pack_move, pack_saved, cur, save_path, text, finished>>
diskVars == <<fp, dir1, dir2>>
poolVars == <<jobs, wpc, wpath, notified>>
sudpVars == <<up, mode, mainVars, mq, fileVars, diskVars, poolVars>>

(* A directory is a function from the names of its files to their texts.    *)
Store(d, n, t) == [m \in DOMAIN d \cup {n} |-> IF m = n THEN t ELSE d[m]]
Erase(d, n) == Restrict(d, DOMAIN d \ {n})

(* Writing t over a file that is opened without O_TRUNC.                    *)
Overlay(t, old) == IF Len(old) <= Len(t) THEN t ELSE t \o SubSeq(old, Len(t) + 1, Len(old))
OldText(d, n) == IF n \in DOMAIN d THEN d[n] ELSE << >>

SudpInit ==
  /\ up = TRUE
  /\ mode \in Modes
  /\ net = << >> /\ hand = << >> /\ mq = << >>
  /\ fpc = "poll" /\ pkt = 0 /\ pack_move = 1 /\ pack_saved = 0 /\ cur = 0
  /\ save_path = NoPath /\ fp = "null" /\ text = << >>
  /\ dir1 = << >> /\ dir2 = << >>
  /\ jobs = 0
  /\ wpc = [w \in Workers |-> "idle"]
  /\ wpath = [w \in Workers |-> NoPath]
  /\ finished = << >> /\ notified = << >>

-----------------------------------------------------------------------------
(* The main thread.                                                         *)

Recvfrom ==
  /\ up /\ hand = << >> /\ net # << >>
  /\ hand' = <<Head(net)>>
  /\ net' = Tail(net)
  /\ UNCHANGED <<up, mode, mq, fileVars, diskVars, poolVars>>

(* Mutation: only the IPC_NOWAIT attempt, and the datagram is dropped.      *)
MsgsndOrDrop ==
  /\ up /\ hand # << >>
  /\ mq' = IF Len(mq) < MQCap THEN mq \o hand ELSE mq
  /\ hand' = << >>
  /\ UNCHANGED <<up, mode, net, fileVars, diskVars, poolVars>>

(* msgsnd with IPC_NOWAIT and, when that fails, the blocking msgsnd.        *)
Msgsnd ==
  /\ up /\ hand # << >> /\ Len(mq) < MQCap
  /\ mq' = mq \o hand
  /\ hand' = << >>
  /\ UNCHANGED <<up, mode, net, fileVars, diskVars, poolVars>>

-----------------------------------------------------------------------------
(* The File_Process thread.                                                 *)

(* Mutation: the last message of the type.                                  *)
LastOfType(i, type) ==
  /\ Nu(mq[i]) = type
  /\ \A j \in (i + 1)..Len(mq) : Nu(mq[j]) # type

(* i is the message msgrcv returns for a positive type: the first of it.    *)
FirstOfType(i, type) ==
  /\ Nu(mq[i]) = type
  /\ \A j \in 1..(i - 1) : Nu(mq[j]) # type

(* From a received message to the fwrite: the message at i leaves the       *)
(* queue, pack_move is set behind it, and a message that opens a file, the  *)
(* first since "again" or one numbered 1, replaces the header, closes a     *)
(* file that was cut short and starts to rewrite save_path.                 *)
(* Mutation IsFirst: a packet numbered 1 does not end an unfinished file.   *)
IsFirst(p) == pack_saved = 0
IsHeader(p) == pack_saved = 0 \/ Nu(p) = 1

Take(i) ==
  LET p == mq[i] IN
  /\ mq' = RemoveAt(mq, i)
  /\ pkt' = p
  /\ pack_move' = Nu(p) + 1
  /\ IF IsHeader(p)
     THEN /\ pack_saved' = 0
          /\ fp' = "null"
          /\ text' = << >>
          /\ cur' = Xfer(p)
          /\ save_path' = DirOnly
          /\ fpc' = "path"
     ELSE /\ fpc' = "write"
          /\ UNCHANGED <<pack_saved, fp, text, cur, save_path>>
  /\ UNCHANGED <<up, mode, mainVars, dir1, dir2, poolVars, finished>>

(* msgrcv(pack_move, IPC_NOWAIT) finds the next packet of the file, or not. *)
PollHit ==
  /\ up /\ fpc = "poll"
  /\ \E i \in 1..Len(mq) : FirstOfType(i, pack_move) /\ Take(i)

PollMiss ==
  /\ up /\ fpc = "poll"
  /\ \A i \in 1..Len(mq) : Nu(mq[i]) # pack_move
  /\ fpc' = "block"
  /\ UNCHANGED <<up, mode, mainVars, mq, pkt, pack_move, pack_saved, cur,
                 save_path, text, finished, diskVars, poolVars>>

(* msgrcv(0): the oldest message whatever its number, once there is one.    *)
BlockingRecv ==
  /\ up /\ fpc = "block" /\ mq # << >>
  /\ Take(1)

(* strcat(save_path, basename(file_name)): the path is whole again.         *)
SetPath ==
  /\ up /\ fpc = "path"
  /\ save_path' = Name[cur]
  /\ fpc' = "open"
  /\ UNCHANGED <<up, mode, mainVars, mq, pkt, pack_move, pack_saved, cur,
                 text, finished, diskVars, poolVars>>

(* CreateDir and fopen(save_path, "w+").                                    *)
OpenFile ==
  /\ up /\ fpc = "open"
  /\ fp' = "dir1"
  /\ dir1' = Store(dir1, save_path, << >>)
  /\ fpc' = "write"
  /\ UNCHANGED <<up, mode, mainVars, mq, pkt, pack_move, pack_saved, cur,
                 save_path, text, finished, dir2, poolVars>>

(* fwrite of the payload through fp, wherever its file is by now; it is    *)
(* followed by the two comparisons that end a file.                         *)
Written == Append(text, pkt)

WriteChunk ==
  /\ up /\ fpc = "write"
  /\ dir1' = IF fp = "dir1" THEN Store(dir1, Name[cur], Written) ELSE dir1
  /\ dir2' = IF fp = "dir2" THEN Store(dir2, Name[cur], Written) ELSE dir2
  /\ UNCHANGED <<up, mode, mainVars, mq, pkt, cur, save_path, poolVars>>

(* Mutation CompleteEarly: one packet early.                                *)
CompleteEarly(saved) == Packs[cur] = saved + 1
CompleteAt(saved) == Packs[cur] = saved

Again ==
  /\ fpc' = "poll" /\ pack_saved' = 0 /\ pack_move' = 1 /\ fp' = "null"

(* As many packets are written as the file has: it is complete.             *)
CompleteFile ==
  /\ WriteChunk
  /\ CompleteAt(pack_saved + 1)
  /\ finished' = Append(finished, [xfer |-> cur, text |-> Written])
  /\ fpc' = "post" /\ fp' = "null" /\ text' = << >>
  /\ pack_saved' = pack_saved + 1
  /\ UNCHANGED pack_move

(* Its last packet was written and some were not: it is given up.           *)
AbandonFile ==
  /\ WriteChunk
  /\ ~CompleteAt(pack_saved + 1) /\ Packs[cur] = pack_move - 1
  /\ Again /\ text' = << >>
  /\ UNCHANGED finished

ContinueFile ==
  /\ WriteChunk
  /\ ~CompleteAt(pack_saved + 1) /\ Packs[cur] # pack_move - 1
  /\ pack_saved' = pack_saved + 1 /\ text' = Written /\ fpc' = "poll"
  /\ UNCHANGED <<pack_move, fp, finished>>

(* Mutation: the queue's limit is not checked.                              *)
PostJobUnchecked ==
  /\ up /\ fpc = "post"
  /\ jobs' = jobs + 1
  /\ Again
  /\ UNCHANGED <<up, mode, mainVars, mq, pkt, cur, save_path, text, finished,
                 dir1, dir2, wpc, wpath, notified>>

(* threadpool_add_job, which blocks while the queue is full, then "again".  *)
PostJob ==
  /\ up /\ fpc = "post" /\ jobs < JobCap
  /\ jobs' = jobs + 1
  /\ Again
  /\ UNCHANGED <<up, mode, mainVars, mq, pkt, cur, save_path, text, finished,
                 dir1, dir2, wpc, wpath, notified>>

(* fopen or fwrite fails: err_end, exit(-1), and every thread ends.         *)
DiskError ==
  /\ up /\ fpc \in {"open", "write"}
  /\ up' = FALSE
  /\ UNCHANGED <<mode, mainVars, mq, fileVars, diskVars, poolVars>>

-----------------------------------------------------------------------------
(* The pool's threads in Recv_Finish.                                       *)

TakeJob(w) ==
  /\ up /\ wpc[w] = "idle" /\ jobs > 0
  /\ jobs' = jobs - 1
  /\ wpc' = [wpc EXCEPT ![w] = "start"]
  /\ UNCHANGED <<up, mode, mainVars, mq, fileVars, diskVars, wpath, notified>>

(* sprintf(filename, "%s", args) reads save_path as it is now.              *)
ReadPath(w) ==
  /\ up /\ wpc[w] = "start"
  /\ wpath' = [wpath EXCEPT ![w] = save_path]
  /\ wpc' = [wpc EXCEPT ![w] = IF mode = "stay" THEN "notify" ELSE "move"]
  /\ UNCHANGED <<up, mode, mainVars, mq, fileVars, diskVars, jobs, notified>>

(* An open stream follows its file: fp after the file n moved from dir1 to  *)
(* dir2 (replacing one there), or after it was removed from dir1.           *)
FpIsOn(n, d) == fp = d /\ Name[cur] = n

(* rename succeeds: both directories are on one file system.                *)
RenameFile(w) ==
  LET n == wpath[w] IN
  /\ up /\ mode = "rename" /\ wpc[w] = "move" /\ n \in DOMAIN dir1
  /\ dir2' = Store(dir2, n, dir1[n])
  /\ dir1' = Erase(dir1, n)
  /\ fp' = CASE FpIsOn(n, "dir1") -> "dir2"
             [] FpIsOn(n, "dir2") -> "gone"
             [] OTHER -> fp
  /\ wpc' = [wpc EXCEPT ![w] = "notify"]
  /\ UNCHANGED <<up, mode, mainVars, mq, fileVars, jobs, wpath, notified>>

(* basename strips the slash of a bare directory prefix, so rename moves    *)
(* dir1/app_name itself, with all its files, below dir2/app_name.           *)
RenameDirectory(w) ==
  /\ up /\ mode = "rename" /\ wpc[w] = "move" /\ wpath[w] = DirOnly
  /\ dir1' = << >>
  /\ fp' = IF fp = "dir1" THEN "gone" ELSE fp
  /\ wpc' = [wpc EXCEPT ![w] = "notify"]
  /\ UNCHANGED <<up, mode, mainVars, mq, fileVars, dir2, jobs, wpath, notified>>

(* file_helper_copy writes the first k packets of the file and goes on to   *)
(* place; the destination is opened without O_TRUNC.                        *)
Copies(w, k, place) ==
  LET n == wpath[w] IN
  /\ up /\ wpc[w] = "move" /\ n \in DOMAIN dir1
  /\ dir2' = Store(dir2, n, Overlay(SubSeq(dir1[n], 1, k), OldText(dir2, n)))
  /\ wpc' = [wpc EXCEPT ![w] = place]
  /\ UNCHANGED <<up, mode, mainVars, mq, fileVars, fp, dir1, jobs, wpath, notified>>

(* rename fails with EXDEV, and all of the file is copied.                  *)
CopyFile(w) == mode = "copy" /\ Copies(w, Len(dir1[wpath[w]]), "unlink")

UnlinkSource(w) ==
  LET n == wpath[w] IN
  /\ up /\ wpc[w] = "unlink"
  /\ dir1' = Erase(dir1, n)
  /\ fp' = IF FpIsOn(n, "dir1") THEN "gone" ELSE fp
  /\ wpc' = [wpc EXCEPT ![w] = "notify"]
  /\ UNCHANGED <<up, mode, mainVars, mq, fileVars, dir2, jobs, wpath, notified>>

(* file_helper_move returns -1, which Recv_Finish ignores: "failed" is the  *)
(* place of "notify", for properties to tell them apart.                    *)
MoveReturns(w) ==
  /\ up /\ wpc[w] = "move"
  /\ wpc' = [wpc EXCEPT ![w] = "failed"]
  /\ UNCHANGED <<up, mode, mainVars, mq, fileVars, diskVars, jobs, wpath, notified>>

(* There is no file to rename or to open.                                   *)
MoveFails(w) == wpath[w] \notin DOMAIN dir1 /\ MoveReturns(w)

(* The disks may fail a move whose file is there: rename fails and a copy   *)
(* takes its place, the source or the destination cannot be opened, or read *)
(* or write fails when some of it is copied; and unlink may fail.           *)
RenameBreaks(w) == mode = "rename" /\ Copies(w, Len(dir1[wpath[w]]), "unlink")
OpenBreaks(w) == wpath[w] \in DOMAIN dir1 /\ MoveReturns(w)

(* Mutation UnlinksAnyway: what file_helper_copy returns is not tested.     *)
UnlinksAnyway == "unlink"
GivesUp == "failed"

CopyBreaks(w) ==
  /\ wpath[w] \in DOMAIN dir1
  /\ \E k \in 0..Len(dir1[wpath[w]]) : Copies(w, k, GivesUp)

UnlinkBreaks(w) ==
  /\ up /\ wpc[w] = "unlink"
  /\ wpc' = [wpc EXCEPT ![w] = "notify"]
  /\ UNCHANGED <<up, mode, mainVars, mq, fileVars, diskVars, jobs, wpath, notified>>

(* udp_message tells the application the path of the file.                  *)
Notify(w) ==
  /\ up /\ wpc[w] \in {"notify", "failed"}
  /\ notified' = Append(notified, wpath[w])
  /\ wpc' = [wpc EXCEPT ![w] = "idle"]
  /\ UNCHANGED <<up, mode, mainVars, mq, fileVars, diskVars, jobs, wpath>>

-----------------------------------------------------------------------------
MainThread == Recvfrom \/ Msgsnd

FileProcess ==
  \/ PollHit \/ PollMiss \/ BlockingRecv
  \/ SetPath \/ OpenFile
  \/ CompleteFile \/ AbandonFile \/ ContinueFile \/ PostJob

RecvFinish(w) ==
  \/ TakeJob(w) \/ ReadPath(w)
  \/ RenameFile(w) \/ RenameDirectory(w) \/ CopyFile(w) \/ UnlinkSource(w) \/ MoveFails(w)
  \/ Notify(w)

MoveBreaks(w) == RenameBreaks(w) \/ OpenBreaks(w) \/ CopyBreaks(w) \/ UnlinkBreaks(w)

(* Every thread of the process waits for the next datagram.                 *)
Quiet ==
  /\ net = << >> /\ hand = << >> /\ mq = << >>
  /\ fpc = "block" /\ jobs = 0
  /\ \A w \in Workers : wpc[w] = "idle"

=============================================================================
