------------------------ MODULE FileTransfer_proofs -------------------------
(***************************************************************************)
(* Proofs about FileTransfer, for every stream of files, every number of   *)
(* workers and every limit of the two queues.                              *)
(***************************************************************************)
EXTENDS FileTransfer, SequenceFacts, FiniteSetTheorems

LEMMA RemoveHead ==
  ASSUME NEW S, NEW q \in Seq(S), q # << >>
  PROVE  /\ Len(RemoveAt(q, 1)) = Len(q) - 1
         /\ \A j \in 1..(Len(q) - 1) : RemoveAt(q, 1)[j] = q[j + 1]
<1>1. Len(q) \in Nat \ {0}
  BY EmptySeq
<1>2. /\ Len(RemoveAt(q, 1)) = Len(q) - 1
      /\ \A j \in 1..(Len(q) - 1) :
           RemoveAt(q, 1)[j] = IF j < 1 THEN q[j] ELSE q[j + 1]
  BY <1>1, RemoveAtProperties, SMTT(30)
<1>3. \A j \in 1..(Len(q) - 1) : ~(j < 1)
  BY <1>1
<1> QED BY <1>2, <1>3

-----------------------------------------------------------------------------
LEMMA StreamFacts ==
  /\ Packets = 1..Len(Stream) /\ Len(Stream) \in Nat
  /\ Xfers = 1..Len(Packs) /\ Len(Packs) \in Nat
  /\ \A x \in Xfers : Packs[x] \in Nat \ {0} /\ Name[x] \in Names
  /\ \A p \in Packets : Xfer(p) \in Xfers /\ Nu(p) \in Nat \ {0}
<1>1. Packs \in Seq(Nat \ {0}) /\ Stream \in Seq([xfer : Xfers, nu : Nat \ {0}])
  BY StreamAssumption
<1>2. /\ Len(Packs) \in Nat /\ Xfers = 1..Len(Packs)
      /\ \A x \in Xfers : Packs[x] \in Nat \ {0}
  BY <1>1, LenProperties DEF Xfers
<1>3. /\ Len(Stream) \in Nat /\ Packets = 1..Len(Stream)
      /\ \A p \in Packets : Stream[p] \in [xfer : Xfers, nu : Nat \ {0}]
  <2>1. Len(Stream) \in Nat /\ Packets = 1..Len(Stream)
    BY <1>1, LenProperties DEF Packets
  <2>2. ASSUME NEW p \in Packets PROVE Stream[p] \in [xfer : Xfers, nu : Nat \ {0}]
    <3>1. p \in 1..Len(Stream)
      BY <2>1
    <3> HIDE DEF Xfers
    <3> QED BY <1>1, <3>1, ElementOfSeq
  <2> QED BY <2>1, <2>2
<1>4. \A x \in Xfers : Name[x] \in Names
  BY StreamAssumption
<1> QED BY <1>2, <1>3, <1>4 DEF Xfer, Nu

LEMMA InitTypeOK == Init => TypeOK
<1> USE StreamFacts, SudpAssumption, TransferAssumption
<1>1. SUFFICES ASSUME Init PROVE TypeOK
  OBVIOUS
<1>2. << >> \in Seq(Packets) /\ << >> \in Seq(File) /\ << >> \in Seq(Paths) /\ Len(<< >>) = 0
  BY EmptySeq
<1>3. IsDirectory(<< >>)
  BY DEF IsDirectory
<1> QED BY <1>1, <1>2, <1>3 DEF Init, SudpInit, TypeOK, VarTypes, LoopOK, Paths

LEMMA StoreType ==
  ASSUME NEW d, IsDirectory(d), NEW n \in Names, NEW t \in Seq(Packets)
  PROVE  IsDirectory(Store(d, n, t))
BY DEF IsDirectory, Store

LEMMA EraseType ==
  ASSUME NEW d, IsDirectory(d), NEW n
  PROVE  IsDirectory(Erase(d, n))
BY DEF IsDirectory, Erase, Restrict

(* What Take leaves behind: the three ways to receive a message share it.   *)
LEMMA TakeType ==
  ASSUME TypeOK, UNCHANGED senderVars, NEW i \in 1..Len(mq), Take(i)
  PROVE  TypeOK'
<1>1. mq[i] \in Packets /\ Xfer(mq[i]) \in Xfers /\ Nu(mq[i]) \in Nat \ {0}
  BY StreamFacts, ElementOfSeq DEF TypeOK, VarTypes
<1>2. mq' \in Seq(Packets) /\ Len(mq') <= MQCap
  <2>1. mq \in Seq(Packets) /\ Len(mq) \in Nat /\ Len(mq) <= MQCap
    BY LenProperties DEF TypeOK, VarTypes
  <2> QED BY <2>1, RemoveAtProperties, SudpAssumption DEF Take
<1>3. << >> \in Seq(Packets)
  OBVIOUS
<1>4. CASE IsHeader(mq[i])
  BY <1>1, <1>2, <1>3, <1>4, SMTT(30)
  DEF TypeOK, VarTypes, LoopOK, Take, Paths, mainVars, poolVars, senderVars
<1>5. CASE ~IsHeader(mq[i])
  <2>1. /\ pkt' = mq[i] /\ pack_move' = Nu(mq[i]) + 1 /\ fpc' = "write"
        /\ UNCHANGED <<up, mode, net, hand, pack_saved, fp, text, cur, save_path, dir1, dir2,
                       jobs, wpc, wpath, notified, finished, pos, hit, faults>>
    BY <1>5 DEF Take, mainVars, poolVars, senderVars
  <2>2. cur \in Xfers
    BY <1>5 DEF TypeOK, LoopOK, IsHeader
  <2>3. VarTypes'
    BY <1>1, <1>2, <2>1, SMTT(30) DEF TypeOK, VarTypes
  <2>4. LoopOK'
    BY <1>1, <2>1, <2>2 DEF TypeOK, LoopOK
  <2> QED BY <2>3, <2>4 DEF TypeOK
<1> QED BY <1>4, <1>5

LEMMA MainType ==
  ASSUME TypeOK, MainThread, UNCHANGED senderVars
  PROVE  TypeOK'
<1> USE DEF TypeOK, VarTypes, LoopOK, fileVars, diskVars, poolVars, senderVars
<1>1. CASE Recvfrom
  <2>1. Head(net) \in Packets /\ Tail(net) \in Seq(Packets)
    BY <1>1, HeadTailProperties DEF Recvfrom
  <2>2. <<Head(net)>> \in Seq(Packets) /\ Len(<<Head(net)>>) = 1
    BY <2>1
  <2> QED BY <1>1, <2>1, <2>2 DEF Recvfrom
<1>2. CASE Msgsnd
  <2>1. Len(mq) \in Nat /\ Len(hand) \in Nat /\ MQCap \in Nat
    BY LenProperties, SudpAssumption
  <2>2. mq \o hand \in Seq(Packets) /\ Len(mq \o hand) = Len(mq) + Len(hand)
    BY ConcatProperties
  <2>3. << >> \in Seq(Packets) /\ Len(<< >>) = 0
    BY EmptySeq
  <2> QED BY <1>2, <2>1, <2>2, <2>3 DEF Msgsnd
<1> QED BY <1>1, <1>2 DEF MainThread

LEMMA FileProcessType ==
  ASSUME TypeOK, FileProcess, UNCHANGED senderVars
  PROVE  TypeOK'
<1> USE StreamFacts DEF TypeOK, VarTypes, LoopOK, mainVars, poolVars, diskVars, senderVars
<1>1. CASE PollHit
  BY <1>1, TakeType DEF PollHit
<1>2. CASE PollMiss
  BY <1>2 DEF PollMiss
<1>3. CASE BlockingRecv
  <2>1. 1 \in 1..Len(mq)
    BY <1>3, EmptySeq, LenProperties, SeqEqual DEF BlockingRecv
  <2> QED BY <1>3, <2>1, TakeType DEF BlockingRecv
<1>4. CASE SetPath
  BY <1>4 DEF SetPath, Paths
<1>5. CASE OpenFile
  <2>1. << >> \in Seq(Packets)
    OBVIOUS
  <2>2. IsDirectory(dir1')
    BY <1>5, <2>1, StoreType DEF OpenFile
  <2> QED BY <1>5, <2>2 DEF OpenFile
<1> DEFINE ChunkWritten ==
             /\ Written \in Seq(Packets) /\ cur \in Xfers /\ pkt \in Packets
             /\ IsDirectory(dir1') /\ IsDirectory(dir2')
             /\ UNCHANGED <<up, mode, net, hand, mq, pkt, cur, save_path, jobs,
                            wpc, wpath, notified, pos, hit, faults>>
<1>6. ASSUME WriteChunk PROVE ChunkWritten
  <2>1. Written \in Seq(Packets)
    BY <1>6, AppendProperties DEF WriteChunk, Written
  <2>2. IsDirectory(dir1') /\ IsDirectory(dir2')
    BY <1>6, <2>1, StoreType DEF WriteChunk
  <2> QED BY <1>6, <2>1, <2>2 DEF WriteChunk
<1>7. CASE CompleteFile
  <2>1. [xfer |-> cur, text |-> Written] \in File
    BY <1>6, <1>7 DEF CompleteFile, File
  <2>2. finished' \in Seq(File)
    BY <1>7, <2>1, AppendProperties DEF CompleteFile
  <2>3. /\ fpc' = "post" /\ fp' = "null" /\ text' = << >>
        /\ pack_saved' \in Nat /\ pack_move' \in Nat \ {0}
    BY <1>7 DEF CompleteFile
  <2>4. << >> \in Seq(Packets)
    OBVIOUS
  <2>5. ChunkWritten
    BY <1>6, <1>7 DEF CompleteFile
  <2>6. /\ fpc' \in {"poll", "block", "path", "open", "write", "post"}
        /\ fp' \in {"null", "dir1", "dir2", "gone"}
        /\ pack_saved' \in Nat /\ pack_move' \in Nat \ {0}
        /\ text' \in Seq(Packets) /\ finished' \in Seq(File)
    BY <2>2, <2>3, <2>4
  <2>7. /\ up' \in BOOLEAN /\ mode' \in Modes
        /\ net' \in Seq(Packets) /\ mq' \in Seq(Packets) /\ Len(mq') <= MQCap
        /\ hand' \in Seq(Packets) /\ Len(hand') <= 1
        /\ pkt' \in Packets \cup {0} /\ cur' \in Xfers \cup {0}
    BY <2>5
  <2>8. /\ save_path' \in Paths /\ jobs' \in 0..JobCap
        /\ wpc' \in [Workers -> {"idle", "start", "move", "unlink", "notify", "failed"}]
        /\ wpath' \in [Workers -> Paths] /\ notified' \in Seq(Paths)
        /\ pos' \in Packets \cup {0} /\ hit' \subseteq Xfers /\ faults' \in 0..MaxFaults
    BY <2>5
  <2>9. VarTypes'
    BY <2>5, <2>6, <2>7, <2>8
  <2>10. LoopOK'
    BY <2>3, <2>5
  <2> QED BY <2>9, <2>10
<1>8. CASE AbandonFile
  <2>1. /\ fpc' = "poll" /\ fp' = "null" /\ text' = << >> /\ finished' = finished
        /\ pack_saved' = 0 /\ pack_move' = 1
    BY <1>8 DEF AbandonFile, Again
  <2>2. << >> \in Seq(Packets)
    OBVIOUS
  <2>3. ChunkWritten
    BY <1>6, <1>8 DEF AbandonFile
  <2>4. VarTypes'
    BY <2>1, <2>2, <2>3, SMTT(30)
  <2>5. LoopOK'
    BY <2>1, <2>3
  <2> QED BY <2>4, <2>5
<1>9. CASE ContinueFile
  <2>1. /\ fpc' = "poll" /\ fp' = fp /\ text' = Written /\ finished' = finished
        /\ pack_saved' \in Nat /\ pack_move' = pack_move
    BY <1>9 DEF ContinueFile
  <2>2. ChunkWritten
    BY <1>6, <1>9 DEF ContinueFile
  <2>3. VarTypes'
    BY <2>1, <2>2
  <2>4. LoopOK'
    BY <2>1, <2>2
  <2> QED BY <2>3, <2>4
<1>10. CASE PostJob
  <2>1. jobs' \in 0..JobCap
    BY <1>10, SudpAssumption DEF PostJob
  <2>2. IsDirectory(dir1') /\ IsDirectory(dir2')
    BY <1>10 DEF PostJob
  <2>3. /\ fpc' = "poll" /\ pack_saved' = 0 /\ pack_move' = 1 /\ fp' = "null"
        /\ UNCHANGED <<up, mode, net, hand, mq, pkt, cur, save_path, text, finished,
                       wpc, wpath, notified, pos, hit, faults>>
    BY <1>10 DEF PostJob, Again
  <2>4. VarTypes'
    BY <2>1, <2>2, <2>3, SMTT(30)
  <2>5. LoopOK'
    BY <2>3
  <2> QED BY <2>4, <2>5
<1> QED
  BY <1>1, <1>2, <1>3, <1>4, <1>5, <1>7, <1>8, <1>9, <1>10 DEF FileProcess

(* The beginning of a file, and what copying it over another leaves.        *)
LEMMA BeginningFacts ==
  ASSUME NEW t \in Seq(Packets), NEW k \in 0..Len(t)
  PROVE  /\ SubSeq(t, 1, k) \in Seq(Packets) /\ Len(SubSeq(t, 1, k)) = k
         /\ \A j \in 1..k : SubSeq(t, 1, k)[j] = t[j]
<1>1. Len(t) \in Nat /\ k \in Nat /\ \A j \in 1..k : t[j] \in Packets
  BY LenProperties, ElementOfSeq
<1>2. /\ SubSeq(t, 1, k) \in Seq(Packets)
      /\ Len(SubSeq(t, 1, k)) = IF 1 <= k THEN k - 1 + 1 ELSE 0
      /\ \A j \in 1..(k - 1 + 1) : SubSeq(t, 1, k)[j] = t[1 + j - 1]
  BY <1>1, SubSeqProperties
<1>3. \A j \in 1..k : j \in 1..(k - 1 + 1) /\ 1 + j - 1 = j
  BY <1>1
<1> QED BY <1>1, <1>2, <1>3

LEMMA OverlayFacts ==
  ASSUME NEW t \in Seq(Packets), NEW old \in Seq(Packets)
  PROVE  /\ Overlay(t, old) \in Seq(Packets)
         /\ Len(Overlay(t, old)) = IF Len(old) <= Len(t) THEN Len(t) ELSE Len(old)
         /\ \A j \in 1..Len(t) : Overlay(t, old)[j] = t[j]
<1>1. Len(t) \in Nat /\ Len(old) \in Nat /\ \A k \in 1..Len(old) : old[k] \in Packets
  BY LenProperties, ElementOfSeq
<1>2. CASE Len(old) <= Len(t)
  BY <1>2 DEF Overlay
<1>3. CASE ~(Len(old) <= Len(t))
  <2> DEFINE rest == SubSeq(old, Len(t) + 1, Len(old))
  <2>1. rest \in Seq(Packets) /\ Len(rest) = Len(old) - Len(t)
    BY <1>1, <1>3, SubSeqProperties
  <2>2. Overlay(t, old) = t \o rest
    BY <1>3 DEF Overlay
  <2> HIDE DEF rest
  <2>3. /\ t \o rest \in Seq(Packets) /\ Len(t \o rest) = Len(t) + Len(rest)
        /\ \A j \in 1..Len(t) : (t \o rest)[j] = t[j]
    BY <1>1, <2>1, ConcatProperties
  <2> QED BY <1>1, <1>3, <2>1, <2>2, <2>3
<1> QED BY <1>2, <1>3

LEMMA CopiesType ==
  ASSUME TypeOK, NEW w \in Workers, NEW k \in 0..Len(dir1[wpath[w]]),
         NEW place \in {"unlink", "failed"}, Copies(w, k, place),
         UNCHANGED pos, hit' \in SUBSET Xfers, faults' \in 0..MaxFaults
  PROVE  TypeOK'
<1> USE DEF TypeOK, VarTypes, LoopOK, mainVars, fileVars
<1>1. wpath[w] \in Names /\ dir1[wpath[w]] \in Seq(Packets)
  BY DEF Copies, IsDirectory
<1>2. SubSeq(dir1[wpath[w]], 1, k) \in Seq(Packets)
  BY <1>1, BeginningFacts
<1>3. OldText(dir2, wpath[w]) \in Seq(Packets)
  BY DEF OldText, IsDirectory
<1>4. IsDirectory(dir2')
  BY <1>1, <1>2, <1>3, OverlayFacts, StoreType DEF Copies
<1> QED BY <1>4 DEF Copies

(* file_helper_copy copies at most all of a file.                           *)
LEMMA WholeLength ==
  ASSUME TypeOK, NEW w \in Workers, wpath[w] \in DOMAIN dir1
  PROVE  Len(dir1[wpath[w]]) \in 0..Len(dir1[wpath[w]])
<1>1. dir1[wpath[w]] \in Seq(Packets)
  BY DEF TypeOK, VarTypes, IsDirectory
<1> QED BY <1>1, LenProperties

LEMMA RecvFinishType ==
  ASSUME TypeOK, NEW w \in Workers, RecvFinish(w), UNCHANGED senderVars
  PROVE  TypeOK'
<1> USE DEF TypeOK, VarTypes, LoopOK, mainVars, fileVars, diskVars, senderVars
<1>1. IsDirectory(<< >>)
  BY DEF IsDirectory
<1>2. CASE TakeJob(w)
  BY <1>2, SudpAssumption DEF TakeJob
<1>3. CASE ReadPath(w)
  BY <1>3 DEF ReadPath
<1>4. CASE RenameFile(w)
  <2>1. wpath[w] \in Names /\ dir1[wpath[w]] \in Seq(Packets)
    BY <1>4 DEF RenameFile, IsDirectory
  <2>2. IsDirectory(dir1') /\ IsDirectory(dir2')
    BY <1>4, <2>1, StoreType, EraseType DEF RenameFile
  <2>3. fp' \in {"dir2", "gone", fp} /\ (fp' = "dir2" => fp \in {"dir1", "dir2"})
    BY <1>4 DEF RenameFile, FpIsOn
  <2>4. fp = "null" => fp' = "null"
    BY <1>4 DEF RenameFile, FpIsOn
  <2> QED BY <1>4, <2>2, <2>3, <2>4 DEF RenameFile
<1>5. CASE RenameDirectory(w)
  BY <1>5, <1>1 DEF RenameDirectory
<1>6. CASE CopyFile(w)
  <2>1. Len(dir1[wpath[w]]) \in 0..Len(dir1[wpath[w]])
    BY <1>6, WholeLength DEF CopyFile, Copies
  <2>2. UNCHANGED pos /\ hit' \in SUBSET Xfers /\ faults' \in 0..MaxFaults
    OBVIOUS
  <2> QED BY <1>6, <2>1, <2>2, CopiesType DEF CopyFile
<1>7. CASE UnlinkSource(w)
  BY <1>7, EraseType DEF UnlinkSource, FpIsOn
<1>8. CASE MoveFails(w)
  BY <1>8 DEF MoveFails, MoveReturns
<1>9. CASE Notify(w)
  <2>1. Append(notified, wpath[w]) \in Seq(Paths)
    BY AppendProperties
  <2> QED BY <1>9, <2>1 DEF Notify
<1> QED BY <1>2, <1>3, <1>4, <1>5, <1>6, <1>7, <1>8, <1>9 DEF RecvFinish

LEMMA FaultType ==
  ASSUME TypeOK, NEW xs \in SUBSET Xfers, Fault(xs)
  PROVE  faults' \in 0..MaxFaults /\ hit' \in SUBSET Xfers
BY TransferAssumption DEF TypeOK, VarTypes, Fault

LEMMA SenderType ==
  ASSUME TypeOK, SendPack \/ SendFails \/ Lose \/ DiskFails
  PROVE  TypeOK'
<1> USE StreamFacts, TransferAssumption
    DEF TypeOK, VarTypes, LoopOK, mainVars, fileVars, diskVars, poolVars, sudpVars
<1>1. CASE SendPack
  <2>1. Append(net, pos + 1) \in Seq(Packets)
    BY <1>1, AppendProperties DEF SendPack
  <2> QED BY <1>1, <2>1 DEF SendPack
<1>2. CASE SendFails
  <2>1. faults' \in 0..MaxFaults /\ hit' \in SUBSET Xfers
    BY <1>2, FaultType DEF SendFails
  <2>2. pos' \in Packets
    BY <1>2 DEF SendFails
  <2>3. UNCHANGED sudpVars
    BY <1>2 DEF SendFails
  <2> QED BY <2>1, <2>2, <2>3
<1>3. CASE Lose
  <2> PICK i \in 1..Len(net) :
         /\ Fault({Xfer(net[i])})
         /\ net' = RemoveAt(net, i)
         /\ UNCHANGED <<pos, up, mode, hand, mq, fileVars, diskVars, poolVars>>
    BY <1>3 DEF Lose
  <2>1. net[i] \in Packets /\ RemoveAt(net, i) \in Seq(Packets)
    BY ElementOfSeq, RemoveAtProperties
  <2>2. faults' \in 0..MaxFaults /\ hit' \in SUBSET Xfers
    BY <2>1, FaultType
  <2> QED BY <2>1, <2>2
<1>4. CASE DiskFails
  <2>1. faults' \in 0..MaxFaults /\ hit' \in SUBSET Xfers
    BY <1>4, FaultType DEF DiskFails
  <2> QED BY <1>4, <2>1 DEF DiskFails, DiskError
<1> QED BY <1>1, <1>2, <1>3, <1>4

LEMMA MoveFaultsType ==
  ASSUME TypeOK, MoveFaults
  PROVE  TypeOK'
<1> PICK w \in Workers : MoveBreaks(w)
  BY DEF MoveFaults
<1>1. faults' \in 0..MaxFaults /\ hit' \in SUBSET Xfers /\ UNCHANGED pos
  <2>1. Fault({}) /\ {} \in SUBSET Xfers
    BY DEF MoveFaults
  <2> QED BY <2>1, FaultType DEF MoveFaults
<1>2. CASE RenameBreaks(w)
  <2>1. Len(dir1[wpath[w]]) \in 0..Len(dir1[wpath[w]])
    BY <1>2, WholeLength DEF RenameBreaks, Copies
  <2> QED BY <1>1, <1>2, <2>1, CopiesType DEF RenameBreaks
<1>3. CASE CopyBreaks(w)
  <2>1. PICK k \in 0..Len(dir1[wpath[w]]) : Copies(w, k, "failed")
    BY <1>3 DEF CopyBreaks, GivesUp
  <2> QED BY <1>1, <2>1, CopiesType
<1>4. CASE OpenBreaks(w) \/ UnlinkBreaks(w)
  BY <1>1, <1>4
  DEF OpenBreaks, MoveReturns, UnlinkBreaks, TypeOK, VarTypes, LoopOK, mainVars, fileVars, diskVars
<1> QED BY <1>2, <1>3, <1>4 DEF MoveBreaks

LEMMA TypeOKStep == TypeOK /\ [FaultyNext]_vars => TypeOK'
<1> SUFFICES ASSUME TypeOK, [FaultyNext]_vars PROVE TypeOK'
  OBVIOUS
<1>1. CASE SudpStep
  BY <1>1, MainType, FileProcessType, RecvFinishType DEF SudpStep
<1>2. CASE SendPack \/ SendFails \/ Lose \/ DiskFails
  BY <1>2, SenderType
<1>3. CASE Done \/ UNCHANGED vars
  BY <1>3 DEF Done, vars, sudpVars, senderVars, mainVars, fileVars, diskVars, poolVars,
             TypeOK, VarTypes, LoopOK
<1>4. CASE MoveFaults
  BY <1>4, MoveFaultsType
<1> QED BY <1>1, <1>2, <1>3, <1>4 DEF FaultyNext, ReliableNext

(* The variables keep their types, and File_Process its header and stream   *)
(* where its loop needs them, whatever the network and the disks do         *)
(* (thread_process.c 165-255).                                              *)
THEOREM TypeCorrect == FaultySafety => []TypeOK
BY InitTypeOK, TypeOKStep, PTL DEF FaultySafety

-----------------------------------------------------------------------------
(* Nothing is lost: the packets between the sender and File_Process are the *)
(* ones that follow the last it received, in order and without a gap.       *)
ChainOK ==
  /\ pos = pkt + Len(mq) + Len(hand) + Len(net)
  /\ \A i \in 1..Len(mq) : mq[i] = pkt + i
  /\ \A i \in 1..Len(hand) : hand[i] = pkt + Len(mq) + i
  /\ \A i \in 1..Len(net) : net[i] = pkt + Len(mq) + Len(hand) + i

(* The first k packets of transfer x.                                       *)
IsPart(t, x, k) ==
  Len(t) = k /\ \A j \in 1..k : Xfer(t[j]) = x /\ Nu(t[j]) = j

(* The last packet received ended file number Len(finished), or belongs to  *)
(* the next file, of which pack_saved packets are written.                  *)
AfterFile ==
  IF pkt = 0 THEN Len(finished) = 0
             ELSE Nu(pkt) = Packs[Xfer(pkt)] /\ Xfer(pkt) = Len(finished)

InFile ==
  /\ pkt # 0
  /\ Xfer(pkt) = Len(finished) + 1 /\ cur = Xfer(pkt)
  /\ pack_move = Nu(pkt) + 1
  /\ IsPart(text, cur, pack_saved)

FileOK ==
  /\ fpc \in {"poll", "block"} /\ pack_saved = 0 => AfterFile /\ pack_move = 1
  /\ fpc \in {"poll", "block"} /\ pack_saved # 0 =>
       InFile /\ pack_saved = Nu(pkt) /\ Nu(pkt) < Packs[Xfer(pkt)]
  /\ fpc \in {"path", "open", "write"} => InFile /\ pack_saved + 1 = Nu(pkt)
  /\ fpc \in {"path", "open"} => Nu(pkt) = 1
  /\ fpc = "post" => AfterFile /\ pkt # 0

HistoryOK == FinishedWhole /\ FinishedInOrder

ReliableInv == TypeOK /\ ChainOK /\ FileOK /\ HistoryOK

LEMMA InitReliableInv == Init => ReliableInv
<1>1. SUFFICES ASSUME Init PROVE ReliableInv
  OBVIOUS
<1>2. TypeOK
  BY <1>1, InitTypeOK
<1>3. Len(<< >>) = 0
  BY EmptySeq
<1> QED
  BY <1>1, <1>2, <1>3
  DEF Init, SudpInit, ReliableInv, ChainOK, FileOK, AfterFile, HistoryOK,
      FinishedWhole, FinishedInOrder

(* The message File_Process finds at the head of the queue is the one it    *)
(* would ask for by number.                                                 *)
LEMMA NextPacket ==
  ASSUME ReliableInv, fpc \in {"poll", "block"}, mq # << >>
  PROVE  /\ mq[1] = pkt + 1 /\ pkt + 1 \in Packets /\ 1 \in 1..Len(mq)
         /\ Nu(pkt + 1) = pack_move
         /\ Xfer(pkt + 1) = Len(finished) + 1
         /\ pack_saved = 0 => Nu(pkt + 1) = 1
         /\ pack_saved # 0 => Nu(pkt + 1) = pack_saved + 1 /\ Xfer(pkt + 1) = cur
<1> USE DEF ReliableInv, TypeOK, VarTypes
<1>1. Len(mq) \in Nat /\ Len(mq) # 0
  BY EmptySeq, LenProperties
<1>2. mq[1] = pkt + 1 /\ 1 \in 1..Len(mq)
  BY <1>1 DEF ChainOK
<1>3. pkt + 1 \in Packets
  BY <1>2, ElementOfSeq
<1>4. CASE pkt = 0
  <2>1. Xfer(1) = 1 /\ Nu(1) = 1
    BY <1>3, <1>4, StreamFacts, StreamAssumption
  <2>2. pack_saved = 0 /\ Len(finished) = 0 /\ pack_move = 1
    BY <1>4 DEF FileOK, InFile, AfterFile
  <2> QED BY <1>2, <1>3, <1>4, <2>1, <2>2
<1>5. CASE pkt # 0
  <2>1. FollowsInStream(pkt, pkt + 1) /\ pkt \in Packets
    BY <1>3, <1>5, StreamAssumption
  <2>2. CASE pack_saved = 0
    <3>1. Nu(pkt) = Packs[Xfer(pkt)] /\ Xfer(pkt) = Len(finished) /\ pack_move = 1
      BY <1>5, <2>2 DEF FileOK, AfterFile
    <3>2. Packs[Xfer(pkt)] \in Nat
      BY <2>1, StreamFacts
    <3> QED BY <1>2, <1>3, <2>1, <2>2, <3>1, <3>2 DEF FollowsInStream
  <2>3. CASE pack_saved # 0
    <3>1. InFile /\ pack_saved = Nu(pkt) /\ Nu(pkt) < Packs[Xfer(pkt)]
      BY <2>3 DEF FileOK
    <3> QED BY <1>2, <1>3, <2>1, <2>3, <3>1 DEF FollowsInStream, InFile
  <2> QED BY <2>2, <2>3
<1> QED BY <1>4, <1>5

LEMMA TakeReliable ==
  ASSUME ReliableInv, TypeOK', UNCHANGED senderVars, fpc \in {"poll", "block"},
         mq # << >>, Take(1)
  PROVE  ReliableInv'
<1> USE DEF TypeOK, VarTypes
<1>1. /\ mq[1] = pkt + 1 /\ pkt + 1 \in Packets /\ 1 \in 1..Len(mq)
      /\ Nu(pkt + 1) = pack_move
      /\ Xfer(pkt + 1) = Len(finished) + 1
      /\ pack_saved = 0 => Nu(pkt + 1) = 1
      /\ pack_saved # 0 => Nu(pkt + 1) = pack_saved + 1 /\ Xfer(pkt + 1) = cur
  BY NextPacket
<1>2. /\ mq \in Seq(Packets) /\ Len(mq) \in Nat /\ Len(net) \in Nat /\ Len(hand) \in Nat
      /\ pkt \in Nat
  <2> HIDE DEF VarTypes, TypeOK
  <2>1. VarTypes
    BY DEF ReliableInv, TypeOK
  <2>2. mq \in Seq(Packets) /\ net \in Seq(Packets) /\ hand \in Seq(Packets)
        /\ pkt \in Packets \cup {0}
    BY <2>1 DEF VarTypes
  <2>3. Len(mq) \in Nat /\ Len(net) \in Nat /\ Len(hand) \in Nat
    BY <2>2, LenProperties
  <2>4. Packets \subseteq Nat
    BY StreamFacts
  <2> QED BY <2>2, <2>3, <2>4
<1>3. /\ Len(mq') = Len(mq) - 1 /\ pkt' = pkt + 1
      /\ \A j \in 1..(Len(mq) - 1) : mq'[j] = mq[j + 1]
  <2>1. mq' = RemoveAt(mq, 1) /\ pkt' = mq[1]
    BY DEF Take
  <2>2. /\ Len(RemoveAt(mq, 1)) = Len(mq) - 1
        /\ \A j \in 1..(Len(mq) - 1) : RemoveAt(mq, 1)[j] = mq[j + 1]
    BY <1>2, RemoveHead
  <2> QED BY <1>1, <2>1, <2>2
<1>4. UNCHANGED <<net, hand, pos, finished>>
  BY DEF Take, mainVars, senderVars
<1>5. ChainOK'
  <2>1. ASSUME NEW i \in 1..Len(mq') PROVE mq'[i] = pkt' + i
    <3>1. i \in 1..(Len(mq) - 1) /\ i + 1 \in 1..Len(mq)
      BY <1>2, <1>3
    <3>2. mq[i + 1] = pkt + (i + 1)
      BY <3>1 DEF ReliableInv, ChainOK
    <3> HIDE DEF TypeOK, VarTypes
    <3>3. mq'[i] = mq[i + 1]
      BY <1>3, <3>1
    <3>4. pkt' = pkt + 1 /\ pkt \in Nat /\ i \in Nat
      BY <1>2, <1>3, <3>1
    <3> QED BY <3>2, <3>3, <3>4
  <2> QED BY <1>2, <1>3, <1>4, <2>1 DEF ReliableInv, ChainOK
<1>6. HistoryOK'
  BY <1>4 DEF ReliableInv, HistoryOK, FinishedWhole, FinishedInOrder
<1>7. CASE pack_saved = 0
  <2>1. /\ pack_saved' = 0 /\ text' = << >> /\ cur' = Xfer(pkt + 1) /\ fpc' = "path"
        /\ pack_move' = 2 /\ Nu(pkt') = 1 /\ Xfer(pkt') = Len(finished') + 1
    BY <1>1, <1>3, <1>4, <1>7 DEF Take, IsHeader
  <2>2. IsPart(text', cur', pack_saved')
    BY <2>1, EmptySeq DEF IsPart
  <2>3. InFile'
    BY <1>2, <1>3, <2>1, <2>2, SMTT(30) DEF InFile
  <2>4. FileOK'
    BY <2>1, <2>3 DEF FileOK
  <2> QED BY <1>5, <1>6, <2>4 DEF ReliableInv
<1>8. CASE pack_saved # 0
  <2>1. ~IsHeader(mq[1])
    BY <1>1, <1>8 DEF IsHeader, ReliableInv
  <2>2. /\ UNCHANGED <<pack_saved, text, cur>> /\ fpc' = "write"
        /\ pack_move' = Nu(pkt') + 1
    BY <1>1, <1>3, <2>1 DEF Take
  <2>3. InFile
    BY <1>8 DEF ReliableInv, FileOK
  <2>4. InFile' /\ pack_saved' + 1 = Nu(pkt')
    BY <1>1, <1>2, <1>3, <1>4, <1>8, <2>2, <2>3 DEF InFile, IsPart
  <2>5. FileOK'
    BY <2>2, <2>4 DEF FileOK
  <2> QED BY <1>5, <1>6, <2>5 DEF ReliableInv
<1> QED BY <1>7, <1>8

(* FileOK and HistoryOK speak of File_Process's own variables only.         *)
LEMMA FileStutter ==
  ASSUME FileOK, HistoryOK, UNCHANGED fileVars
  PROVE  FileOK' /\ HistoryOK'
BY DEF FileOK, HistoryOK, FinishedWhole, FinishedInOrder, fileVars, InFile, AfterFile

LEMMA ChainStutter ==
  ASSUME ChainOK, UNCHANGED <<pos, pkt, mq, hand, net>>
  PROVE  ChainOK'
BY DEF ChainOK

LEMMA ChannelFacts ==
  ASSUME TypeOK
  PROVE  /\ net \in Seq(Packets) /\ hand \in Seq(Packets) /\ mq \in Seq(Packets)
         /\ Len(net) \in Nat /\ Len(hand) \in Nat /\ Len(mq) \in Nat
         /\ pos \in Nat /\ pkt \in Nat
<1>1. net \in Seq(Packets) /\ hand \in Seq(Packets) /\ mq \in Seq(Packets)
  BY DEF TypeOK, VarTypes
<1>2. pos \in Packets \cup {0} /\ pkt \in Packets \cup {0}
  BY DEF TypeOK, VarTypes
<1>3. Packets \subseteq Nat
  BY StreamFacts
<1> QED BY <1>1, <1>2, <1>3, LenProperties

LEMMA SendReliable ==
  ASSUME ReliableInv, TypeOK', SendPack
  PROVE  ReliableInv'
<1>1. /\ net \in Seq(Packets) /\ pos \in Nat /\ pkt \in Nat
      /\ Len(net) \in Nat /\ Len(hand) \in Nat /\ Len(mq) \in Nat
  BY ChannelFacts DEF ReliableInv
<1>2. /\ pos + 1 \in Packets /\ pos' = pos + 1 /\ net' = Append(net, pos + 1)
      /\ UNCHANGED <<mq, hand, pkt, fileVars>>
  BY DEF SendPack, fileVars
<1>3. /\ Len(net') = Len(net) + 1 /\ net'[Len(net) + 1] = pos + 1
      /\ \A i \in 1..Len(net) : net'[i] = net[i]
  BY <1>1, <1>2, AppendProperties
<1>4. \A i \in 1..Len(net') : net'[i] = pkt' + Len(mq') + Len(hand') + i
  <2>1. TAKE i \in 1..Len(net')
  <2>2. CASE i = Len(net) + 1
    BY <1>1, <1>2, <1>3, <2>2 DEF ReliableInv, ChainOK
  <2>3. CASE i # Len(net) + 1
    <3>1. i \in 1..Len(net)
      BY <1>1, <1>3, <2>3
    <3> QED BY <1>2, <1>3, <3>1 DEF ReliableInv, ChainOK
  <2> QED BY <2>2, <2>3
<1>5. ChainOK'
  BY <1>1, <1>2, <1>3, <1>4 DEF ReliableInv, ChainOK
<1> QED BY <1>2, <1>5, FileStutter DEF ReliableInv

LEMMA MainReliable ==
  ASSUME ReliableInv, TypeOK', MainThread, UNCHANGED senderVars
  PROVE  ReliableInv'
<1>1. /\ net \in Seq(Packets) /\ hand \in Seq(Packets) /\ mq \in Seq(Packets)
      /\ Len(net) \in Nat /\ Len(hand) \in Nat /\ Len(mq) \in Nat
      /\ Len(<< >>) = 0 /\ pkt \in Nat /\ pos \in Nat
  BY ChannelFacts, EmptySeq DEF ReliableInv
<1>2. UNCHANGED fileVars /\ UNCHANGED <<pos, pkt>>
  BY DEF MainThread, Recvfrom, Msgsnd, fileVars, senderVars
<1>3. CASE Recvfrom
  <2>1. /\ hand = << >> /\ net # << >> /\ hand' = <<Head(net)>> /\ net' = Tail(net)
        /\ mq' = mq
    BY <1>3 DEF Recvfrom
  <2>2. Len(net) # 0 /\ Head(net) = net[1] /\ Len(hand') = 1 /\ hand'[1] = net[1]
    BY <1>1, <2>1, EmptySeq
  <2>3. Len(net') = Len(net) - 1 /\ \A i \in 1..(Len(net) - 1) : net'[i] = net[i + 1]
    BY <1>1, <2>1, HeadTailProperties
  <2>4. \A i \in 1..Len(hand') : hand'[i] = pkt' + Len(mq') + i
    BY <1>1, <1>2, <2>1, <2>2 DEF ReliableInv, ChainOK
  <2>5. ASSUME NEW i \in 1..Len(net')
        PROVE  net'[i] = pkt' + Len(mq') + Len(hand') + i
    <3>1. i \in 1..(Len(net) - 1) /\ i + 1 \in 1..Len(net)
      BY <1>1, <2>3
    <3>2. net[i + 1] = pkt + Len(mq) + Len(hand) + (i + 1)
      BY <3>1 DEF ReliableInv, ChainOK
    <3>3. net'[i] = net[i + 1]
      BY <2>3, <3>1
    <3> QED BY <1>1, <1>2, <2>1, <2>2, <3>1, <3>2, <3>3
  <2>6. ChainOK'
    BY <1>1, <1>2, <2>1, <2>2, <2>3, <2>4, <2>5 DEF ReliableInv, ChainOK
  <2> QED BY <1>2, <2>6, FileStutter DEF ReliableInv
<1>4. CASE Msgsnd
  <2>1. mq' = mq \o hand /\ hand' = << >> /\ net' = net
    BY <1>4 DEF Msgsnd
  <2>2. /\ Len(mq') = Len(mq) + Len(hand)
        /\ \A i \in 1..(Len(mq) + Len(hand)) :
             mq'[i] = IF i <= Len(mq) THEN mq[i] ELSE hand[i - Len(mq)]
    BY <1>1, <2>1, ConcatProperties
  <2>3. ASSUME NEW i \in 1..Len(mq') PROVE mq'[i] = pkt' + i
    <3>1. CASE i <= Len(mq)
      BY <1>1, <1>2, <2>2, <3>1 DEF ReliableInv, ChainOK
    <3>2. CASE ~(i <= Len(mq))
      <4>1. i - Len(mq) \in 1..Len(hand) /\ mq'[i] = hand[i - Len(mq)]
        BY <1>1, <2>2, <3>2
      <4>2. hand[i - Len(mq)] = pkt + Len(mq) + (i - Len(mq))
        BY <4>1 DEF ReliableInv, ChainOK
      <4> QED BY <1>1, <1>2, <4>1, <4>2
    <3> QED BY <3>1, <3>2
  <2>4. ChainOK'
    BY <1>1, <1>2, <2>1, <2>2, <2>3 DEF ReliableInv, ChainOK
  <2> QED BY <1>2, <2>4, FileStutter DEF ReliableInv
<1> QED BY <1>3, <1>4 DEF MainThread

LEMMA WriteReliable ==
  ASSUME ReliableInv, TypeOK', CompleteFile \/ AbandonFile \/ ContinueFile,
         UNCHANGED senderVars
  PROVE  ReliableInv'
<1>1. WriteChunk
  BY DEF CompleteFile, AbandonFile, ContinueFile
<1>2. fpc = "write" /\ UNCHANGED <<net, hand, mq, pkt, cur, pos>>
  BY <1>1 DEF WriteChunk, mainVars, senderVars
<1>3. ChainOK'
  BY <1>2, ChainStutter DEF ReliableInv
<1>4. InFile /\ pack_saved + 1 = Nu(pkt)
  BY <1>2 DEF ReliableInv, FileOK
<1>5. /\ pkt \in Packets /\ text \in Seq(Packets) /\ pack_saved \in Nat
      /\ finished \in Seq(File) /\ cur \in Xfers
  BY <1>4 DEF ReliableInv, TypeOK, VarTypes, InFile, LoopOK
<1>6. IsPart(Written, cur, pack_saved + 1)
  <2>1. /\ Len(text) = pack_saved
        /\ \A j \in 1..pack_saved : Xfer(text[j]) = cur /\ Nu(text[j]) = j
        /\ Xfer(pkt) = cur
    BY <1>4 DEF InFile, IsPart
  <2>2. /\ Len(Written) = pack_saved + 1 /\ Written[pack_saved + 1] = pkt
        /\ \A j \in 1..pack_saved : Written[j] = text[j]
    BY <1>5, <2>1, AppendProperties DEF Written
  <2>3. \A j \in 1..(pack_saved + 1) : j \in 1..pack_saved \/ j = pack_saved + 1
    BY <1>5
  <2> QED BY <1>4, <2>1, <2>2, <2>3 DEF IsPart
<1>7. CASE CompleteFile
  <2> DEFINE f == [xfer |-> cur, text |-> Written]
  <2>1. /\ finished' = Append(finished, f) /\ fpc' = "post" /\ Packs[cur] = pack_saved + 1
    BY <1>7 DEF CompleteFile, CompleteAt
  <2>2. IsWhole(f.text, f.xfer) /\ f.xfer = Len(finished) + 1
    BY <1>4, <1>6, <2>1 DEF IsWhole, IsPart, InFile
  <2>3. /\ Len(finished) \in Nat /\ Len(finished') = Len(finished) + 1
        /\ finished'[Len(finished) + 1] = f
        /\ \A i \in 1..Len(finished) : finished'[i] = finished[i]
    <3> HIDE DEF f
    <3>1. f \in File
      BY <1>5, <1>6, AppendProperties DEF File, Written, f
    <3> QED BY <1>5, <2>1, <3>1, AppendProperties, LenProperties
  <2> HIDE DEF f
  <2>4. \A i \in 1..Len(finished') : i \in 1..Len(finished) \/ i = Len(finished) + 1
    BY <2>3
  <2>5. HistoryOK'
    BY <2>2, <2>3, <2>4 DEF ReliableInv, HistoryOK, FinishedWhole, FinishedInOrder
  <2>6. FileOK'
    BY <1>2, <1>4, <2>1, <2>3 DEF FileOK, AfterFile, InFile
  <2> QED BY <1>3, <2>5, <2>6 DEF ReliableInv
<1>8. CASE AbandonFile
  <2>1. Packs[cur] # pack_saved + 1 /\ Packs[cur] = pack_move - 1
    BY <1>8 DEF AbandonFile, CompleteAt
  <2>2. pack_move = Nu(pkt) + 1 /\ Nu(pkt) \in Nat
    BY <1>4, <1>5, StreamFacts DEF InFile
  <2> QED BY <1>4, <2>1, <2>2
<1>9. CASE ContinueFile
  <2>1. /\ Packs[cur] # pack_saved + 1
        /\ pack_saved' = pack_saved + 1 /\ text' = Written /\ fpc' = "poll"
        /\ UNCHANGED <<pack_move, finished>>
    BY <1>9 DEF ContinueFile, CompleteAt
  <2>2. Nu(pkt) <= Packs[cur] /\ Packs[cur] \in Nat
    BY <1>4, <1>5, StreamFacts, StreamAssumption DEF InFile
  <2>3. InFile' /\ pack_saved' = Nu(pkt') /\ Nu(pkt') < Packs[Xfer(pkt')]
    BY <1>2, <1>4, <1>5, <1>6, <2>1, <2>2 DEF InFile
  <2>4. FileOK'
    BY <1>5, <2>1, <2>3 DEF FileOK
  <2>5. HistoryOK'
    BY <2>1 DEF ReliableInv, HistoryOK, FinishedWhole, FinishedInOrder
  <2> QED BY <1>3, <2>4, <2>5 DEF ReliableInv
<1> QED BY <1>7, <1>8, <1>9

LEMMA FileProcessReliable ==
  ASSUME ReliableInv, TypeOK', FileProcess, UNCHANGED senderVars
  PROVE  ReliableInv'
<1>1. CASE PollHit
  <2>1. PICK i \in 1..Len(mq) : FirstOfType(i, pack_move) /\ Take(i)
    BY <1>1 DEF PollHit
  <2>2. mq # << >> /\ fpc = "poll"
    BY <1>1, <2>1, EmptySeq DEF PollHit
  <2>3. mq[1] = pkt + 1 /\ Nu(pkt + 1) = pack_move
    BY <2>2, NextPacket
  <2>4. i = 1
    BY <2>1, <2>3, ChannelFacts DEF FirstOfType, ReliableInv
  <2> QED BY <2>1, <2>2, <2>4, TakeReliable
<1>2. CASE PollMiss
  <2>1. /\ fpc = "poll" /\ fpc' = "block"
        /\ UNCHANGED <<net, hand, mq, pkt, pack_move, pack_saved, cur, text, finished, pos>>
    BY <1>2 DEF PollMiss, mainVars, senderVars
  <2>2. ChainOK' /\ HistoryOK'
    BY <2>1, ChainStutter DEF ReliableInv, HistoryOK, FinishedWhole, FinishedInOrder
  <2>3. FileOK'
    BY <2>1 DEF ReliableInv, FileOK, InFile, AfterFile
  <2> QED BY <2>2, <2>3 DEF ReliableInv
<1>3. CASE BlockingRecv
  BY <1>3, TakeReliable DEF BlockingRecv
<1>4. CASE SetPath \/ OpenFile
  <2>1. /\ fpc \in {"path", "open"} /\ fpc' \in {"open", "write"}
        /\ UNCHANGED <<net, hand, mq, pkt, pack_move, pack_saved, cur, text, finished, pos>>
    BY <1>4 DEF SetPath, OpenFile, mainVars, senderVars
  <2>2. ChainOK' /\ HistoryOK'
    BY <2>1, ChainStutter DEF ReliableInv, HistoryOK, FinishedWhole, FinishedInOrder
  <2>3. FileOK'
    BY <2>1 DEF ReliableInv, FileOK, InFile, AfterFile
  <2> QED BY <2>2, <2>3 DEF ReliableInv
<1>5. CASE CompleteFile \/ AbandonFile \/ ContinueFile
  BY <1>5, WriteReliable
<1>6. CASE PostJob
  <2>1. /\ fpc = "post" /\ fpc' = "poll" /\ pack_saved' = 0 /\ pack_move' = 1
        /\ UNCHANGED <<net, hand, mq, pkt, finished, pos>>
    BY <1>6 DEF PostJob, Again, mainVars, senderVars
  <2>2. ChainOK' /\ HistoryOK'
    BY <2>1, ChainStutter DEF ReliableInv, HistoryOK, FinishedWhole, FinishedInOrder
  <2>3. FileOK'
    BY <2>1 DEF ReliableInv, FileOK, AfterFile
  <2> QED BY <2>2, <2>3 DEF ReliableInv
<1> QED BY <1>1, <1>2, <1>3, <1>4, <1>5, <1>6 DEF FileProcess

LEMMA ReliableInvStep == ReliableInv /\ [ReliableNext]_vars => ReliableInv'
<1> SUFFICES ASSUME ReliableInv, [ReliableNext]_vars PROVE ReliableInv'
  OBVIOUS
<1>1. TypeOK'
  BY TypeOKStep DEF ReliableInv, FaultyNext
<1>2. CASE SendPack
  BY <1>1, <1>2, SendReliable
<1>3. CASE SudpStep
  <2>1. CASE MainThread /\ UNCHANGED senderVars
    BY <1>1, <2>1, MainReliable
  <2>2. CASE FileProcess /\ UNCHANGED senderVars
    BY <1>1, <2>2, FileProcessReliable
  <2>3. ASSUME NEW w \in Workers, RecvFinish(w), UNCHANGED senderVars
        PROVE  ReliableInv'
    <3>1. UNCHANGED fileVars /\ UNCHANGED <<pos, pkt, mq, hand, net>>
      BY <2>3 DEF RecvFinish, TakeJob, ReadPath, RenameFile, RenameDirectory, CopyFile,
                  Copies, UnlinkSource, MoveReturns, MoveFails, Notify, fileVars, mainVars, senderVars
    <3> QED BY <1>1, <3>1, ChainStutter, FileStutter DEF ReliableInv
  <2> QED BY <1>3, <2>1, <2>2, <2>3 DEF SudpStep
<1>4. CASE Done \/ UNCHANGED vars
  <2>1. UNCHANGED fileVars /\ UNCHANGED <<pos, pkt, mq, hand, net>>
    BY <1>4 DEF Done, vars, sudpVars, senderVars, mainVars, fileVars
  <2> QED BY <1>1, <2>1, ChainStutter, FileStutter DEF ReliableInv
<1> QED BY <1>2, <1>3, <1>4 DEF ReliableNext

(* Without faults every completed file is whole: the receiver's two ways to *)
(* pick a message, the two limits that block it and the pool's threads      *)
(* cannot make it mix or skip packets.                                      *)
THEOREM CompletedFilesAreWhole == ReliableSafety => []FinishedWhole
<1>1. ReliableInv => FinishedWhole
  BY DEF ReliableInv, HistoryOK
<1> QED BY <1>1, InitReliableInv, ReliableInvStep, PTL DEF ReliableSafety

(* Without faults the files are completed in the order they were queued.    *)
THEOREM CompletedInOrder == ReliableSafety => []FinishedInOrder
<1>1. ReliableInv => FinishedInOrder
  BY DEF ReliableInv, HistoryOK
<1> QED BY <1>1, InitReliableInv, ReliableInvStep, PTL DEF ReliableSafety

LEMMA StepDelivers ==
  ReliableInv /\ ReliableInv' /\ [ReliableNext]_vars => [Delivery!Next]_(Len(finished))
<1> SUFFICES ASSUME ReliableInv, ReliableInv', [ReliableNext]_vars
             PROVE  [Delivery!Next]_(Len(finished))
  OBVIOUS
<1>1. ASSUME CompleteFile PROVE Delivery!Next
  <2>1. InFile /\ cur \in Xfers /\ finished \in Seq(File)
    BY <1>1 DEF CompleteFile, WriteChunk, ReliableInv, FileOK, TypeOK, VarTypes, LoopOK
  <2>2. Len(finished) \in Nat /\ Len(finished) + 1 = cur
    BY <2>1, LenProperties DEF InFile
  <2>3. Cardinality(Xfers) = Len(Packs) /\ cur \in 1..Len(Packs) /\ Len(Packs) \in Nat
    <3>1. Xfers = 1..Len(Packs) /\ Len(Packs) \in Nat
      BY StreamFacts
    <3>2. Cardinality(1..Len(Packs)) = Len(Packs)
      BY <3>1, FS_Interval, SMTT(30)
    <3> QED BY <2>1, <3>1, <3>2
  <2>4. [xfer |-> cur, text |-> Written] \in File
    <3>1. Written \in Seq(Packets)
      BY <1>1, AppendProperties
      DEF Written, CompleteFile, WriteChunk, ReliableInv, TypeOK, VarTypes, LoopOK
    <3> QED BY <2>1, <3>1 DEF File
  <2>5. Len(finished') = Len(finished) + 1
    BY <1>1, <2>1, <2>4, AppendProperties DEF CompleteFile
  <2> QED BY <2>2, <2>3, <2>5 DEF Delivery!Next, Delivery!Deliver
<1>2. CompleteFile \/ UNCHANGED finished
  BY DEF ReliableNext, SendPack, SudpStep, MainThread, Recvfrom, Msgsnd, FileProcess,
         PollHit, PollMiss, BlockingRecv, Take, SetPath, OpenFile, AbandonFile,
         ContinueFile, PostJob, RecvFinish, TakeJob, ReadPath, RenameFile,
         RenameDirectory, CopyFile, Copies, UnlinkSource, MoveReturns, MoveFails,
         Notify, Done, vars, sudpVars, fileVars
<1> QED BY <1>1, <1>2

(* Without faults the pair implements FileDelivery's safety part: each step *)
(* delivers the next queued file, whole, or changes nothing a client sees.  *)
THEOREM ImplementsDelivery == ReliableSafety => DeliversSafely
<1>1. Init => Delivery!Init
  BY EmptySeq DEF Init, SudpInit, Delivery!Init
<1> QED
  BY <1>1, InitReliableInv, ReliableInvStep, StepDelivers, PTL
  DEF ReliableSafety, DeliversSafely, Delivery!Safety

-----------------------------------------------------------------------------
(* Paced transfers with faults.  A file whose end was lost stays open until *)
(* a packet numbered 1 comes; if that one is lost, too, the rest of the next*)
(* file is taken for the rest of this one.  So two files in a row must not  *)
(* be hit; one fault cannot hit two files, except that of a disk, which     *)
(* ends Sudp.                                                               *)
Sparse == \A x \in hit : x + 1 \notin hit
Scarce == faults <= 1 \/ Sparse
FewHit ==
  /\ faults = 0 => hit = {}
  /\ up /\ faults <= 1 => \A x, y \in hit : x = y

(* What is between the sender and File_Process, oldest first: packets of    *)
(* the transfer that is being sent, with increasing numbers above Start,    *)
(* the number of the last one that File_Process has had of it.              *)
Flight == mq \o hand \o net
Sending == pos # 0
Received == pkt # 0 /\ Xfer(pkt) = Xfer(pos)
Start == IF Received THEN Nu(pkt) ELSE 0
FlightOK ==
  /\ ~Sending => pkt = 0 /\ Len(Flight) = 0
  /\ Sending => Start <= Nu(pos)
  /\ pkt # 0 => Xfer(pkt) <= Xfer(pos)
  /\ \A i \in 1..Len(Flight) :
       Xfer(Flight[i]) = Xfer(pos) /\ Start < Nu(Flight[i]) /\ Nu(Flight[i]) <= Nu(pos)
  /\ \A i, j \in 1..Len(Flight) : i < j => Nu(Flight[i]) < Nu(Flight[j])

(* Of a transfer no fault has touched, no packet is missing there.          *)
Intact == Sending /\ Xfer(pos) \notin hit
Gapless ==
  Intact => /\ Nu(pos) = Start + Len(Flight)
            /\ \A i \in 1..Len(Flight) : Nu(Flight[i]) = Start + i

(* The first k packets of a file have come, this one among them, or there   *)
(* is a gap, and then there are never enough of them.                       *)
SoFar(k) ==
  /\ pkt # 0 /\ cur = Xfer(pkt) /\ pack_move = Nu(pkt) + 1
  /\ \/ Nu(pkt) = k /\ IsPart(text, cur, pack_saved)
     \/ Nu(pkt) > k

Waiting == fpc \in {"poll", "block"}
InHand == fpc \in {"path", "open", "write"}
Unfinished == Waiting /\ pack_saved # 0

PlaceOK ==
  /\ fpc # "block" /\ Sending => Received
  /\ Waiting /\ pack_saved = 0 => pack_move = 1
  /\ Unfinished => SoFar(pack_saved) /\ pack_saved < Packs[cur]
  /\ InHand => SoFar(pack_saved + 1)
  /\ fpc \in {"path", "open"} => pack_saved = 0 /\ text = << >>
  /\ fpc = "post" => pkt # 0 /\ cur = Xfer(pkt) /\ Nu(pkt) = Packs[cur]

(* A file that is left unfinished was hit, and so was every one since.      *)
LeftOver ==
  Unfinished => \A x \in Xfers : cur <= x /\ x < Xfer(pos) => x \in hit

(* Of an untouched transfer there are as many packets as the last one says. *)
CountOK ==
  Intact /\ Received =>
    /\ Unfinished => Nu(pkt) = pack_saved
    /\ Waiting /\ pack_saved = 0 => Nu(pkt) = Packs[Xfer(pkt)]
    /\ InHand => Nu(pkt) = pack_saved + 1

(* What a copy of the current file leaves in dir2, where no file is longer  *)
(* than one that was sent under its name.                                   *)
Begins(t, x) == Packs[x] <= Len(t) /\ \A k \in 1..Packs[x] : Xfer(t[k]) = x /\ Nu(t[k]) = k
Covered == Name[cur] \in DOMAIN dir2 /\ Begins(dir2[Name[cur]], cur)
Bounded(d) == \A n \in DOMAIN d : \E y \in Xfers : Name[y] = n /\ Len(d[n]) <= Packs[y]

(* The open file holds what was written; nobody has moved it.               *)
HoldsWhole(d) == Holds(d, Name[cur], cur)
LastDone == Len(finished) # 0 /\ finished[Len(finished)].xfer = cur
StoreOK ==
  /\ fpc \in {"open", "write", "post"} \/ Unfinished => save_path = Name[cur]
  /\ fpc = "write" \/ Unfinished => fp = "dir1"
  /\ fpc = "post" => HoldsWhole(dir1) /\ LastDone
  /\ Bounded(dir2)

(* A job is alone, its file is whole, and File_Process has nothing to do.   *)
Busy(w) == wpc[w] # "idle"
Working == jobs # 0 \/ \E w \in Workers : Busy(w)
AtRest ==
  /\ Waiting /\ pack_saved = 0 /\ Sending /\ Received
  /\ cur = Xfer(pkt) /\ Nu(pkt) = Packs[cur] /\ save_path = Name[cur]
JobOK ==
  /\ Working => AtRest /\ LastDone
  /\ jobs <= 1
  /\ jobs # 0 => HoldsWhole(dir1) /\ \A w \in Workers : ~Busy(w)
  /\ \A w, v \in Workers : Busy(w) /\ Busy(v) => w = v
  /\ \A w \in Workers :
       /\ wpc[w] \in {"start", "move", "failed"} => HoldsWhole(dir1)
       /\ wpc[w] \in {"move", "unlink", "notify", "failed"} => wpath[w] = Name[cur]
       /\ wpc[w] = "move" => mode # "stay"
       /\ wpc[w] = "unlink" => MayBeCopied
       /\ wpc[w] \in {"unlink", "notify"} /\ mode # "stay" => Covered
       /\ wpc[w] = "notify" /\ ~MayBeCopied => HoldsWhole(Destination)

ChannelInv == FlightOK /\ Gapless
FileInv == PlaceOK /\ LeftOver /\ CountOK
UpInv == ChannelInv /\ FileInv /\ StoreOK /\ JobOK

PacedInv == FewHit /\ (Scarce => FinishedWhole /\ (up => UpInv))

-----------------------------------------------------------------------------
(* The stream is in order: the transfers follow each other, and within one  *)
(* the numbers grow.                                                        *)
LEMMA StreamOrder ==
  ASSUME NEW p \in Packets, NEW q \in Packets, p <= q
  PROVE  /\ Xfer(p) <= Xfer(q)
         /\ Xfer(p) = Xfer(q) => Nu(p) <= Nu(q)
<1> DEFINE Before(a, b) == Xfer(a) <= Xfer(b) /\ (Xfer(a) = Xfer(b) => Nu(a) <= Nu(b))
           T == {d \in Nat : \A a \in Packets : a + d \in Packets => Before(a, a + d)}
<1>1. /\ Packets = 1..Len(Stream) /\ Len(Stream) \in Nat
      /\ \A a \in Packets : Xfer(a) \in Nat /\ Nu(a) \in Nat
  BY StreamFacts
<1>2. 0 \in T
  BY <1>1
<1>3. ASSUME NEW d \in Nat, d \in T PROVE d + 1 \in T
  <2> SUFFICES ASSUME NEW a \in Packets, a + (d + 1) \in Packets
               PROVE  Before(a, a + (d + 1))
    OBVIOUS
  <2>1. a + d \in Packets /\ (a + d) + 1 = a + (d + 1)
    BY <1>1
  <2>2. Before(a, a + d)
    BY <1>3, <2>1
  <2>3. FollowsInStream(a + d, a + (d + 1))
    BY <2>1, StreamAssumption
  <2> QED BY SMTT(30), <1>1, <2>1, <2>2, <2>3 DEF FollowsInStream
<1> HIDE DEF T
<1>4. Nat \subseteq T
  BY <1>2, <1>3, NatSetInduction
<1>5. q - p \in Nat /\ p + (q - p) = q
  BY <1>1
<1> QED BY <1>4, <1>5 DEF T

(* The next packet is the next one of the file, or the first of the next.   *)
LEMMA NextInStream ==
  ASSUME pos \in Packets \cup {0}, pos + 1 \in Packets
  PROVE  /\ Nu(pos + 1) # 1 =>
              Sending /\ Xfer(pos + 1) = Xfer(pos) /\ Nu(pos + 1) = Nu(pos) + 1
         /\ Nu(pos + 1) = 1 /\ Sending =>
              Xfer(pos + 1) = Xfer(pos) + 1 /\ Nu(pos) = Packs[Xfer(pos)]
<1>1. pos = 0 => Nu(pos + 1) = 1
  <2>1. Stream # << >>
    BY StreamFacts, EmptySeq
  <2> QED BY <2>1, StreamAssumption
<1>2. CASE Sending
  <2>1. pos \in Packets /\ FollowsInStream(pos, pos + 1)
    BY <1>2, StreamAssumption DEF Sending
  <2>2. Nu(pos) <= Packs[Xfer(pos)] /\ Xfer(pos) \in Xfers /\ Nu(pos) \in Nat \ {0}
    BY <2>1, StreamAssumption, StreamFacts
  <2>3. Packs[Xfer(pos)] \in Nat
    BY <2>2, StreamFacts
  <2> QED BY <1>2, <2>1, <2>2, <2>3 DEF FollowsInStream
<1>3. CASE ~Sending
  BY <1>1, <1>3 DEF Sending
<1> QED BY <1>2, <1>3

(* Where SendPack_ex stops, the numbers of its file end.                    *)
LEMMA EndOfTransfer ==
  ASSUME NEW p \in Packets, NEW q \in Packets, Xfer(p) = Xfer(q),
         q + 1 \in Packets => Nu(q + 1) = 1
  PROVE  Nu(p) <= Nu(q)
<1>1. /\ Packets = 1..Len(Stream) /\ Len(Stream) \in Nat
      /\ Nu(p) \in Nat /\ Nu(q) \in Nat \ {0} /\ Packs[Xfer(q)] \in Nat
  BY StreamFacts
<1>2. Nu(p) <= Packs[Xfer(q)] /\ Nu(q) <= Packs[Xfer(q)]
  BY StreamAssumption
<1>3. CASE q + 1 \in Packets
  <2>1. FollowsInStream(q, q + 1) /\ Nu(q + 1) = 1
    BY <1>3, StreamAssumption
  <2>2. ~(Nu(q) < Packs[Xfer(q)])
    BY <1>1, <2>1 DEF FollowsInStream
  <2> QED BY <1>2, <1>1, <2>2
<1>4. CASE q + 1 \notin Packets
  <2>1. p <= q
    BY <1>1, <1>4
  <2> QED BY <2>1, StreamOrder
<1> QED BY <1>3, <1>4

(* The flight as one sequence, and where its parts are in it.               *)
LEMMA FlightFacts ==
  ASSUME TypeOK
  PROVE  /\ Flight \in Seq(Packets)
         /\ Len(mq) \in Nat /\ Len(hand) \in Nat /\ Len(net) \in Nat
         /\ Len(Flight) = Len(mq) + Len(hand) + Len(net)
         /\ \A i \in 1..Len(mq) : Flight[i] = mq[i]
         /\ \A i \in 1..Len(net) : Flight[Len(mq) + Len(hand) + i] = net[i]
         /\ \A i \in 1..Len(Flight) :
              Flight[i] \in Packets /\ Nu(Flight[i]) \in Nat \ {0} /\ Xfer(Flight[i]) \in Nat
<1> DEFINE front == mq \o hand
<1>1. /\ net \in Seq(Packets) /\ hand \in Seq(Packets) /\ mq \in Seq(Packets)
      /\ Len(net) \in Nat /\ Len(hand) \in Nat /\ Len(mq) \in Nat
  BY ChannelFacts
<1>2. /\ front \in Seq(Packets) /\ Len(front) = Len(mq) + Len(hand)
      /\ \A i \in 1..Len(mq) : front[i] = mq[i]
  <2>1. /\ front \in Seq(Packets) /\ Len(front) = Len(mq) + Len(hand)
        /\ \A i \in 1..(Len(mq) + Len(hand)) :
             front[i] = IF i <= Len(mq) THEN mq[i] ELSE hand[i - Len(mq)]
    BY <1>1, ConcatProperties
  <2> QED BY <1>1, <2>1
<1> HIDE DEF front
<1>3. /\ front \o net \in Seq(Packets) /\ Len(front \o net) = Len(front) + Len(net)
      /\ \A i \in 1..(Len(front) + Len(net)) :
           (front \o net)[i] = IF i <= Len(front) THEN front[i] ELSE net[i - Len(front)]
  <2>1. front \in Seq(Packets) /\ net \in Seq(Packets)
    BY <1>1, <1>2
  <2> QED BY <2>1, ConcatProperties
<1>4. Flight = front \o net
  BY DEF Flight, front
<1>5. \A i \in 1..Len(mq) : Flight[i] = mq[i]
  BY <1>1, <1>2, <1>3, <1>4
<1>6. ASSUME NEW i \in 1..Len(net) PROVE Flight[Len(mq) + Len(hand) + i] = net[i]
  <2>1. /\ Len(front) + i \in 1..(Len(front) + Len(net)) /\ ~(Len(front) + i <= Len(front))
        /\ (Len(front) + i) - Len(front) = i
    BY <1>1, <1>2
  <2> QED BY <1>2, <1>3, <1>4, <2>1
<1>7. ASSUME NEW i \in 1..Len(Flight)
      PROVE  Flight[i] \in Packets /\ Nu(Flight[i]) \in Nat \ {0} /\ Xfer(Flight[i]) \in Nat
  <2>1. Flight[i] \in Packets
    BY <1>3, <1>4, ElementOfSeq
  <2> QED BY <2>1, StreamFacts
<1> QED BY <1>1, <1>2, <1>3, <1>4, <1>5, <1>6, <1>7

(* What each step does to the flight.                                       *)
FlightGains(p) ==
  /\ Len(Flight') = Len(Flight) + 1
  /\ Flight'[Len(Flight) + 1] = p
  /\ \A i \in 1..Len(Flight) : Flight'[i] = Flight[i]

FlightLoses(k) ==
  /\ Len(Flight') = Len(Flight) - 1
  /\ \A i \in 1..(Len(Flight) - 1) :
       Flight'[i] = IF i < k THEN Flight[i] ELSE Flight[i + 1]

LEMMA SendFlight ==
  ASSUME TypeOK, SendPack
  PROVE  FlightGains(pos + 1)
<1>1. /\ mq \o hand \in Seq(Packets) /\ net \in Seq(Packets) /\ pos + 1 \in Packets
      /\ Flight \in Seq(Packets)
  BY FlightFacts, ChannelFacts, ConcatProperties DEF SendPack
<1>2. Flight' = (mq \o hand) \o Append(net, pos + 1)
  BY DEF SendPack, Flight
<1>3. Flight' = Append(Flight, pos + 1)
  <2>1. Append(net, pos + 1) = net \o <<pos + 1>> /\ <<pos + 1>> \in Seq(Packets)
    BY <1>1, AppendIsConcat
  <2>2. (mq \o hand) \o (net \o <<pos + 1>>) = ((mq \o hand) \o net) \o <<pos + 1>>
    BY SMTT(30), <1>1, <2>1, ConcatAssociative
  <2>3. Append(Flight, pos + 1) = Flight \o <<pos + 1>>
    BY <1>1, AppendIsConcat
  <2> QED BY <1>2, <2>1, <2>2, <2>3 DEF Flight
<1> QED BY <1>1, <1>3, AppendFacts DEF FlightGains

LEMMA MainFlight ==
  ASSUME TypeOK, MainThread
  PROVE  Flight' = Flight
<1>1. net \in Seq(Packets) /\ hand \in Seq(Packets) /\ mq \in Seq(Packets)
  BY ChannelFacts
<1>2. CASE Recvfrom
  <2>1. /\ hand = << >> /\ net # << >> /\ hand' = <<Head(net)>> /\ net' = Tail(net)
        /\ mq' = mq
    BY <1>2 DEF Recvfrom
  <2>2. <<Head(net)>> \o Tail(net) = net /\ <<Head(net)>> \in Seq(Packets)
        /\ Tail(net) \in Seq(Packets)
    BY <1>1, <2>1, HeadTailProperties, ConcatProperties, SMTT(30)
  <2>3. mq \o << >> = mq
    BY <1>1, ConcatEmptySeq
  <2>4. (mq \o <<Head(net)>>) \o Tail(net) = mq \o (<<Head(net)>> \o Tail(net))
    BY SMTT(30), <1>1, <2>2, ConcatAssociative
  <2> QED BY <2>1, <2>2, <2>3, <2>4 DEF Flight
<1>3. CASE Msgsnd
  <2>1. mq' = mq \o hand /\ hand' = << >> /\ net' = net
    BY <1>3 DEF Msgsnd
  <2>2. mq \o hand \in Seq(Packets) /\ (mq \o hand) \o << >> = mq \o hand
    BY <1>1, ConcatProperties, ConcatEmptySeq
  <2> QED BY <2>1, <2>2 DEF Flight
<1> QED BY <1>2, <1>3 DEF MainThread

LEMMA TakeFlight ==
  ASSUME TypeOK, TypeOK', mq # << >>, mq' = RemoveAt(mq, 1), UNCHANGED <<hand, net>>
  PROVE  FlightLoses(1) /\ Len(Flight) # 0 /\ mq[1] = Flight[1]
<1>1. /\ mq \in Seq(Packets) /\ Len(mq) \in Nat \ {0} /\ Len(hand) \in Nat /\ Len(net) \in Nat
      /\ Len(mq') = Len(mq) - 1
      /\ \A j \in 1..(Len(mq) - 1) : mq'[j] = mq[j + 1]
  BY RemoveHead, ChannelFacts, EmptyFacts
<1> DEFINE rest == hand \o net
<1>2. /\ rest \in Seq(Packets) /\ Len(rest) \in Nat
  BY ChannelFacts, ConcatProperties, LenProperties
<1>3. Flight = mq \o rest /\ Flight' = mq' \o rest
  <2>1. /\ mq' \in Seq(Packets) /\ mq \in Seq(Packets)
        /\ hand \in Seq(Packets) /\ net \in Seq(Packets)
    BY DEF TypeOK, VarTypes
  <2>2. (mq \o hand) \o net = mq \o (hand \o net)
    BY SMTT(30), <2>1, ConcatAssociative
  <2>3. (mq' \o hand) \o net = mq' \o (hand \o net)
    BY SMTT(30), <2>1, ConcatAssociative
  <2> QED BY <2>2, <2>3 DEF Flight
<1> HIDE DEF rest
<1>4. /\ Len(Flight) = Len(mq) + Len(rest)
      /\ \A i \in 1..(Len(mq) + Len(rest)) :
           Flight[i] = IF i <= Len(mq) THEN mq[i] ELSE rest[i - Len(mq)]
  BY <1>1, <1>2, <1>3, ConcatProperties
<1>5. /\ Len(Flight') = Len(mq') + Len(rest)
      /\ \A i \in 1..(Len(mq') + Len(rest)) :
           Flight'[i] = IF i <= Len(mq') THEN mq'[i] ELSE rest[i - Len(mq')]
  <2>1. mq' \in Seq(Packets)
    BY DEF TypeOK, VarTypes
  <2> QED BY <1>2, <1>3, <2>1, ConcatProperties
<1>6. ASSUME NEW i \in 1..(Len(Flight) - 1) PROVE Flight'[i] = Flight[i + 1]
  <2>1. i \in 1..(Len(mq') + Len(rest)) /\ i + 1 \in 1..(Len(mq) + Len(rest)) /\ i \in Nat
    BY <1>1, <1>2, <1>4
  <2>2. CASE i <= Len(mq')
    <3>1. i \in 1..(Len(mq) - 1) /\ i + 1 <= Len(mq)
      BY <1>1, <2>1, <2>2
    <3> QED BY <1>1, <1>4, <1>5, <2>1, <2>2, <3>1
  <2>3. CASE ~(i <= Len(mq'))
    <3>1. ~(i + 1 <= Len(mq)) /\ (i + 1) - Len(mq) = i - Len(mq')
      <4>1. Len(mq) \in Nat /\ Len(mq') = Len(mq) - 1 /\ i \in Nat
        BY <1>1, <2>1
      <4> HIDE <1>1
      <4> QED BY <4>1, <2>3
    <3> QED BY <1>4, <1>5, <2>1, <2>3, <3>1
  <2> QED BY <2>2, <2>3
<1>7. Len(Flight') = Len(Flight) - 1 /\ Len(Flight) # 0 /\ mq[1] = Flight[1]
  BY <1>1, <1>2, <1>4, <1>5
<1>8. \A i \in 1..(Len(Flight) - 1) : ~(i < 1)
  BY <1>1, <1>2, <1>4
<1> QED BY <1>6, <1>7, <1>8 DEF FlightLoses

LEMMA LoseFlight ==
  ASSUME TypeOK, NEW i \in 1..Len(net), net' = RemoveAt(net, i), UNCHANGED <<mq, hand>>
  PROVE  \E k \in 1..Len(Flight) : Flight[k] = net[i] /\ FlightLoses(k)
<1> DEFINE front == mq \o hand
           m == Len(mq) + Len(hand)
<1>1. /\ net \in Seq(Packets) /\ Len(net) \in Nat /\ net' \in Seq(Packets)
      /\ Len(net') = Len(net) - 1
      /\ \A j \in 1..(Len(net) - 1) : net'[j] = IF j < i THEN net[j] ELSE net[j + 1]
  BY RemoveAtProperties, ChannelFacts
<1>2. front \in Seq(Packets) /\ Len(front) = m /\ m \in Nat
  BY ChannelFacts, ConcatProperties
<1>3. Flight = front \o net /\ Flight' = front \o net'
  BY DEF Flight
<1> HIDE DEF front, m
<1>4. /\ Len(Flight) = m + Len(net)
      /\ \A j \in 1..(m + Len(net)) : Flight[j] = IF j <= m THEN front[j] ELSE net[j - m]
  BY <1>1, <1>2, <1>3, ConcatProperties
<1>5. /\ Len(Flight') = m + Len(net')
      /\ \A j \in 1..(m + Len(net')) : Flight'[j] = IF j <= m THEN front[j] ELSE net'[j - m]
  BY <1>1, <1>2, <1>3, ConcatProperties
<1>6. m + i \in 1..Len(Flight) /\ Flight[m + i] = net[i]
  <2>1. m + i \in 1..(m + Len(net)) /\ ~(m + i <= m) /\ (m + i) - m = i
    BY <1>1, <1>2
  <2> QED BY <1>4, <2>1
<1>7. ASSUME NEW j \in 1..(Len(Flight) - 1)
      PROVE  Flight'[j] = IF j < m + i THEN Flight[j] ELSE Flight[j + 1]
  <2>1. j \in 1..(m + Len(net')) /\ j \in 1..(m + Len(net)) /\ j + 1 \in 1..(m + Len(net))
    BY <1>1, <1>2, <1>4
  <2>2. CASE j <= m
    BY <1>1, <1>2, <1>4, <1>5, <2>1, <2>2
  <2>3. CASE ~(j <= m)
    <3>1. /\ j - m \in 1..(Len(net) - 1) /\ (j + 1) - m = (j - m) + 1
          /\ (j - m < i <=> j < m + i) /\ ~(j + 1 <= m)
      BY <1>1, <1>2, <2>1, <2>3
    <3>2. Flight'[j] = net'[j - m] /\ Flight[j] = net[j - m] /\ Flight[j + 1] = net[(j - m) + 1]
      BY SMTT(30), <1>4, <1>5, <2>1, <2>3, <3>1
    <3> QED BY <1>1, <3>1, <3>2
  <2> QED BY <2>2, <2>3
<1>8. Len(Flight') = Len(Flight) - 1
  BY <1>1, <1>2, <1>4, <1>5
<1> QED BY <1>6, <1>7, <1>8 DEF FlightLoses

LEMMA PacketFacts ==
  ASSUME TypeOK
  PROVE  /\ Packets \subseteq Nat \ {0} /\ Xfers \subseteq Nat /\ hit \subseteq Xfers
         /\ pos \in Nat /\ pkt \in Nat /\ pack_saved \in Nat /\ pack_move \in Nat
         /\ Start \in Nat /\ text \in Seq(Packets)
         /\ Sending => /\ pos \in Packets /\ Xfer(pos) \in Xfers
                       /\ Nu(pos) \in Nat \ {0} /\ Packs[Xfer(pos)] \in Nat
                       /\ Nu(pos) <= Packs[Xfer(pos)]
         /\ pkt # 0 => /\ pkt \in Packets /\ Xfer(pkt) \in Xfers
                       /\ Nu(pkt) \in Nat \ {0} /\ Packs[Xfer(pkt)] \in Nat
                       /\ Nu(pkt) <= Packs[Xfer(pkt)]
<1>1. /\ Packets \subseteq Nat \ {0} /\ Xfers \subseteq Nat
      /\ \A p \in Packets : /\ Xfer(p) \in Xfers /\ Nu(p) \in Nat \ {0}
                            /\ Packs[Xfer(p)] \in Nat
  BY StreamFacts
<1>2. \A p \in Packets : Nu(p) <= Packs[Xfer(p)]
  BY StreamAssumption
<1>3. /\ pos \in Packets \cup {0} /\ pkt \in Packets \cup {0} /\ hit \subseteq Xfers
      /\ pack_saved \in Nat /\ pack_move \in Nat /\ text \in Seq(Packets)
  BY DEF TypeOK, VarTypes
<1> QED BY <1>1, <1>2, <1>3 DEF Sending, Start, Received

(* The faults allowed by Scarce leave the transfers around each hit one     *)
(* alone while Sudp runs, and were rare before as well.                     *)
LEMMA ScarceIsSparse ==
  ASSUME TypeOK, FewHit, Scarce, up
  PROVE  Sparse
<1>1. hit \subseteq Xfers /\ Xfers \subseteq Nat /\ faults \in Nat
  BY SMTT(30), PacketFacts, TransferAssumption DEF TypeOK, VarTypes
<1>2. CASE faults <= 1
  BY <1>1, <1>2 DEF FewHit, Sparse
<1> QED BY <1>2 DEF Scarce

LEMMA ScarceBefore ==
  ASSUME TypeOK, [FaultyNext]_vars, Scarce'
  PROVE  Scarce
<1>1. hit \subseteq hit' /\ faults \in Nat /\ (faults' = faults \/ faults' = faults + 1)
  BY TransferAssumption
  DEF TypeOK, VarTypes, FaultyNext, ReliableNext, SendPack, SudpStep, Done, Lose, SendFails,
      DiskFails, MoveFaults, Fault, vars, senderVars
<1> QED BY <1>1 DEF Scarce, Sparse

LEMMA FewHitStep ==
  ASSUME TypeOK, FewHit, [FaultyNext]_vars
  PROVE  FewHit'
<1>1. faults \in Nat
  BY TransferAssumption DEF TypeOK, VarTypes
<1>2. ASSUME NEW x, hit' = hit \cup {x}, faults' = faults + 1, up' = up
      PROVE  FewHit'
  BY <1>1, <1>2 DEF FewHit
<1>3. CASE Lose \/ SendFails
  BY <1>2, <1>3 DEF Lose, SendFails, Fault, sudpVars
<1>4. CASE DiskFails
  BY <1>1, <1>4 DEF DiskFails, DiskError, Fault, FewHit
<1>5. CASE MoveFaults
  BY <1>1, <1>5
  DEF MoveFaults, MoveBreaks, RenameBreaks, OpenBreaks, MoveReturns, CopyBreaks, Copies,
      UnlinkBreaks, Fault, FewHit
<1>6. CASE SendPack \/ SudpStep \/ Done \/ UNCHANGED vars
  <2>1. UNCHANGED <<hit, faults>>
    BY <1>6 DEF SendPack, SudpStep, Done, vars, senderVars
  <2>2. up' => up
    BY <1>6
    DEF SendPack, SudpStep, Done, vars, sudpVars, MainThread, Recvfrom, Msgsnd, FileProcess,
        PollHit, PollMiss, BlockingRecv, Take, SetPath, OpenFile, CompleteFile, AbandonFile,
        ContinueFile, WriteChunk, PostJob, RecvFinish, TakeJob, ReadPath, RenameFile,
        RenameDirectory, CopyFile, Copies, UnlinkSource, MoveFails, MoveReturns, Notify
  <2> QED BY <2>1, <2>2 DEF FewHit
<1> QED BY <1>3, <1>4, <1>6, <1>5 DEF FaultyNext, ReliableNext

-----------------------------------------------------------------------------
(* What the sender and the network may do to Sudp's half of the invariant.  *)
SameTransfer == (Sending' <=> Sending) /\ (Sending => Xfer(pos') = Xfer(pos))

LEMMA FileKeeps ==
  ASSUME FileInv, SameTransfer, hit \subseteq hit', UNCHANGED fileVars
  PROVE  FileInv'
<1>1. Received' = Received \/ ~Sending
  BY DEF SameTransfer, Received, fileVars
<1>2. PlaceOK'
  BY <1>1 DEF FileInv, PlaceOK, SameTransfer, SoFar, IsPart, Waiting, InHand, Unfinished, fileVars
<1>3. LeftOver'
  <2>1. Xfer(pos') = Xfer(pos)
    BY DEF SameTransfer, Sending
  <2> QED BY <2>1 DEF FileInv, LeftOver, Waiting, Unfinished, fileVars, Xfers
<1>4. CountOK'
  BY <1>1 DEF FileInv, CountOK, SameTransfer, Intact, Waiting, InHand, Unfinished, fileVars
<1> QED BY <1>2, <1>3, <1>4 DEF FileInv

LEMMA StoreKeeps ==
  ASSUME StoreOK, UNCHANGED <<fileVars, diskVars>>
  PROVE  StoreOK'
BY DEF StoreOK, HoldsWhole, Holds, LastDone, Bounded, Waiting, Unfinished, fileVars, diskVars

(* Once a file may have been copied, it may.                                *)
LEMMA CopiedStays ==
  ASSUME TypeOK, mode' = mode, faults' = faults \/ faults' = faults + 1
  PROVE  MayBeCopied => MayBeCopied'
<1>1. faults \in Nat
  BY TransferAssumption DEF TypeOK, VarTypes
<1> QED BY <1>1 DEF MayBeCopied

LEMMA JobKeeps ==
  ASSUME JobOK, SameTransfer, MayBeCopied => MayBeCopied',
         UNCHANGED <<mode, fileVars, diskVars, poolVars>>
  PROVE  JobOK'
<1>1. AtRest => AtRest'
  BY DEF SameTransfer, AtRest, Received, Waiting, fileVars
<1>2. /\ HoldsWhole(dir1)' = HoldsWhole(dir1) /\ Covered' = Covered /\ LastDone' = LastDone
      /\ HoldsWhole(Destination)' = HoldsWhole(Destination)
  BY DEF HoldsWhole, Holds, Covered, LastDone, Destination, fileVars, diskVars
<1> QED BY <1>1, <1>2 DEF JobOK, Working, Busy, fileVars, diskVars, poolVars

(* A new transfer begins when Sudp waits, and all of the last one that no   *)
(* fault has touched is in its files.                                       *)
LEMMA NewTransfer ==
  ASSUME TypeOK, UpInv, Quiet, pos + 1 \in Packets, Nu(pos + 1) = 1,
         pos' \in Packets, Xfer(pos') = Xfer(pos + 1), hit \subseteq hit',
         UNCHANGED <<mode, fileVars, diskVars, poolVars>>
  PROVE  FileInv' /\ StoreOK' /\ JobOK' /\ Sending' /\ ~Received' /\ Len(Flight) = 0
         /\ (pkt # 0 => Xfer(pkt) <= Xfer(pos'))
<1>1. /\ fpc = "block" /\ jobs = 0 /\ (\A w \in Workers : ~Busy(w)) /\ Len(Flight) = 0
  BY EmptySeq, FlightFacts DEF Quiet, Busy
<1>2. Sending => Xfer(pos') = Xfer(pos) + 1 /\ Nu(pos) = Packs[Xfer(pos)]
  BY NextInStream DEF TypeOK, VarTypes
<1>3. Sending' /\ Xfer(pos') \in Nat
  BY PacketFacts, StreamFacts DEF Sending
<1>4. ~Received' /\ (pkt # 0 => Xfer(pkt) <= Xfer(pos'))
  <2>1. pkt # 0 => Sending /\ Xfer(pkt) <= Xfer(pos) /\ Xfer(pkt) \in Nat /\ Xfer(pos) \in Nat
    BY PacketFacts DEF UpInv, ChannelInv, FlightOK
  <2>2. pkt # 0 => Xfer(pkt) < Xfer(pos')
    BY <1>2, <2>1
  <2> QED BY <1>3, <2>1, <2>2 DEF Received, fileVars
<1>5. PlaceOK'
  BY <1>1 DEF UpInv, FileInv, PlaceOK, SoFar, IsPart, Waiting, InHand, Unfinished, fileVars
<1>6. CountOK'
  BY <1>4 DEF CountOK
<1>7. LeftOver'
  <2> SUFFICES ASSUME Unfinished, NEW x \in Xfers, cur <= x, x < Xfer(pos')
               PROVE  x \in hit
    BY DEF LeftOver, Unfinished, Waiting, fileVars, Xfers
  <2>1. pkt # 0 /\ cur = Xfer(pkt) /\ pack_saved < Packs[cur] /\ Sending
    BY DEF UpInv, FileInv, PlaceOK, SoFar, ChannelInv, FlightOK
  <2>2. Xfer(pos) \in Xfers /\ Xfer(pos) \in Nat /\ x \in Nat
    BY <2>1, PacketFacts
  <2>3. CASE x < Xfer(pos)
    BY <2>3 DEF UpInv, FileInv, LeftOver
  <2>4. CASE x = Xfer(pos)
    <3> SUFFICES ASSUME x \notin hit PROVE FALSE
      OBVIOUS
    <3>1. Intact /\ Nu(pos) = Start
      BY <1>1, <2>1, <2>4, PacketFacts DEF Intact, UpInv, ChannelInv, Gapless
    <3>2. Received /\ Nu(pos) = Nu(pkt)
      BY <2>1, <3>1, PacketFacts DEF Start
    <3>3. Nu(pkt) = pack_saved
      BY <3>1, <3>2 DEF UpInv, FileInv, CountOK
    <3> QED BY <1>2, <2>1, <3>2, <3>3, PacketFacts DEF Received
  <2> QED BY <1>2, <2>1, <2>2, <2>3, <2>4
<1>8. JobOK'
  BY <1>1 DEF UpInv, JobOK, Working, Busy, fileVars, diskVars, poolVars
<1>9. StoreOK'
  BY StoreKeeps DEF UpInv
<1> QED BY <1>1, <1>3, <1>4, <1>5, <1>6, <1>7, <1>8, <1>9 DEF FileInv

(* The channel's half, from what a step does to the flight.                 *)
LEMMA FlightKeeps ==
  ASSUME ChannelInv, Flight' = Flight, UNCHANGED <<pos, hit, pkt>>
  PROVE  ChannelInv'
<1>1. Received' = Received /\ Start' = Start
  BY DEF Received, Start
<1> QED BY <1>1 DEF ChannelInv, FlightOK, Gapless, Intact, Sending

LEMMA SendPaced ==
  ASSUME Paced, TypeOK, TypeOK', UpInv, up, SendPack
  PROVE  UpInv'
<1>1. /\ pos + 1 \in Packets /\ pos' = pos + 1 /\ pos' # 0
      /\ UNCHANGED <<mode, pkt, hit, fileVars, diskVars, poolVars>>
      /\ (MayBeCopied => MayBeCopied')
  BY PacketFacts DEF SendPack, fileVars, MayBeCopied
<1>2. FlightGains(pos + 1) /\ Len(Flight) \in Nat
  BY SendFlight, FlightFacts
<1>3. ASSUME NEW i \in 1..Len(Flight'), i \notin 1..Len(Flight)
      PROVE  i = Len(Flight) + 1 /\ Flight'[i] = pos'
  BY <1>1, <1>2, <1>3 DEF FlightGains
<1>4. /\ Start \in Nat /\ Nu(pos') \in Nat \ {0} /\ Xfer(pos') \in Nat
      /\ \A i \in 1..Len(Flight) : Nu(Flight[i]) \in Nat
  BY <1>1, PacketFacts, StreamFacts, FlightFacts
<1>5. CASE Nu(pos + 1) # 1
  <2>1. /\ Sending /\ Xfer(pos') = Xfer(pos) /\ Nu(pos') = Nu(pos) + 1 /\ Nu(pos) \in Nat
        /\ SameTransfer /\ Received' = Received /\ Start' = Start
    BY <1>1, <1>5, NextInStream, PacketFacts
    DEF SameTransfer, Sending, Received, Start, TypeOK, VarTypes
  <2>2. ASSUME NEW i \in 1..Len(Flight')
        PROVE  Xfer(Flight'[i]) = Xfer(pos') /\ Start < Nu(Flight'[i]) /\ Nu(Flight'[i]) <= Nu(pos')
    <3>1. CASE i \in 1..Len(Flight)
      BY <1>2, <1>4, <2>1, <3>1 DEF UpInv, ChannelInv, FlightOK, FlightGains
    <3>2. CASE i \notin 1..Len(Flight)
      BY <1>3, <1>4, <2>1, <3>2 DEF UpInv, ChannelInv, FlightOK
    <3> QED BY <3>1, <3>2
  <2>3. ASSUME NEW i \in 1..Len(Flight'), NEW j \in 1..Len(Flight'), i < j
        PROVE  Nu(Flight'[i]) < Nu(Flight'[j])
    <3>1. i \in 1..Len(Flight)
      BY <1>2, <2>3 DEF FlightGains
    <3>2. CASE j \in 1..Len(Flight)
      BY <1>2, <2>3, <3>1, <3>2 DEF UpInv, ChannelInv, FlightOK, FlightGains
    <3>3. CASE j \notin 1..Len(Flight)
      BY <1>2, <1>3, <1>4, <2>1, <3>1, <3>3 DEF UpInv, ChannelInv, FlightOK, FlightGains
    <3> QED BY <3>2, <3>3
  <2>4. FlightOK'
    BY <1>1, <1>4, <2>1, <2>2, <2>3 DEF UpInv, ChannelInv, FlightOK, Sending
  <2>5. Gapless'
    <3> SUFFICES ASSUME Intact PROVE /\ Nu(pos') = Start + Len(Flight')
                                     /\ \A i \in 1..Len(Flight') : Nu(Flight'[i]) = Start + i
      BY <1>1, <2>1 DEF Gapless, Intact
    <3>1. Nu(pos) = Start + Len(Flight)
      BY DEF UpInv, ChannelInv, Gapless
    <3>2. Nu(pos') = Start + Len(Flight')
      BY <1>2, <1>4, <2>1, <3>1 DEF FlightGains
    <3>3. ASSUME NEW i \in 1..Len(Flight') PROVE Nu(Flight'[i]) = Start + i
      <4>1. CASE i \in 1..Len(Flight)
        BY <1>2, <4>1 DEF UpInv, ChannelInv, Gapless, FlightGains
      <4>2. CASE i \notin 1..Len(Flight)
        BY <1>2, <1>3, <1>4, <3>2, <4>2 DEF FlightGains
      <4> QED BY <4>1, <4>2
    <3> QED BY <3>2, <3>3
  <2> QED BY <1>1, <2>1, <2>4, <2>5, FileKeeps, StoreKeeps, JobKeeps DEF UpInv, ChannelInv
<1>6. CASE Nu(pos + 1) = 1
  <2>1. Quiet
    BY <1>6 DEF SendPack
  <2>2. /\ FileInv' /\ StoreOK' /\ JobOK' /\ Sending' /\ ~Received' /\ Len(Flight) = 0
        /\ (pkt # 0 => Xfer(pkt) <= Xfer(pos'))
    BY <1>1, <1>6, <2>1, NewTransfer
  <2>3. Start' = 0
    BY <2>2 DEF Start
  <2>4. Len(Flight') = 1 /\ Flight'[1] = pos'
    BY <1>1, <1>2, <2>2 DEF FlightGains
  <2>5. FlightOK'
    BY <1>1, <1>4, <1>6, <2>2, <2>3, <2>4 DEF FlightOK, fileVars
  <2>6. Gapless'
    BY <1>1, <1>6, <2>3, <2>4 DEF Gapless
  <2> QED BY <2>2, <2>5, <2>6 DEF UpInv, ChannelInv
<1> QED BY <1>5, <1>6

LEMMA SendFailsPaced ==
  ASSUME Paced, TypeOK, TypeOK', UpInv, up, SendFails
  PROVE  UpInv'
<1>1. PICK q \in Packets : /\ Xfer(q) = Xfer(pos + 1)
                           /\ q + 1 \in Packets => Nu(q + 1) = 1
                           /\ pos' = q
  BY DEF SendFails
<1>2. /\ pos + 1 \in Packets /\ pos' \in Packets /\ pos' # 0
      /\ hit' = hit \cup {Xfer(pos')}
      /\ UNCHANGED <<mode, pkt, fileVars, diskVars, poolVars>> /\ Flight' = Flight
      /\ faults' = faults + 1
  BY <1>1, PacketFacts DEF SendFails, Fault, sudpVars, fileVars, mainVars, Flight
<1>3. Gapless'
  BY <1>2 DEF Gapless, Intact
<1>4. CASE Nu(pos + 1) # 1
  <2>1. /\ Sending /\ Xfer(pos') = Xfer(pos) /\ pos \in Packets
        /\ SameTransfer /\ Received' = Received /\ Start' = Start
    BY <1>1, <1>2, <1>4, NextInStream, PacketFacts
    DEF SameTransfer, Sending, Received, Start, TypeOK, VarTypes
  <2>2. Nu(pos) <= Nu(pos') /\ Nu(pos) \in Nat /\ Nu(pos') \in Nat /\ Start \in Nat
    BY <1>1, <1>2, <2>1, EndOfTransfer, StreamFacts, PacketFacts
  <2>3. FlightOK'
    BY <1>2, <2>1, <2>2, FlightFacts DEF UpInv, ChannelInv, FlightOK, Sending
  <2> QED BY <1>2, <1>3, <2>1, <2>3, FileKeeps, StoreKeeps, JobKeeps, CopiedStays
      DEF UpInv, ChannelInv
<1>5. CASE Nu(pos + 1) = 1
  <2>1. Quiet
    BY <1>5 DEF SendFails
  <2>2. /\ FileInv' /\ StoreOK' /\ JobOK' /\ Sending' /\ ~Received' /\ Len(Flight) = 0
        /\ (pkt # 0 => Xfer(pkt) <= Xfer(pos'))
    BY <1>1, <1>2, <1>5, <2>1, NewTransfer
  <2>3. Start' = 0 /\ Nu(pos') \in Nat
    BY <1>2, <2>2, StreamFacts DEF Start
  <2>4. FlightOK'
    BY <1>2, <2>2, <2>3 DEF FlightOK
  <2> QED BY <1>3, <2>2, <2>4 DEF UpInv, ChannelInv
<1> QED BY <1>4, <1>5

LEMMA LosePaced ==
  ASSUME TypeOK, UpInv, up, Lose
  PROVE  UpInv'
<1>1. PICK i \in 1..Len(net) :
         /\ Fault({Xfer(net[i])})
         /\ net' = RemoveAt(net, i)
         /\ UNCHANGED <<pos, up, mode, hand, mq, fileVars, diskVars, poolVars>>
  BY DEF Lose
<1>2. PICK k \in 1..Len(Flight) : Flight[k] = net[i] /\ FlightLoses(k)
  BY <1>1, LoseFlight
<1>3. /\ UNCHANGED <<pos, pkt, Received, Start>> /\ hit' = hit \cup {Xfer(pos)}
  BY <1>1, <1>2 DEF Fault, UpInv, ChannelInv, FlightOK, Received, Start, fileVars
<1>4. Len(Flight) \in Nat /\ Len(Flight) # 0
  BY FlightFacts
<1>5. Gapless'
  BY <1>3 DEF Gapless, Intact
<1>6. FlightOK'
  <2>1. \A j \in 1..Len(Flight') : j \in 1..Len(Flight) /\ j + 1 \in 1..Len(Flight)
    BY <1>2, <1>4 DEF FlightLoses
  <2>2. ASSUME NEW j \in 1..Len(Flight')
        PROVE  Flight'[j] = IF j < k THEN Flight[j] ELSE Flight[j + 1]
    BY <1>2, <1>4 DEF FlightLoses
  <2>3. ASSUME NEW a \in 1..Len(Flight'), NEW b \in 1..Len(Flight'), a < b
        PROVE  Nu(Flight'[a]) < Nu(Flight'[b])
    <3>1. PICK c \in 1..Len(Flight), d \in 1..Len(Flight) :
            Flight'[a] = Flight[c] /\ Flight'[b] = Flight[d] /\ c < d
      BY <2>1, <2>2, <2>3
    <3> QED BY <3>1 DEF UpInv, ChannelInv, FlightOK
  <2>4. ASSUME NEW j \in 1..Len(Flight')
        PROVE  /\ Xfer(Flight'[j]) = Xfer(pos)
               /\ Start < Nu(Flight'[j]) /\ Nu(Flight'[j]) <= Nu(pos)
    BY <2>1, <2>2 DEF UpInv, ChannelInv, FlightOK
  <2>5. Sending /\ Sending'
    BY <1>3, <1>4 DEF UpInv, ChannelInv, FlightOK, Sending
  <2> QED BY <1>3, <2>3, <2>4, <2>5 DEF UpInv, ChannelInv, FlightOK
<1>7. /\ SameTransfer /\ hit \subseteq hit' /\ UNCHANGED <<mode, fileVars, diskVars, poolVars>>
      /\ faults' = faults + 1
  BY <1>1, <1>3 DEF SameTransfer, Sending, Fault
<1> QED BY <1>5, <1>6, <1>7, FileKeeps, StoreKeeps, JobKeeps, CopiedStays DEF UpInv, ChannelInv

LEMMA MainPaced ==
  ASSUME TypeOK, UpInv, MainThread, UNCHANGED senderVars
  PROVE  UpInv'
<1>1. /\ SameTransfer /\ UNCHANGED <<pos, hit, pkt, mode, fileVars, diskVars, poolVars>>
  BY DEF MainThread, Recvfrom, Msgsnd, senderVars, fileVars, SameTransfer, Sending
<1>2. MayBeCopied => MayBeCopied'
  BY <1>1 DEF MayBeCopied, senderVars
<1> QED
  BY <1>1, <1>2, MainFlight, FlightKeeps, FileKeeps, StoreKeeps, JobKeeps DEF UpInv

LEMMA StutterPaced ==
  ASSUME UpInv, UNCHANGED vars
  PROVE  UpInv'
<1>1. /\ SameTransfer /\ UNCHANGED <<pos, hit, pkt, mode, fileVars, diskVars, poolVars>>
      /\ Flight' = Flight /\ (MayBeCopied => MayBeCopied')
  BY DEF vars, sudpVars, senderVars, mainVars, fileVars, SameTransfer, Sending, Flight,
         MayBeCopied
<1> QED BY <1>1, FlightKeeps, FileKeeps, StoreKeeps, JobKeeps DEF UpInv

(* The oldest message of the flight, when there is one, is not the end of   *)
(* a file that was left over: the file it belongs to follows one that was   *)
(* hit, so it is intact and the message is numbered 1.                      *)
LEMMA FirstOfFlight ==
  ASSUME TypeOK, Sparse, UpInv, Len(Flight) # 0
  PROVE  /\ Sending /\ ~Working
         /\ Unfinished /\ ~Received => Nu(Flight[1]) = 1
         /\ Waiting /\ pack_saved = 0 /\ Intact => Nu(Flight[1]) = 1
<1>1. Len(Flight) \in Nat /\ Sending /\ 1 \in 1..Len(Flight) /\ Flight[1] \in Packets
  BY FlightFacts DEF UpInv, ChannelInv, FlightOK
<1>2. /\ Xfer(Flight[1]) = Xfer(pos) /\ Start < Nu(Flight[1])
      /\ Nu(Flight[1]) <= Packs[Xfer(pos)] /\ Nu(Flight[1]) \in Nat
      /\ Packs[Xfer(pos)] \in Nat /\ Xfer(pos) \in Xfers /\ Start \in Nat
      /\ (Intact => Nu(Flight[1]) = Start + 1)
  <2>1. Nu(Flight[1]) \in Nat /\ Nu(Flight[1]) <= Packs[Xfer(Flight[1])]
    BY <1>1, StreamFacts, StreamAssumption
  <2> QED BY <1>1, <2>1, PacketFacts DEF UpInv, ChannelInv, FlightOK, Gapless
<1>3. ~(Received /\ Nu(pkt) = Packs[Xfer(pkt)])
  BY <1>2, PacketFacts DEF Start, Received
<1>4. ~Working
  BY <1>3 DEF UpInv, JobOK, AtRest
<1>5. Unfinished /\ ~Received => Intact
  <2> SUFFICES ASSUME Unfinished, ~Received PROVE Xfer(pos) \notin hit
    BY <1>1 DEF Intact
  <2>1. pkt # 0 /\ cur = Xfer(pkt) /\ cur \in Nat /\ cur \in Xfers /\ cur # Xfer(pos)
    BY PacketFacts DEF UpInv, FileInv, PlaceOK, SoFar, Received
  <2>2. cur <= Xfer(pos) /\ Xfer(pos) \in Nat
    BY <1>1, <2>1, PacketFacts DEF UpInv, ChannelInv, FlightOK
  <2>3. cur <= Xfer(pos) - 1 /\ Xfer(pos) - 1 < Xfer(pos) /\ Xfer(pos) - 1 \in Xfers
    BY <1>2, <2>1, <2>2, StreamFacts
  <2>4. Xfer(pos) - 1 \in hit /\ (Xfer(pos) - 1) + 1 = Xfer(pos)
    BY <2>2, <2>3 DEF UpInv, FileInv, LeftOver
  <2> QED BY <2>4 DEF Sparse
<1>6. Waiting /\ pack_saved = 0 /\ Intact => ~Received
  BY <1>3 DEF UpInv, FileInv, CountOK
<1> QED BY <1>1, <1>2, <1>4, <1>5, <1>6 DEF Start

(* So msgrcv returns the first message whichever way it is called.          *)
LEMMA TakesFirst ==
  ASSUME TypeOK, Sparse, UpInv, PollHit \/ BlockingRecv
  PROVE  up /\ Waiting /\ mq # << >> /\ Take(1)
<1>1. CASE BlockingRecv
  BY <1>1 DEF BlockingRecv, Waiting
<1>2. CASE PollHit
  <2>1. PICK i \in 1..Len(mq) : FirstOfType(i, pack_move) /\ Take(i)
    BY <1>2 DEF PollHit
  <2>2. /\ fpc = "poll" /\ Waiting /\ up /\ Len(mq) \in Nat \ {0} /\ mq # << >> /\ 1 \in 1..Len(mq)
    BY <1>2, <2>1, ChannelFacts, EmptyFacts DEF PollHit, Waiting
  <2>3. /\ Flight[1] = mq[1] /\ Flight[i] = mq[i] /\ Len(Flight) # 0
        /\ i \in 1..Len(Flight) /\ 1 \in 1..Len(Flight)
        /\ Nu(Flight[1]) \in Nat \ {0} /\ Nu(Flight[i]) \in Nat \ {0}
        /\ (i # 1 => Nu(Flight[1]) < Nu(Flight[i]))
    <3>1. /\ Flight[1] = mq[1] /\ Flight[i] = mq[i] /\ Len(Flight) # 0
          /\ i \in 1..Len(Flight) /\ 1 \in 1..Len(Flight)
      BY <2>2, FlightFacts
    <3>2. Nu(Flight[1]) \in Nat \ {0} /\ Nu(Flight[i]) \in Nat \ {0}
      BY <3>1, FlightFacts
    <3>3. i # 1 => 1 < i
      BY <2>2
    <3> QED BY <3>1, <3>2, <3>3 DEF UpInv, ChannelInv, FlightOK
  <2>4. Nu(Flight[i]) = pack_move
    BY <2>1, <2>3 DEF FirstOfType
  <2>5. i = 1
    <3>1. CASE pack_saved = 0
      BY <2>2, <2>3, <2>4, <3>1 DEF UpInv, FileInv, PlaceOK
    <3>2. CASE pack_saved # 0
      <4>1. pkt # 0 /\ pack_move = Nu(pkt) + 1 /\ Received
        BY <2>2, <2>3, <3>2, FirstOfFlight
        DEF UpInv, FileInv, PlaceOK, Unfinished, SoFar
      <4>2. Nu(pkt) < Nu(Flight[1]) /\ Nu(pkt) \in Nat
        BY <2>3, <4>1, PacketFacts DEF UpInv, ChannelInv, FlightOK, Start
      <4> QED BY <2>3, <2>4, <4>1, <4>2
    <3> QED BY <3>1, <3>2
  <2> QED BY <2>1, <2>2, <2>5
<1> QED BY <1>1, <1>2

LEMMA TakePaced ==
  ASSUME TypeOK, TypeOK', Sparse, UpInv, PollHit \/ BlockingRecv, UNCHANGED senderVars
  PROVE  UpInv'
<1> DEFINE p == Flight[1]
<1>1. Waiting /\ mq # << >> /\ Take(1)
  BY TakesFirst
<1>2. FlightLoses(1) /\ Len(Flight) # 0 /\ Len(Flight) \in Nat /\ mq[1] = p
  BY <1>1, TakeFlight, FlightFacts DEF Take, mainVars
<1>3. /\ Sending /\ ~Working
      /\ Unfinished /\ ~Received => Nu(p) = 1
      /\ Waiting /\ pack_saved = 0 /\ Intact => Nu(p) = 1
  BY <1>2, FirstOfFlight
<1>4. /\ p \in Packets /\ Nu(p) \in Nat \ {0} /\ Xfer(p) \in Nat
      /\ Xfer(p) = Xfer(pos) /\ Start < Nu(p) /\ Nu(p) <= Nu(pos) /\ Start \in Nat
      /\ (Intact => Nu(p) = Start + 1)
  BY SMTT(30), <1>2, FlightFacts, PacketFacts DEF UpInv, ChannelInv, FlightOK, Gapless
<1> HIDE DEF p
<1>5. /\ pkt' = p /\ pkt' # 0 /\ pack_move' = Nu(p) + 1
      /\ UNCHANGED <<mode, pos, hit, jobs, wpc, wpath, dir1, dir2>>
  BY <1>1, <1>2, <1>4, StreamFacts DEF Take, poolVars, senderVars
<1>6. Sending' /\ Received' /\ Start' = Nu(p)
  BY <1>3, <1>4, <1>5 DEF Sending, Received, Start
<1>7. FlightOK'
  <2>1. \A i \in 1..Len(Flight') : /\ i \in Nat \ {0} /\ i + 1 \in 1..Len(Flight)
                                   /\ Flight'[i] = Flight[i + 1] /\ 1 < i + 1
    BY <1>2 DEF FlightLoses
  <2>2. 1 \in 1..Len(Flight)
    BY <1>2
  <2>3. ASSUME NEW i \in 1..Len(Flight')
        PROVE  Xfer(Flight'[i]) = Xfer(pos) /\ Nu(p) < Nu(Flight'[i]) /\ Nu(Flight'[i]) <= Nu(pos)
    BY <2>1, <2>2 DEF UpInv, ChannelInv, FlightOK, p
  <2>4. ASSUME NEW i \in 1..Len(Flight'), NEW j \in 1..Len(Flight'), i < j
        PROVE  Nu(Flight'[i]) < Nu(Flight'[j])
    <3>1. i + 1 < j + 1
      BY <2>1, <2>4
    <3> QED BY <2>1, <3>1 DEF UpInv, ChannelInv, FlightOK
  <2> QED BY <1>4, <1>5, <1>6, <2>3, <2>4 DEF FlightOK
<1>8. Gapless'
  <2> SUFFICES ASSUME Intact
               PROVE  /\ Nu(pos) = Nu(p) + Len(Flight')
                      /\ \A i \in 1..Len(Flight') : Nu(Flight'[i]) = Nu(p) + i
    BY <1>5, <1>6 DEF Gapless, Intact, Sending
  <2>1. Nu(pos) = Nu(p) + Len(Flight')
    BY <1>2, <1>4 DEF UpInv, ChannelInv, Gapless, FlightLoses
  <2>2. ASSUME NEW i \in 1..Len(Flight') PROVE Nu(Flight'[i]) = Nu(p) + i
    <3>1. i + 1 \in 1..Len(Flight) /\ Flight'[i] = Flight[i + 1]
      BY <1>2 DEF FlightLoses
    <3>2. Nu(Flight[i + 1]) = Start + (i + 1)
      BY <3>1 DEF UpInv, ChannelInv, Gapless
    <3> QED BY <1>2, <1>4, <3>1, <3>2
  <2> QED BY <2>1, <2>2
<1>9. JobOK'
  BY <1>3, <1>5 DEF UpInv, JobOK, Working, Busy
<1>10. CASE IsHeader(p)
  <2>1. /\ fpc' = "path" /\ pack_saved' = 0 /\ text' = << >> /\ cur' = Xfer(p)
    BY <1>1, <1>2, <1>10 DEF Take
  <2>2. IsPart(text', cur', pack_saved')
    BY <2>1, EmptySeq DEF IsPart
  <2>3. PlaceOK'
    BY <1>4, <1>5, <1>6, <2>1, <2>2 DEF PlaceOK, SoFar, Waiting, InHand, Unfinished
  <2>4. LeftOver'
    BY <2>1 DEF LeftOver, Unfinished, Waiting
  <2>5. CountOK'
    <3>1. Intact' => Intact
      BY <1>3, <1>5 DEF Intact
    <3>2. Intact => Nu(p) = 1
      BY <1>1, <1>3, <1>10 DEF IsHeader
    <3> QED BY <1>5, <2>1, <3>1, <3>2 DEF CountOK, Unfinished, Waiting
  <2>6. StoreOK'
    BY <1>5, <2>1 DEF UpInv, StoreOK, Bounded, Unfinished, Waiting
  <2> QED BY <1>7, <1>8, <1>9, <2>3, <2>4, <2>5, <2>6 DEF UpInv, ChannelInv, FileInv
<1>11. CASE ~IsHeader(p)
  <2>1. fpc' = "write" /\ UNCHANGED <<pack_saved, fp, text, cur, save_path>>
    BY <1>1, <1>2, <1>11 DEF Take
  <2>2. Unfinished /\ Received /\ pack_saved \in Nat
    BY <1>1, <1>3, <1>11, PacketFacts DEF IsHeader, Unfinished
  <2>3. SoFar(pack_saved) /\ Nu(pkt) \in Nat /\ Nu(pkt) < Nu(p) /\ cur = Xfer(p)
    BY <1>4, <2>2, PacketFacts DEF UpInv, FileInv, PlaceOK, SoFar, Start, Received
  <2>4. SoFar(pack_saved + 1)'
    <3>1. IsPart(text', cur', pack_saved') <=> IsPart(text, cur, pack_saved)
      BY <2>1
    <3> QED BY <1>4, <1>5, <2>1, <2>2, <2>3, <3>1 DEF SoFar
  <2>5. PlaceOK'
    BY <1>6, <2>1, <2>4 DEF PlaceOK, Waiting, InHand, Unfinished
  <2>6. LeftOver'
    BY <2>1 DEF LeftOver, Unfinished, Waiting
  <2>7. CountOK'
    <3>1. Intact' => Intact
      BY <1>3, <1>5 DEF Intact
    <3>2. Intact => Nu(p) = pack_saved + 1
      BY <1>4, <2>2 DEF UpInv, FileInv, CountOK, Start
    <3> QED BY <1>5, <2>1, <3>1, <3>2 DEF CountOK, Unfinished, Waiting
  <2>8. StoreOK'
    BY <1>5, <2>1, <2>2 DEF UpInv, StoreOK, Bounded, Unfinished, Waiting
  <2> QED BY <1>7, <1>8, <1>9, <2>5, <2>6, <2>7, <2>8 DEF UpInv, ChannelInv, FileInv
<1> QED BY <1>10, <1>11

(* File_Process's own steps leave the channel alone.                        *)
LEMMA ChannelKeeps ==
  ASSUME ChannelInv, UNCHANGED <<net, hand, mq, pkt, pos, hit>>
  PROVE  ChannelInv' /\ Sending' = Sending /\ Received' = Received /\ Intact' = Intact
<1>1. Flight' = Flight
  BY DEF Flight
<1> QED BY <1>1, FlightKeeps DEF Sending, Received, Intact

LEMMA PollMissPaced ==
  ASSUME UpInv, PollMiss, UNCHANGED senderVars
  PROVE  UpInv'
<1>1. /\ fpc = "poll" /\ fpc' = "block"
      /\ UNCHANGED <<net, hand, mq, pkt, pos, hit, mode, pack_move, pack_saved, cur, save_path,
                     text, fp, dir1, dir2, jobs, wpc, wpath, finished, faults>>
  BY DEF PollMiss, mainVars, diskVars, poolVars, senderVars
<1>2. ChannelInv' /\ Sending' = Sending /\ Received' = Received /\ Intact' = Intact
  BY <1>1, ChannelKeeps DEF UpInv
<1>3. PlaceOK'
  BY <1>1, <1>2 DEF UpInv, FileInv, PlaceOK, SoFar, IsPart, Waiting, InHand, Unfinished
<1>4. LeftOver'
  BY <1>1, <1>2 DEF UpInv, FileInv, LeftOver, Waiting, Unfinished
<1>5. CountOK'
  BY <1>1, <1>2 DEF UpInv, FileInv, CountOK, Waiting, InHand, Unfinished
<1>6. StoreOK'
  BY <1>1 DEF UpInv, StoreOK, Bounded, Waiting, Unfinished
<1>7. JobOK'
  <2>1. AtRest' = AtRest /\ LastDone' = LastDone
    BY <1>1, <1>2 DEF AtRest, Waiting, LastDone
  <2> QED BY <1>1, <2>1
      DEF UpInv, JobOK, Working, Busy, HoldsWhole, Holds, Covered, Destination, MayBeCopied
<1> QED BY <1>2, <1>3, <1>4, <1>5, <1>6, <1>7 DEF UpInv, FileInv

LEMMA OpenPaced ==
  ASSUME TypeOK, UpInv, SetPath \/ OpenFile, UNCHANGED senderVars
  PROVE  UpInv'
<1>1. /\ fpc \in {"path", "open"} /\ fpc' \in {"open", "write"} /\ (fpc = "open" => fpc' = "write")
      /\ UNCHANGED <<net, hand, mq, pkt, pos, hit, mode, pack_move, pack_saved, cur,
                     text, dir2, jobs, wpc, wpath>>
      /\ save_path' = Name[cur'] /\ (fpc' = "write" => fp' = "dir1")
  BY DEF SetPath, OpenFile, mainVars, diskVars, poolVars, senderVars, TypeOK, LoopOK
<1>2. ChannelInv' /\ Sending' = Sending /\ Received' = Received /\ Intact' = Intact
  BY <1>1, ChannelKeeps DEF UpInv
<1>3. PlaceOK'
  BY <1>1, <1>2 DEF UpInv, FileInv, PlaceOK, SoFar, IsPart, Waiting, InHand, Unfinished
<1>4. LeftOver'
  BY <1>1 DEF LeftOver, Waiting, Unfinished
<1>5. CountOK'
  BY <1>1, <1>2 DEF UpInv, FileInv, CountOK, Waiting, InHand, Unfinished
<1>6. StoreOK'
  BY <1>1 DEF UpInv, StoreOK, Bounded, Waiting, Unfinished
<1>7. JobOK'
  <2>1. ~Working
    BY <1>1 DEF UpInv, JobOK, AtRest, Waiting
  <2> QED BY <1>1, <2>1 DEF UpInv, JobOK, Working, Busy
<1> QED BY <1>2, <1>3, <1>4, <1>5, <1>6, <1>7 DEF UpInv, FileInv

(* What is written when a packet comes: one more of the file, or a packet   *)
(* beyond a gap.                                                            *)
LEMMA WritePaced ==
  ASSUME TypeOK, UpInv, WriteChunk, UNCHANGED senderVars
  PROVE  /\ ChannelInv' /\ Sending' = Sending /\ Received' = Received /\ Intact' = Intact
         /\ Sending /\ Received /\ ~Working
         /\ cur' = cur /\ pkt' = pkt /\ cur = Xfer(pkt) /\ pkt # 0 /\ pack_move = Nu(pkt) + 1
         /\ \/ Nu(pkt) = pack_saved + 1 /\ IsPart(Written, cur, pack_saved + 1)
            \/ Nu(pkt) > pack_saved + 1
         /\ Name[cur] \in DOMAIN dir1' /\ dir1'[Name[cur]] = Written
         /\ UNCHANGED <<mode, pos, hit, save_path, dir2, jobs, wpc, wpath>>
         /\ fp = "dir1" /\ save_path = Name[cur]
<1>1. /\ fpc = "write"
      /\ UNCHANGED <<net, hand, mq, pkt, pos, hit, mode, cur, save_path, jobs, wpc, wpath>>
  BY DEF WriteChunk, mainVars, poolVars, senderVars
<1>2. ChannelInv' /\ Sending' = Sending /\ Received' = Received /\ Intact' = Intact
  BY <1>1, ChannelKeeps DEF UpInv
<1>3. /\ fp = "dir1" /\ save_path = Name[cur] /\ ~Working
      /\ SoFar(pack_saved + 1) /\ Sending /\ Received
  BY <1>1
  DEF UpInv, StoreOK, JobOK, AtRest, FileInv, PlaceOK, Waiting, InHand, ChannelInv, FlightOK, SoFar
<1>4. Name[cur] \in DOMAIN dir1' /\ dir1'[Name[cur]] = Written /\ dir2' = dir2
  BY <1>3 DEF WriteChunk, Store
<1>5. ASSUME Nu(pkt) = pack_saved + 1, IsPart(text, cur, pack_saved), cur = Xfer(pkt)
      PROVE  IsPart(Written, cur, pack_saved + 1)
  <2>1. /\ text \in Seq(Packets) /\ pack_saved \in Nat /\ pkt \in Packets
    BY <1>3, PacketFacts DEF SoFar
  <2>2. /\ Len(text) = pack_saved
        /\ \A j \in 1..pack_saved : Xfer(text[j]) = cur /\ Nu(text[j]) = j
    BY <1>5 DEF IsPart
  <2>3. /\ Len(Written) = pack_saved + 1 /\ Written[pack_saved + 1] = pkt
        /\ \A j \in 1..pack_saved : Written[j] = text[j]
    BY <2>1, <2>2, AppendProperties DEF Written
  <2>4. \A j \in 1..(pack_saved + 1) : j \in 1..pack_saved \/ j = pack_saved + 1
    BY <2>1
  <2> QED BY <1>5, <2>2, <2>3, <2>4 DEF IsPart
<1> QED BY <1>1, <1>2, <1>3, <1>4, <1>5 DEF SoFar

LEMMA CompletePaced ==
  ASSUME TypeOK, UpInv, FinishedWhole, CompleteFile, UNCHANGED senderVars
  PROVE  UpInv' /\ FinishedWhole'
<1> DEFINE f == [xfer |-> cur, text |-> Written]
<1>1. WriteChunk /\ fpc' = "post" /\ Packs[cur] = pack_saved + 1 /\ finished' = Append(finished, f)
  BY DEF CompleteFile, CompleteAt
<1>2. /\ ChannelInv' /\ Sending' = Sending /\ Received' = Received
      /\ Sending /\ Received /\ ~Working /\ cur' = cur /\ pkt' = pkt /\ cur = Xfer(pkt) /\ pkt # 0
      /\ \/ Nu(pkt) = pack_saved + 1 /\ IsPart(Written, cur, pack_saved + 1)
         \/ Nu(pkt) > pack_saved + 1
      /\ Name[cur] \in DOMAIN dir1' /\ dir1'[Name[cur]] = Written
      /\ UNCHANGED <<mode, save_path, dir2, jobs, wpc, wpath>> /\ save_path = Name[cur]
  BY <1>1, WritePaced
<1>3. Nu(pkt) = Packs[cur] /\ IsWhole(Written, cur)
  <2>1. ~(Nu(pkt) > Packs[cur])
    BY <1>2, PacketFacts
  <2> QED BY <1>1, <1>2, <2>1 DEF IsWhole, IsPart
<1>4. PlaceOK' /\ LeftOver' /\ CountOK'
  BY <1>1, <1>2, <1>3 DEF PlaceOK, LeftOver, CountOK, Waiting, InHand, Unfinished
<1>5. JobOK'
  BY <1>2 DEF UpInv, JobOK, Working, Busy
<1>6. FinishedWhole' /\ LastDone'
  <2>1. finished \in Seq(File) /\ f \in File
    <3>1. Written \in Seq(Packets) /\ cur \in Xfers
      BY <1>1, <1>2, PacketFacts, AppendProperties DEF Written
    <3> QED BY <3>1 DEF File, TypeOK, VarTypes
  <2>2. IsWhole(f.text, f.xfer)
    BY <1>3
  <2> HIDE DEF f
  <2>3. /\ Len(finished) \in Nat /\ Len(finished') = Len(finished) + 1
        /\ finished'[Len(finished) + 1] = f
        /\ \A i \in 1..Len(finished) : finished'[i] = finished[i]
    BY <1>1, <2>1, AppendFacts
  <2>4. \A i \in 1..Len(finished') : i \in 1..Len(finished) \/ i = Len(finished) + 1
    BY <2>3
  <2>5. FinishedWhole'
    BY <2>2, <2>3, <2>4 DEF FinishedWhole
  <2>6. f.xfer = cur'
    BY <1>2 DEF f
  <2> QED BY <2>3, <2>5, <2>6 DEF LastDone
<1>7. StoreOK'
  BY <1>1, <1>2, <1>3, <1>6
  DEF UpInv, StoreOK, HoldsWhole, Holds, Bounded, Waiting, Unfinished
<1> QED BY <1>2, <1>4, <1>7, <1>5, <1>6 DEF UpInv, FileInv

LEMMA AbandonPaced ==
  ASSUME TypeOK, UpInv, AbandonFile, UNCHANGED senderVars
  PROVE  UpInv'
<1>1. /\ WriteChunk /\ fpc' = "poll" /\ pack_saved' = 0 /\ pack_move' = 1
      /\ Packs[cur] = pack_move - 1
  BY DEF AbandonFile, Again
<1>2. /\ ChannelInv' /\ Sending' = Sending /\ Received' = Received
      /\ Sending /\ Received /\ ~Working /\ cur' = cur /\ pkt' = pkt /\ cur = Xfer(pkt) /\ pkt # 0
      /\ pack_move = Nu(pkt) + 1
      /\ UNCHANGED <<mode, save_path, dir2, jobs, wpc, wpath>>
  BY <1>1, WritePaced
<1>3. Nu(pkt) = Packs[cur]
  BY <1>1, <1>2, PacketFacts
<1>4. PlaceOK' /\ LeftOver' /\ CountOK'
  BY <1>1, <1>2, <1>3 DEF PlaceOK, LeftOver, CountOK, Waiting, InHand, Unfinished
<1>5. StoreOK'
  BY <1>1, <1>2 DEF UpInv, StoreOK, Bounded, Waiting, Unfinished
<1>6. JobOK'
  BY <1>2 DEF UpInv, JobOK, Working, Busy
<1> QED BY <1>2, <1>4, <1>5, <1>6 DEF UpInv, FileInv

LEMMA ContinuePaced ==
  ASSUME TypeOK, UpInv, ContinueFile, UNCHANGED senderVars
  PROVE  UpInv'
<1>1. /\ WriteChunk /\ fpc = "write" /\ fpc' = "poll" /\ pack_saved' = pack_saved + 1
      /\ text' = Written /\ Packs[cur] # pack_saved + 1 /\ Packs[cur] # pack_move - 1
      /\ UNCHANGED <<pack_move, fp>>
  BY DEF ContinueFile, CompleteAt, WriteChunk
<1>2. /\ ChannelInv' /\ Sending' = Sending /\ Received' = Received /\ Intact' = Intact
      /\ Sending /\ Received /\ ~Working /\ cur' = cur /\ pkt' = pkt /\ cur = Xfer(pkt) /\ pkt # 0
      /\ pack_move = Nu(pkt) + 1
      /\ \/ Nu(pkt) = pack_saved + 1 /\ IsPart(Written, cur, pack_saved + 1)
         \/ Nu(pkt) > pack_saved + 1
      /\ UNCHANGED <<mode, pos, hit, save_path, dir2, jobs, wpc, wpath>>
      /\ fp = "dir1" /\ save_path = Name[cur]
  BY <1>1, WritePaced
<1>3. pack_saved \in Nat /\ pack_saved' # 0 /\ pack_saved' < Packs[cur]
  <2>1. pack_saved \in Nat /\ Nu(pkt) \in Nat /\ Nu(pkt) <= Packs[cur] /\ Packs[cur] \in Nat
    BY <1>2, PacketFacts DEF TypeOK, VarTypes
  <2> QED BY <1>1, <1>2, <2>1
<1>4. SoFar(pack_saved)'
  BY <1>1, <1>2 DEF SoFar, IsPart
<1>5. PlaceOK'
  BY <1>1, <1>2, <1>3, <1>4 DEF PlaceOK, Waiting, InHand, Unfinished
<1>6. LeftOver'
  BY <1>2, PacketFacts, StreamFacts DEF LeftOver, Received
<1>7. CountOK'
  <2>1. Intact => Nu(pkt) = pack_saved + 1
    BY <1>1, <1>2 DEF UpInv, FileInv, CountOK, InHand
  <2> QED BY <1>1, <1>2, <1>3, <2>1 DEF CountOK, Waiting, InHand, Unfinished
<1>8. StoreOK'
  BY <1>1, <1>2 DEF UpInv, StoreOK, Bounded, Waiting, Unfinished
<1>9. JobOK'
  BY <1>2 DEF UpInv, JobOK, Working, Busy
<1> QED BY <1>2, <1>5, <1>6, <1>7, <1>8, <1>9 DEF UpInv, FileInv

LEMMA PostPaced ==
  ASSUME TypeOK, UpInv, PostJob, UNCHANGED senderVars
  PROVE  UpInv'
<1>1. /\ fpc = "post" /\ fpc' = "poll" /\ pack_saved' = 0 /\ pack_move' = 1 /\ jobs' = jobs + 1
      /\ UNCHANGED <<net, hand, mq, pkt, pos, hit, mode, cur, save_path, text, dir1, dir2,
                     wpc, wpath, finished>>
  BY DEF PostJob, Again, mainVars, senderVars
<1>2. ChannelInv' /\ Sending' = Sending /\ Received' = Received
  BY <1>1, ChannelKeeps DEF UpInv
<1>3. /\ pkt # 0 /\ cur = Xfer(pkt) /\ Nu(pkt) = Packs[cur] /\ save_path = Name[cur]
      /\ HoldsWhole(dir1) /\ LastDone /\ ~Working /\ Sending /\ Received
  BY <1>1 DEF UpInv, FileInv, PlaceOK, StoreOK, JobOK, AtRest, Waiting, ChannelInv, FlightOK
<1>4. PlaceOK' /\ LeftOver' /\ CountOK'
  BY <1>1, <1>2, <1>3 DEF PlaceOK, LeftOver, CountOK, Waiting, InHand, Unfinished
<1>5. StoreOK'
  BY <1>1 DEF UpInv, StoreOK, Bounded, Waiting, Unfinished
<1>6. JobOK'
  <2>1. AtRest'
    BY <1>1, <1>2, <1>3 DEF AtRest, Waiting
  <2>2. jobs' = 1 /\ \A w \in Workers : ~Busy(w)
    BY <1>1, <1>3 DEF Working
  <2>3. HoldsWhole(dir1)' /\ LastDone'
    BY <1>1, <1>3 DEF HoldsWhole, Holds, LastDone
  <2> QED BY <1>1, <2>1, <2>2, <2>3 DEF JobOK, Busy
<1> QED BY <1>2, <1>4, <1>5, <1>6 DEF UpInv, FileInv

(* Copying the first k packets of the current file over what is there.      *)
LEMMA CopyCovers ==
  ASSUME TypeOK, Bounded(dir2), NEW w \in Workers, NEW k \in 0..Len(dir1[wpath[w]]),
         NEW place, Copies(w, k, place), wpath[w] = Name[cur], HoldsWhole(dir1), cur \in Xfers
  PROVE  Bounded(dir2') /\ (k = Len(dir1[wpath[w]]) => Covered')
<1> DEFINE n == Name[cur]
           t == SubSeq(dir1[n], 1, k)
           old == OldText(dir2, n)
           new == Overlay(t, old)
<1>1. /\ dir2' = Store(dir2, n, new) /\ cur' = cur
      /\ dir1[n] \in Seq(Packets) /\ IsWhole(dir1[n], cur) /\ k \in 0..Len(dir1[n])
  BY DEF Copies, fileVars, HoldsWhole, Holds, TypeOK, VarTypes, IsDirectory
<1>2. Len(dir1[n]) = Packs[cur] /\ Packs[cur] \in Nat /\ k \in Nat /\ k <= Packs[cur]
  BY <1>1, StreamFacts DEF IsWhole
<1>3. t \in Seq(Packets) /\ Len(t) = k /\ \A j \in 1..k : t[j] = dir1[n][j]
  BY <1>1, BeginningFacts
<1>4. old \in Seq(Packets) /\ Len(old) \in Nat /\ \E y \in Xfers : Name[y] = n /\ Len(old) <= Packs[y]
  <2>1. CASE n \in DOMAIN dir2
    <3>1. old = dir2[n] /\ dir2[n] \in Seq(Packets)
      BY <2>1 DEF OldText, TypeOK, VarTypes, IsDirectory
    <3>2. \E y \in Xfers : Name[y] = n /\ Len(dir2[n]) <= Packs[y]
      BY <2>1 DEF Bounded
    <3> QED BY <3>1, <3>2, LenProperties
  <2>2. CASE n \notin DOMAIN dir2
    <3>1. old = << >>
      BY <2>2 DEF OldText
    <3>2. Len(<< >>) = 0 /\ << >> \in Seq(Packets)
      BY EmptySeq
    <3> QED BY <1>2, <3>1, <3>2
  <2> QED BY <2>1, <2>2
<1> HIDE DEF t, old
<1>5. /\ Len(new) = IF Len(old) <= k THEN k ELSE Len(old)
      /\ \A j \in 1..k : new[j] = dir1[n][j]
  BY <1>3, <1>4, OverlayFacts
<1> HIDE DEF new
<1>6. /\ DOMAIN dir2' = DOMAIN dir2 \cup {n} /\ dir2'[n] = new
      /\ \A m \in DOMAIN dir2 : m # n => dir2'[m] = dir2[m]
  BY <1>1 DEF Store
<1> HIDE DEF n
<1>7. \E y \in Xfers : Name[y] = n /\ Len(new) <= Packs[y]
  <2>1. CASE Len(old) <= k
    BY <1>2, <1>5, <2>1 DEF n
  <2>2. CASE ~(Len(old) <= k)
    BY <1>4, <1>5, <2>2
  <2> QED BY <2>1, <2>2
<1>8. Bounded(dir2')
  BY <1>6, <1>7 DEF Bounded
<1>9. ASSUME k = Len(dir1[n]) PROVE Begins(new, cur)
  <2>1. Packs[cur] <= Len(new)
    BY <1>2, <1>4, <1>5, <1>9
  <2>2. \A j \in 1..Packs[cur] : new[j] = dir1[n][j]
    BY <1>2, <1>5, <1>9
  <2> QED BY <1>1, <1>2, <2>1, <2>2 DEF Begins, IsWhole
<1> QED BY <1>1, <1>6, <1>8, <1>9 DEF Covered, n

(* A whole file begins with itself.                                         *)
LEMMA WholeBegins ==
  ASSUME NEW t, NEW x \in Xfers, IsWhole(t, x)
  PROVE  Begins(t, x)
BY StreamFacts DEF IsWhole, Begins

LEMMA WorkerPaced ==
  ASSUME TypeOK, UpInv, NEW w \in Workers, UNCHANGED <<pos, hit>>, MayBeCopied => MayBeCopied',
         RecvFinish(w) \/ (MoveBreaks(w) /\ (mode = "rename" => MayBeCopied'))
  PROVE  UpInv'
<1> USE DEF mainVars, diskVars, poolVars
<1> DEFINE Steps == \/ TakeJob(w) \/ ReadPath(w) \/ RenameFile(w) \/ RenameDirectory(w)
                    \/ CopyFile(w) \/ UnlinkSource(w) \/ MoveFails(w) \/ Notify(w)
                    \/ (RenameBreaks(w) /\ MayBeCopied')
                    \/ OpenBreaks(w) \/ CopyBreaks(w) \/ UnlinkBreaks(w)
           Idle == \A v \in Workers : v # w => wpc'[v] = "idle"
<1>1. Steps
  BY DEF RecvFinish, MoveBreaks, RenameBreaks
<1>2. /\ UNCHANGED <<mainVars, mq, fileVars, mode, pos, hit>>
      /\ ChannelInv' /\ FileInv' /\ Sending' = Sending /\ Received' = Received
  <2>1. UNCHANGED <<mainVars, mq, fileVars, mode, pos, hit>>
    BY <1>1 DEF TakeJob, ReadPath, RenameFile, RenameDirectory, CopyFile, UnlinkSource, MoveFails,
           Notify, RenameBreaks, OpenBreaks, MoveReturns, CopyBreaks, Copies, UnlinkBreaks
  <2>2. SameTransfer /\ UNCHANGED <<net, hand, mq, pkt>>
    BY <2>1 DEF SameTransfer, Sending, fileVars
  <2> QED BY <2>1, <2>2, ChannelKeeps, FileKeeps DEF UpInv
<1>3. Working /\ AtRest /\ LastDone
  <2>1. wpc[w] \in {"idle", "start", "move", "unlink", "notify", "failed"} /\ jobs \in Nat
    BY SudpAssumption DEF TypeOK, VarTypes
  <2>2. Working
    BY <1>1, <2>1
    DEF TakeJob, ReadPath, RenameFile, RenameDirectory, CopyFile, UnlinkSource, MoveFails,
        Notify, RenameBreaks, OpenBreaks, MoveReturns, CopyBreaks, Copies, UnlinkBreaks,
        Working, Busy
  <2> QED BY <2>2 DEF UpInv, JobOK
<1>4. /\ cur \in Xfers /\ Name[cur] \in Names /\ Name[cur] # DirOnly /\ save_path = Name[cur]
      /\ jobs \in 0..1 /\ mode \in {"stay", "rename", "copy"}
      /\ wpc \in [Workers -> {"idle", "start", "move", "unlink", "notify", "failed"}]
      /\ wpath \in [Workers -> Paths]
  <2>1. cur \in Xfers /\ save_path = Name[cur]
    BY <1>3, PacketFacts DEF AtRest, Received
  <2>2. jobs \in 0..1
    BY SudpAssumption DEF UpInv, JobOK, TypeOK, VarTypes
  <2> QED BY <2>1, <2>2, StreamFacts, SudpAssumption DEF TypeOK, VarTypes
<1>5. AtRest' /\ LastDone' /\ cur' = cur
  BY <1>2, <1>3 DEF AtRest, LastDone, Waiting, fileVars
<1>6. Bounded(dir2) /\ (Bounded(dir2') => StoreOK')
  BY <1>5 DEF UpInv, AtRest, StoreOK, Waiting, Unfinished
<1>7. /\ \A v \in Workers : Busy(w) /\ v # w => ~Busy(v)
      /\ Busy(w) => jobs = 0
      /\ jobs # 0 => HoldsWhole(dir1) /\ \A v \in Workers : ~Busy(v)
  BY DEF UpInv, JobOK
<1>8. /\ dir1' = dir1 => HoldsWhole(dir1)' = HoldsWhole(dir1)
      /\ dir2' = dir2 => Covered' = Covered /\ Bounded(dir2') = Bounded(dir2)
      /\ UNCHANGED <<dir1, dir2>> => HoldsWhole(Destination)' = HoldsWhole(Destination)
  BY <1>2, <1>5 DEF HoldsWhole, Holds, Covered, Bounded, Destination
(* The other threads are idle before and after; what is left to show is w's *)
(* own place.                                                               *)
<1> DEFINE Place ==
      /\ wpc'[w] \in {"start", "move", "failed"} => HoldsWhole(dir1)'
      /\ wpc'[w] \in {"move", "unlink", "notify", "failed"} => wpath'[w] = Name[cur]
      /\ wpc'[w] = "move" => mode # "stay"
      /\ wpc'[w] = "unlink" => MayBeCopied'
      /\ wpc'[w] \in {"unlink", "notify"} /\ mode # "stay" => Covered'
      /\ wpc'[w] = "notify" /\ ~MayBeCopied' => HoldsWhole(Destination)'
<1>9. ASSUME Place, jobs' = 0, Idle, Bounded(dir2') PROVE UpInv'
  <2>1. JobOK'
    BY <1>2, <1>5, <1>9 DEF JobOK, Busy
  <2> QED BY <1>2, <1>6, <1>9, <2>1 DEF UpInv
<1>10. CASE TakeJob(w)
  <2>1. /\ jobs' = 0 /\ wpc' = [wpc EXCEPT ![w] = "start"] /\ UNCHANGED <<dir1, dir2>>
        /\ HoldsWhole(dir1) /\ \A v \in Workers : ~Busy(v)
    BY <1>4, <1>7, <1>10 DEF TakeJob
  <2>2. Place /\ Idle
    BY <1>4, <1>8, <2>1 DEF Busy
  <2> QED BY <1>6, <1>8, <1>9, <2>1, <2>2
<1>11. CASE ~TakeJob(w)
  <2>1. /\ Busy(w) /\ jobs' = jobs /\ jobs = 0
        /\ \A v \in Workers : v # w => wpc'[v] = wpc[v]
    BY <1>1, <1>4, <1>7, <1>11
    DEF Busy, ReadPath, RenameFile, RenameDirectory, CopyFile, UnlinkSource, MoveFails, Notify,
        RenameBreaks, OpenBreaks, MoveReturns, CopyBreaks, Copies, UnlinkBreaks
  <2>2. jobs' = 0 /\ Idle
    BY <1>7, <2>1 DEF Busy
  <2>3. SUFFICES Place /\ Bounded(dir2')
    BY <1>9, <2>2
  <2>4. CASE ReadPath(w)
    <3>1. /\ wpc[w] = "start" /\ wpc'[w] = IF mode = "stay" THEN "notify" ELSE "move"
          /\ wpath'[w] = Name[cur] /\ UNCHANGED <<dir1, dir2>>
      BY <1>4, <2>4 DEF ReadPath
    <3>2. HoldsWhole(dir1)'
      BY <1>8, <3>1 DEF UpInv, JobOK
    <3>3. mode = "stay" => HoldsWhole(Destination)'
      BY <1>2, <3>2 DEF Destination, HoldsWhole
    <3> QED BY <1>6, <1>8, <3>1, <3>2, <3>3
  <2>5. CASE RenameFile(w)
    <3>1. /\ wpc[w] = "move" /\ mode = "rename" /\ wpc'[w] = "notify" /\ wpath' = wpath
          /\ dir2' = Store(dir2, wpath[w], dir1[wpath[w]])
      BY <1>4, <2>5 DEF RenameFile
    <3>2. wpath[w] = Name[cur] /\ HoldsWhole(dir1)
      BY <3>1 DEF UpInv, JobOK
    <3>3. HoldsWhole(dir2)'
      BY <1>5, <3>1, <3>2 DEF HoldsWhole, Holds, Store
    <3>4. HoldsWhole(Destination)'
      BY <1>2, <3>1, <3>3 DEF Destination, HoldsWhole
    <3>5. Covered'
      BY <1>4, <1>5, <3>3, WholeBegins DEF Covered, HoldsWhole, Holds
    <3>6. Len(dir1[Name[cur]]) <= Packs[cur]
      BY <1>4, <3>2, StreamFacts DEF HoldsWhole, Holds, IsWhole
    <3>7. Bounded(dir2')
      BY <1>4, <1>6, <3>1, <3>2, <3>6 DEF Bounded, Store
    <3> QED BY <3>1, <3>2, <3>4, <3>5, <3>7
  <2>6. CASE RenameDirectory(w)
    BY <1>4, <2>6 DEF RenameDirectory, UpInv, JobOK
  <2>7. CASE CopyFile(w) \/ (RenameBreaks(w) /\ MayBeCopied')
    <3>1. /\ Copies(w, Len(dir1[wpath[w]]), "unlink") /\ MayBeCopied'
          /\ wpath[w] \in DOMAIN dir1 /\ wpc[w] = "move" /\ wpc'[w] = "unlink" /\ wpath' = wpath
      BY <1>2, <1>4, <2>7 DEF CopyFile, RenameBreaks, Copies, MayBeCopied
    <3>2. wpath[w] = Name[cur] /\ HoldsWhole(dir1)
      BY <3>1 DEF UpInv, JobOK
    <3>3. Len(dir1[wpath[w]]) \in 0..Len(dir1[wpath[w]])
      BY <3>1, WholeLength
    <3>4. Bounded(dir2') /\ Covered'
      BY <1>4, <1>6, <3>1, <3>2, <3>3, CopyCovers
    <3> QED BY <3>1, <3>2, <3>4
  <2>8. CASE UnlinkSource(w) \/ UnlinkBreaks(w)
    <3>1. /\ wpc[w] = "unlink" /\ wpc'[w] = "notify" /\ wpath' = wpath /\ dir2' = dir2
      BY <1>4, <2>8 DEF UnlinkSource, UnlinkBreaks
    <3>2. wpath[w] = Name[cur] /\ MayBeCopied /\ Covered
      BY <3>1 DEF UpInv, JobOK, MayBeCopied
    <3> QED BY <1>6, <1>8, <3>1, <3>2
  <2>9. CASE MoveFails(w)
    BY <2>9 DEF MoveFails, MoveReturns, UpInv, JobOK, HoldsWhole, Holds
  <2>10. CASE OpenBreaks(w)
    <3>1. /\ wpc[w] = "move" /\ wpc'[w] = "failed" /\ wpath' = wpath /\ UNCHANGED <<dir1, dir2>>
      BY <1>4, <2>10 DEF OpenBreaks, MoveReturns
    <3>2. wpath[w] = Name[cur] /\ HoldsWhole(dir1)
      BY <3>1 DEF UpInv, JobOK
    <3> QED BY <1>6, <1>8, <3>1, <3>2
  <2>11. CASE CopyBreaks(w)
    <3>1. PICK k \in 0..Len(dir1[wpath[w]]) : Copies(w, k, "failed")
      BY <2>11 DEF CopyBreaks, GivesUp
    <3>2. /\ wpc[w] = "move" /\ wpc'[w] = "failed" /\ wpath' = wpath /\ dir1' = dir1
      BY <1>4, <3>1 DEF Copies
    <3>3. wpath[w] = Name[cur] /\ HoldsWhole(dir1)
      BY <3>2 DEF UpInv, JobOK
    <3>4. Bounded(dir2')
      BY <1>4, <1>6, <3>1, <3>3, CopyCovers
    <3> QED BY <1>8, <3>2, <3>3, <3>4
  <2>12. CASE Notify(w)
    <3>1. wpc'[w] = "idle" /\ dir2' = dir2
      BY <1>4, <2>12 DEF Notify
    <3> QED BY <1>6, <1>8, <3>1
  <2> QED BY <1>1, <1>11, <2>4, <2>5, <2>6, <2>7, <2>8, <2>9, <2>10, <2>11, <2>12
<1> QED BY <1>10, <1>11

LEMMA RecvFinishPaced ==
  ASSUME TypeOK, UpInv, NEW w \in Workers, RecvFinish(w), UNCHANGED senderVars
  PROVE  UpInv'
<1>1. UNCHANGED <<mode, pos, hit, faults>>
  BY DEF RecvFinish, TakeJob, ReadPath, RenameFile, RenameDirectory, CopyFile, Copies,
         UnlinkSource, MoveFails, MoveReturns, Notify, senderVars
<1>2. MayBeCopied => MayBeCopied'
  BY <1>1 DEF MayBeCopied
<1> QED BY <1>1, <1>2, WorkerPaced

LEMMA MoveFaultsPaced ==
  ASSUME TypeOK, UpInv, MoveFaults
  PROVE  UpInv'
<1> PICK w \in Workers : MoveBreaks(w)
  BY DEF MoveFaults
<1>1. UNCHANGED <<pos, hit, mode>> /\ faults' = faults + 1 /\ faults' # 0
  BY TransferAssumption
  DEF MoveFaults, Fault, MoveBreaks, RenameBreaks, OpenBreaks, MoveReturns, CopyBreaks, Copies,
      UnlinkBreaks, TypeOK, VarTypes
<1>2. (MayBeCopied => MayBeCopied') /\ (mode = "rename" => MayBeCopied')
  BY <1>1, CopiedStays DEF MayBeCopied
<1> QED BY <1>1, <1>2, WorkerPaced

LEMMA UpStep ==
  ASSUME Paced, TypeOK, TypeOK', Sparse, UpInv, up, FinishedWhole, [FaultyNext]_vars
  PROVE  FinishedWhole' /\ (up' => UpInv')
<1>1. CASE SendPack \/ SendFails \/ Lose
  <2>1. UNCHANGED finished
    BY <1>1 DEF SendPack, SendFails, Lose, sudpVars, fileVars
  <2> QED BY <1>1, <2>1, SendPaced, SendFailsPaced, LosePaced DEF FinishedWhole
<1>2. CASE DiskFails
  BY <1>2 DEF DiskFails, DiskError, fileVars, FinishedWhole
<1>3. CASE MoveFaults
  <2>1. UNCHANGED finished
    BY <1>3 DEF MoveFaults, MoveBreaks, RenameBreaks, OpenBreaks, MoveReturns, CopyBreaks, Copies,
           UnlinkBreaks, fileVars
  <2> QED BY <1>3, <2>1, MoveFaultsPaced DEF FinishedWhole
<1>4. CASE Done \/ UNCHANGED vars
  <2>1. UNCHANGED vars /\ UNCHANGED finished
    BY <1>4 DEF Done, vars, sudpVars, fileVars
  <2> QED BY <2>1, StutterPaced DEF FinishedWhole
<1>5. CASE SudpStep
  <2>1. UNCHANGED senderVars
    BY <1>5 DEF SudpStep
  <2>2. CASE CompleteFile
    BY <2>1, <2>2, CompletePaced
  <2>3. CASE ~CompleteFile
    <3>1. UNCHANGED finished
      BY <1>5, <2>3
      DEF SudpStep, MainThread, Recvfrom, Msgsnd, FileProcess, PollHit, PollMiss, BlockingRecv,
          Take, SetPath, OpenFile, AbandonFile, ContinueFile, PostJob, RecvFinish, TakeJob,
          ReadPath, RenameFile, RenameDirectory, CopyFile, Copies, UnlinkSource, MoveFails,
          MoveReturns, Notify, fileVars
    <3>2. UpInv'
      BY <1>5, <2>1, <2>3, MainPaced, TakePaced, PollMissPaced, OpenPaced, AbandonPaced,
         ContinuePaced, PostPaced, RecvFinishPaced
      DEF SudpStep, FileProcess
    <3> QED BY <3>1, <3>2 DEF FinishedWhole
  <2> QED BY <2>2, <2>3
<1> QED BY <1>1, <1>2, <1>4, <1>5, <1>3 DEF FaultyNext, ReliableNext

(* Once Sudp has ended nothing is completed any more.                       *)
LEMMA DownStep ==
  ASSUME ~up, FinishedWhole, [FaultyNext]_vars
  PROVE  FinishedWhole' /\ ~up'
<1>1. ~SudpStep
  BY DEF SudpStep, MainThread, Recvfrom, Msgsnd, FileProcess, PollHit, PollMiss, BlockingRecv,
         SetPath, OpenFile, CompleteFile, AbandonFile, ContinueFile, WriteChunk, PostJob,
         RecvFinish, TakeJob, ReadPath, RenameFile, RenameDirectory, CopyFile, Copies,
         UnlinkSource, MoveFails, MoveReturns, Notify
<1>2. ~MoveFaults
  BY DEF MoveFaults, MoveBreaks, RenameBreaks, OpenBreaks, MoveReturns, CopyBreaks, Copies,
         UnlinkBreaks
<1>3. UNCHANGED <<up, finished>>
  BY <1>1, <1>2 DEF FaultyNext, ReliableNext, SendPack, SendFails, Lose, DiskFails, DiskError, Done,
              vars, sudpVars, fileVars
<1> QED BY <1>3 DEF FinishedWhole

LEMMA InitPacedInv == Init => TypeOK /\ PacedInv
<1> SUFFICES ASSUME Init PROVE PacedInv
  BY InitTypeOK
<1>1. /\ mq = << >> /\ hand = << >> /\ net = << >> /\ fpc = "poll" /\ pkt = 0 /\ pos = 0
      /\ pack_move = 1 /\ pack_saved = 0 /\ jobs = 0 /\ (\A w \in Workers : wpc[w] = "idle")
      /\ hit = {} /\ faults = 0 /\ dir2 = << >> /\ finished = << >>
  BY DEF Init, SudpInit
<1>2. Len(Flight) = 0 /\ Len(<< >>) = 0
  BY <1>1, InitTypeOK, FlightFacts, EmptySeq
<1>3. ChannelInv
  BY <1>1, <1>2 DEF ChannelInv, FlightOK, Gapless, Intact, Sending
<1>4. FileInv
  BY <1>1
  DEF FileInv, PlaceOK, LeftOver, CountOK, Sending, Intact, Unfinished, InHand, Waiting
<1>5. StoreOK /\ JobOK
  BY <1>1 DEF StoreOK, JobOK, Bounded, Unfinished, Working, Busy
<1>6. FewHit /\ FinishedWhole
  BY <1>1, <1>2 DEF FewHit, FinishedWhole
<1> QED BY <1>3, <1>4, <1>5, <1>6 DEF PacedInv, UpInv

LEMMA PacedInvStep ==
  ASSUME Paced, TypeOK, PacedInv, [FaultyNext]_vars
  PROVE  TypeOK' /\ PacedInv'
<1>1. TypeOK'
  BY TypeOKStep
<1>2. FewHit'
  BY FewHitStep DEF PacedInv
<1>3. ASSUME Scarce' PROVE FinishedWhole' /\ (up' => UpInv')
  <2>1. Scarce /\ FinishedWhole /\ FewHit /\ (up => UpInv)
    BY <1>3, ScarceBefore DEF PacedInv
  <2>2. CASE up
    BY <1>1, <2>1, <2>2, ScarceIsSparse, UpStep
  <2>3. CASE ~up
    BY <2>1, <2>3, DownStep
  <2> QED BY <2>2, <2>3
<1> QED BY <1>1, <1>2, <1>3 DEF PacedInv

(* When an application queues a file only after Sudp has dealt with the     *)
(* last one, and no two files in a row are hit by a fault, Sudp completes   *)
(* only whole files, whatever the network, the sender and the disks do.     *)
THEOREM ScarceFaultsKeepFilesWhole ==
  ASSUME Paced PROVE FaultySafety => [](Scarce => FinishedWhole)
<1>1. TypeOK /\ PacedInv /\ [FaultyNext]_vars => (TypeOK /\ PacedInv)'
  BY PacedInvStep
<1>2. PacedInv => (Scarce => FinishedWhole)
  BY DEF PacedInv
<1> QED BY <1>1, <1>2, InitPacedInv, PTL DEF FaultySafety

(* One fault in all is few enough.                                          *)
LEMMA OneIsScarce == MaxFaults <= 1 /\ TypeOK => Scarce
BY TransferAssumption DEF TypeOK, VarTypes, Scarce

(* In particular with one fault, the bound of the run.                      *)
THEOREM PacedFilesAreWhole ==
  ASSUME Paced, MaxFaults <= 1 PROVE FaultySafety => []FinishedWhole
<1>1. TypeOK /\ PacedInv /\ [FaultyNext]_vars => (TypeOK /\ PacedInv)'
  BY PacedInvStep
<1>2. TypeOK /\ PacedInv => FinishedWhole
  BY OneIsScarce DEF PacedInv
<1> QED BY <1>1, <1>2, InitPacedInv, PTL DEF FaultySafety

(* The step that tells the application of a path is Notify.                 *)
LEMMA NotifyStep ==
  ASSUME TypeOK, PacedInv, Scarce, NEW w \in Workers, [FaultyNext]_vars,
         wpc[w] \in {"notify", "failed"}, wpc'[w] = "idle"
  PROVE  \E i \in 1..Len(finished) :
           Newest(i, wpath[w]) /\ IsWhereTold(w, finished[i].xfer)
<1>1. up
  BY DEF FaultyNext, ReliableNext, SendPack, SendFails, Lose, DiskFails, DiskError, SudpStep,
         Done, vars, sudpVars, poolVars, MainThread, Recvfrom, Msgsnd, FileProcess, PollHit,
         PollMiss, BlockingRecv, SetPath, OpenFile, CompleteFile, AbandonFile, ContinueFile,
         WriteChunk, PostJob, RecvFinish, TakeJob, ReadPath, RenameFile, RenameDirectory,
         CopyFile, Copies, UnlinkSource, MoveFails, MoveReturns, Notify, MoveFaults, MoveBreaks,
         RenameBreaks, OpenBreaks, CopyBreaks, UnlinkBreaks
<1>2. UpInv
  BY <1>1 DEF PacedInv
<1>3. wpath[w] = Name[cur] /\ Working
  BY <1>2 DEF UpInv, JobOK, Working, Busy
<1>4. cur \in Xfers /\ LastDone
  BY <1>2, <1>3, PacketFacts DEF UpInv, JobOK, AtRest, Received
<1> DEFINE i == Len(finished)
<1>5. i \in Nat /\ i \in 1..Len(finished) /\ finished[i].xfer = cur
  BY <1>4, LenProperties DEF LastDone, TypeOK, VarTypes
<1>6. Newest(i, wpath[w])
  BY <1>3, <1>5 DEF Newest
<1>7. IsWhereTold(w, cur)
  <2>1. CASE wpc[w] = "failed"
    BY <1>2, <1>3, <2>1 DEF UpInv, JobOK, HoldsWhole, IsWhereTold
  <2>2. CASE wpc[w] = "notify" /\ ~MayBeCopied
    BY <1>2, <1>3, <2>2 DEF UpInv, JobOK, HoldsWhole, IsWhereTold
  <2>3. CASE wpc[w] = "notify" /\ MayBeCopied
    <3>1. mode # "stay" /\ Destination = dir2
      BY <2>3 DEF MayBeCopied, Destination
    <3>2. Covered /\ Bounded(dir2)
      BY <1>2, <2>3, <3>1 DEF UpInv, JobOK, StoreOK
    <3>3. HoldsWithTail(dir2, Name[cur], cur)
      <4> DEFINE t == dir2[Name[cur]]
      <4>1. Name[cur] \in DOMAIN dir2 /\ t \in Seq(Packets) /\ Begins(t, cur)
        BY <3>2 DEF Covered, TypeOK, VarTypes, IsDirectory
      <4>2. Packs[cur] \in Nat /\ Packs[cur] <= Len(t) /\ Len(t) \in Nat
        BY <1>4, <4>1, StreamFacts, LenProperties DEF Begins
      <4>3. /\ Len(SubSeq(t, 1, Packs[cur])) = Packs[cur]
            /\ \A k \in 1..Packs[cur] : SubSeq(t, 1, Packs[cur])[k] = t[k]
        BY <4>1, <4>2, BeginningFacts
      <4>4. IsWhole(SubSeq(t, 1, Packs[cur]), cur)
        BY <4>1, <4>3 DEF Begins, IsWhole
      <4> QED BY <3>2, <4>1, <4>2, <4>4 DEF HoldsWithTail, Bounded
    <3> QED BY <1>3, <2>3, <3>1, <3>3 DEF IsWhereTold
  <2> QED BY <2>1, <2>2, <2>3
<1> HIDE DEF i
<1> QED BY <1>5, <1>6, <1>7

(* Under the same conditions, every path an application is told of leads to *)
(* the newest file completed under that name, whole, and no more than the   *)
(* tail of a longer file behind it if it was copied; or that file has       *)
(* stayed whole in dir1 because its move has failed (thread_process.c       *)
(* 61-94, file_helper.c 13-86).                                             *)
THEOREM PacedNotifiesWhole ==
  ASSUME Paced, MaxFaults <= 1 PROVE FaultySafety => NotifyOnlyWhole
<1>1. TypeOK /\ PacedInv /\ [FaultyNext]_vars => (TypeOK /\ PacedInv)'
  BY PacedInvStep
<1>2. TypeOK /\ PacedInv /\ [FaultyNext]_vars =>
        [\A w \in Workers :
           wpc[w] \in {"notify", "failed"} /\ wpc'[w] = "idle" =>
             \E i \in 1..Len(finished) :
               Newest(i, wpath[w]) /\ IsWhereTold(w, finished[i].xfer)]_vars
  BY OneIsScarce, NotifyStep
<1> QED BY <1>1, <1>2, InitPacedInv, PTL DEF FaultySafety, NotifyOnlyWhole

=============================================================================
