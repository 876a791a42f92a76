-------------------------- MODULE SendList_proofs ---------------------------
(***************************************************************************)
(* Proofs about SendList for any files, any nodes and any max_count.  The  *)
(* pointers are tied to the history variable nodes, the list in order of   *)
(* appending, so no chain of pointers has to be followed.                  *)
(***************************************************************************)
EXTENDS SendList, SequenceFacts

LEMMA FunctionIsSeq ==
  ASSUME NEW S, NEW n \in Nat, NEW q \in [1..n -> S]
  PROVE  q \in Seq(S)
BY SMTT(30) DEF Seq

(* What file_thread knows at each place.                                    *)
ThreadOK ==
  /\ pc = "next" => list_count # 0
  /\ pc = "got" <=> data # NULL

(* An allocated node has a file name.                                       *)
Named == \A n \in used : filename[n] \in Files

ListInv == TypeOK /\ WellLinked /\ BusyWithFiles /\ ThreadOK /\ Named

LEMMA InitListInv == Init => ListInv
<1> SUFFICES ASSUME Init PROVE ListInv
  OBVIOUS
<1>1. << >> \in Seq(Nodes) /\ Len(<< >>) = 0
  BY EmptySeq
<1>2. nodes = << >> /\ Len(nodes) = 0 /\ 1..Len(nodes) = {}
  BY <1>1 DEF Init
<1>3. TypeOK
  BY <1>1, <1>2, ListAssumption DEF Init, TypeOK
<1>4. WellLinked
  BY <1>2 DEF Init, WellLinked, InList
<1> QED BY <1>3, <1>4 DEF Init, ListInv, BusyWithFiles, ThreadOK, Named

(* append_file: the new node is linked in behind the one in points to.      *)
LEMMA AppendKeeps ==
  ASSUME ListInv, NEW f \in Files, NEW n \in Nodes, append_file(f, n)
  PROVE  ListInv'
<1>1. TypeOK /\ WellLinked /\ BusyWithFiles /\ ThreadOK /\ Named
  BY DEF ListInv
<1>2. /\ ~(list_count >= MaxCount) /\ n \notin used
      /\ used' = used \cup {n} /\ filename' = [filename EXCEPT ![n] = f]
      /\ in' = n /\ list_count' = list_count + 1
      /\ stat' = "S_BUSY"
      /\ nodes' = Append(nodes, n) /\ pc' = pc /\ data' = data
  BY <1>1 DEF append_file, IsFull, TypeOK
<1>3. /\ nodes' \in Seq(Nodes) /\ Len(nodes) \in Nat /\ Len(nodes') = Len(nodes) + 1
      /\ nodes'[Len(nodes')] = n
      /\ \A i \in 1..Len(nodes) : nodes'[i] = nodes[i]
      /\ (Len(nodes) = 0 <=> nodes = << >>)
  BY <1>1, <1>2, AppendFacts, EmptyFacts DEF TypeOK
<1>4. \A i \in 1..Len(nodes) : nodes[i] # n /\ nodes[i] \in Nodes
  BY <1>1, <1>2, ElementOfSeq DEF WellLinked, InList, TypeOK
<1>5. NULL \notin Nodes
  BY ListAssumption
<1>6. /\ per' \in [Nodes -> Nodes \cup {NULL}]
      /\ per'[n] = NULL
      /\ nodes = << >> => out' = n
      /\ nodes # << >> => out' = out /\ per'[in] = n
      /\ \A m \in Nodes : m # n /\ (nodes = << >> \/ m # in) => per'[m] = per[m]
  <2>1. CASE nodes = << >>
    <3>1. in = NULL /\ out = NULL
      BY <1>1, <2>1 DEF WellLinked
    <3> QED BY <1>1, <2>1, <3>1 DEF append_file, Link, TypeOK
  <2>2. CASE nodes # << >>
    <3>1. /\ in \in Nodes /\ in # n /\ out \in Nodes /\ out # NULL
      BY <1>1, <1>3, <1>4, <1>5, <2>2 DEF WellLinked
    <3>2. per' = [per EXCEPT ![n] = NULL, ![in] = n] /\ out' = out
      BY <3>1 DEF append_file, Link
    <3> QED BY <1>1, <2>2, <3>1, <3>2 DEF TypeOK
  <2> QED BY <2>1, <2>2
<1>7. TypeOK'
  <2>1. list_count' = Len(nodes') /\ list_count' <= MaxCount
    BY <1>1, <1>2, <1>3, ListAssumption DEF TypeOK
  <2>2. filename' \in [Nodes -> Files \cup {NULL}]
    BY <1>1, <1>2 DEF TypeOK
  <2>3. used' \subseteq Nodes
    BY <1>1, <1>2 DEF TypeOK
  <2> QED BY <1>1, <1>2, <1>3, <1>6, <2>1, <2>2, <2>3 DEF TypeOK
<1>8. WellLinked'
  <2>1. nodes' # << >> /\ out' = nodes'[1] /\ in' = nodes'[Len(nodes')] /\ per'[in'] = NULL
    BY <1>1, <1>2, <1>3, <1>6, EmptyFacts DEF WellLinked
  <2>2. ASSUME NEW i \in 1..Len(nodes'), i # Len(nodes')
        PROVE  per'[nodes'[i]] = nodes'[i + 1]
    <3>1. i \in 1..Len(nodes) /\ nodes # << >> /\ nodes'[i] = nodes[i]
      BY <1>3, <2>2
    <3>2. CASE i = Len(nodes)
      BY <1>1, <1>3, <1>6, <3>1, <3>2 DEF WellLinked
    <3>3. CASE i # Len(nodes)
      <4>1. i + 1 \in 1..Len(nodes) /\ per[nodes[i]] = nodes[i + 1] /\ nodes[i] # in
        BY <1>1, <1>3, <3>1, <3>3 DEF WellLinked
      <4> QED BY <1>3, <1>4, <1>6, <3>1, <4>1
    <3> QED BY <3>2, <3>3
  <2>3. \A i, j \in 1..Len(nodes') : nodes'[i] = nodes'[j] => i = j
    BY <1>1, <1>3, <1>4 DEF WellLinked
  <2>4. \A i \in 1..Len(nodes') : nodes'[i] \in InList \cup {n}
    BY <1>3 DEF InList
  <2>5. InList' \subseteq InList \cup {n}
    BY <2>4 DEF InList
  <2>6. InList' \subseteq used' /\ (data' # NULL => data' \in used' \ InList')
    BY <1>1, <1>2, <2>5 DEF WellLinked
  <2> QED BY <2>1, <2>2, <2>3, <2>6 DEF WellLinked
<1>9. BusyWithFiles' /\ ThreadOK'
  BY <1>1, <1>2, <1>3 DEF BusyWithFiles, ThreadOK, TypeOK
<1>10. Named'
  BY <1>1, <1>2 DEF Named, TypeOK
<1> QED BY <1>7, <1>8, <1>9, <1>10 DEF ListInv

(* get_next: the oldest node leaves the list for file_thread's hand.        *)
LEMMA TakeKeeps ==
  ASSUME ListInv, get_next
  PROVE  /\ ListInv' /\ data = NULL /\ nodes # << >>
         /\ nodes' = Tail(nodes) /\ data' = Head(nodes) /\ filename' = filename
<1>1. TypeOK /\ WellLinked /\ BusyWithFiles /\ ThreadOK /\ Named
  BY DEF ListInv
<1>2. pc = "next" /\ list_count # 0 /\ list_count = Len(nodes) /\ data = NULL
  BY <1>1 DEF get_next, ThreadOK, TypeOK
<1>3. /\ Len(nodes) \in Nat \ {0} /\ nodes # << >>
      /\ Head(nodes) = nodes[1] /\ Head(nodes) \in Nodes
      /\ Tail(nodes) \in Seq(Nodes)
      /\ Len(Tail(nodes)) = Len(nodes) - 1
      /\ \A i \in 1..(Len(nodes) - 1) : Tail(nodes)[i] = nodes[i + 1]
      /\ (Tail(nodes) = << >> <=> Len(nodes) = 1)
  <2>1. nodes \in Seq(Nodes) /\ Len(nodes) # 0
    BY <1>1, <1>2 DEF TypeOK
  <2>2. /\ Len(nodes) \in Nat \ {0} /\ nodes # << >>
        /\ Head(nodes) = nodes[1] /\ Head(nodes) \in Nodes
        /\ Tail(nodes) \in Seq(Nodes)
        /\ Len(Tail(nodes)) = Len(nodes) - 1
        /\ \A i \in 1..(Len(nodes) - 1) : Tail(nodes)[i] = nodes[i + 1]
    BY <2>1, TailFacts
  <2>3. Tail(nodes) = << >> <=> Len(Tail(nodes)) = 0
    BY <2>2, EmptyFacts
  <2>4. Len(nodes) - 1 = 0 <=> Len(nodes) = 1
    BY <2>2
  <2> QED BY <2>2, <2>3, <2>4
<1>4. out = nodes[1] /\ out \in Nodes /\ out # NULL
  <2>1. out = nodes[1]
    BY <1>1, <1>3 DEF WellLinked
  <2> QED BY <2>1, <1>3, ListAssumption
<1>5. /\ pc' = "got" /\ data' = out /\ out' = per[out] /\ Unlinked(per[out])
      /\ list_count' = list_count - 1 /\ nodes' = Tail(nodes)
      /\ per' = per /\ filename' = filename /\ used' = used
  BY <1>2, <1>4 DEF get_next
<1>6. /\ Len(nodes) = 1 => per[out] = NULL
      /\ Len(nodes) # 1 => per[out] = nodes[2] /\ nodes[2] \in Nodes
  BY <1>1, <1>3, <1>4, ElementOfSeq DEF WellLinked, TypeOK
<1>7. /\ Len(nodes) = 1 => in' = NULL /\ stat' = "S_IDLE" /\ out' = NULL
      /\ Len(nodes) # 1 => in' = in /\ stat' = stat /\ out' = nodes[2]
  BY <1>5, <1>6, ListAssumption DEF Unlinked
<1>8. TypeOK'
  BY <1>1, <1>2, <1>3, <1>4, <1>5, <1>7, ListAssumption DEF TypeOK
<1>9. WellLinked'
  <2>0. Len(nodes') = Len(nodes) - 1 /\ (nodes' = << >> <=> Len(nodes) = 1)
    BY SMTT(30), <1>3, <1>5
  <2>1. /\ nodes' = << >> => in' = NULL /\ out' = NULL
        /\ nodes' # << >> => out' = nodes'[1] /\ in' = nodes'[Len(nodes')] /\ per'[in'] = NULL
    <3>1. CASE nodes' = << >>
      BY <2>0, <3>1, <1>7
    <3>2. CASE nodes' # << >>
      <4>1. Len(nodes) # 1 /\ 1 \in 1..(Len(nodes) - 1) /\ Len(nodes') \in 1..(Len(nodes) - 1)
        BY <1>3, <2>0, <3>2
      <4>2. nodes'[1] = nodes[2] /\ nodes'[Len(nodes')] = nodes[Len(nodes)]
        BY <1>3, <1>5, <2>0, <4>1
      <4> QED BY <1>1, <1>3, <1>5, <1>7, <3>2, <4>1, <4>2 DEF WellLinked
    <3> QED BY <3>1, <3>2
  <2>2. \A i \in 1..Len(nodes') : /\ i + 1 \in 1..Len(nodes) /\ i + 1 # 1
                                  /\ nodes'[i] = nodes[i + 1]
    BY <1>3, <1>5, <2>0
  <2>3. ASSUME NEW i \in 1..Len(nodes'), i # Len(nodes')
        PROVE  per'[nodes'[i]] = nodes'[i + 1]
    <3>1. i + 1 \in 1..Len(nodes') /\ i + 1 # Len(nodes) /\ i + 1 \in 1..Len(nodes)
      <4>1. PICK k \in Nat \ {0} : Len(nodes) = k /\ Len(nodes') = k - 1
        BY <1>3, <2>0
      <4>2. i \in 1..(k - 1) /\ i # k - 1
        BY <2>3, <4>1
      <4>3. i + 1 \in 1..(k - 1) /\ i + 1 # k /\ i + 1 \in 1..k
        BY <4>1, <4>2
      <4> QED BY SMTT(30), <4>1, <4>3
    <3>2. per[nodes[i + 1]] = nodes[(i + 1) + 1]
      BY <1>1, <3>1 DEF WellLinked
    <3> QED BY <1>5, <2>2, <3>1, <3>2
  <2>4. ASSUME NEW i \in 1..Len(nodes'), NEW j \in 1..Len(nodes'), nodes'[i] = nodes'[j]
        PROVE  i = j
    <3>1. i + 1 = j + 1
      BY <1>1, <2>2, <2>4 DEF WellLinked
    <3> QED BY <3>1
  <2>5. InList' \subseteq InList
    BY <2>2 DEF InList
  <2>6. out \in InList
    BY <1>3, <1>4 DEF InList
  <2>7. out \notin InList'
    <3>1. ASSUME NEW i \in 1..Len(nodes') PROVE nodes'[i] # out
      <4>1. i + 1 \in 1..Len(nodes) /\ i + 1 # 1 /\ nodes'[i] = nodes[i + 1] /\ 1 \in 1..Len(nodes)
        BY <1>3, <2>2
      <4> QED BY <1>1, <1>4, <4>1 DEF WellLinked
    <3> QED BY <3>1 DEF InList
  <2>8. InList' \subseteq used' /\ (data' # NULL => data' \in used' \ InList')
    BY <1>1, <1>5, <2>5, <2>6, <2>7 DEF WellLinked
  <2> QED BY <2>1, <2>3, <2>4, <2>8 DEF WellLinked
<1>10. BusyWithFiles' /\ ThreadOK'
  BY <1>1, <1>2, <1>3, <1>4, <1>5, <1>7 DEF BusyWithFiles, ThreadOK
<1> QED BY <1>1, <1>2, <1>3, <1>4, <1>5, <1>8, <1>9, <1>10 DEF ListInv, Named

LEMMA StepListInv == ListInv /\ [Next]_vars => ListInv'
<1> SUFFICES ASSUME ListInv, [Next]_vars PROVE ListInv'
  OBVIOUS
<1>1. TypeOK /\ WellLinked /\ BusyWithFiles /\ ThreadOK /\ Named
  BY DEF ListInv
<1>2. CASE \E f \in Files, n \in Nodes : append_file(f, n)
  BY <1>2, AppendKeeps
<1>3. CASE get_next
  BY <1>3, TakeKeeps
<1>4. CASE SeesBusy
  BY <1>1, <1>4
  DEF SeesBusy, listVars, ListInv, TypeOK, WellLinked, BusyWithFiles, ThreadOK, Named, InList
<1>5. CASE HandlesFile \/ SendFails
  <2>1. /\ in' = in /\ out' = out /\ per' = per /\ filename' = filename
        /\ list_count' = list_count /\ stat' = stat /\ nodes' = nodes
        /\ pc' = "loop" /\ data' = NULL /\ used \ {data} \subseteq used' /\ used' \subseteq used
    BY <1>5 DEF HandlesFile, SendFails, Delete, listVars
  <2>2. TypeOK'
    BY <1>1, <2>1 DEF TypeOK
  <2>3. InList' \subseteq used'
    BY <1>1, <1>5, <2>1 DEF WellLinked, InList, HandlesFile, SendFails
  <2>4. WellLinked'
    BY <1>1, <2>1, <2>3 DEF WellLinked
  <2> QED BY <1>1, <2>1, <2>2, <2>4 DEF ListInv, BusyWithFiles, ThreadOK, Named
<1>6. CASE UNCHANGED vars
  BY <1>1, <1>6
  DEF vars, listVars, ListInv, TypeOK, WellLinked, BusyWithFiles, ThreadOK, Named, InList
<1> QED BY <1>2, <1>3, <1>4, <1>5, <1>6 DEF Next, FileThread

(* The pointers and the count always describe one list of allocated nodes,  *)
(* without the node file_thread is about to free (proxy_client.cpp 446-513).*)
THEOREM ListIsLinked == Safety => []WellLinked
<1>1. ListInv => WellLinked
  BY DEF ListInv
<1> QED BY <1>1, InitListInv, StepListInv, PTL DEF Safety

(* A list with files is never idle, an empty one never busy.                *)
THEOREM NeverSleepsOnFiles == Safety => []BusyWithFiles
<1>1. ListInv => BusyWithFiles
  BY DEF ListInv
<1> QED BY <1>1, InitListInv, StepListInv, PTL DEF Safety

(* file_thread never dereferences NULL at Cudp.cpp 431.                     *)
THEOREM NextIsNeverNull == Safety => []NeverNull
<1>1. ListInv => NeverNull
  BY DEF ListInv, ThreadOK, NeverNull
<1> QED BY <1>1, InitListInv, StepListInv, PTL DEF Safety

-----------------------------------------------------------------------------
(* The list implements FileQueue: each method is the operation of the same  *)
(* meaning there, or a step FileQueue does not see.                         *)
Names == Files \cup {NULL}

LEMMA WaitingIsSeq ==
  ASSUME ListInv
  PROVE  /\ Waiting \in Seq(Names) /\ Len(Waiting) = Len(nodes) /\ Len(nodes) \in Nat
         /\ \A i \in 1..Len(nodes) : nodes[i] \in Nodes /\ Waiting[i] = filename[nodes[i]]
<1>1. nodes \in Seq(Nodes) /\ filename \in [Nodes -> Names]
  BY DEF ListInv, TypeOK, Names
<1>2. Len(nodes) \in Nat /\ \A i \in 1..Len(nodes) : nodes[i] \in Nodes
  BY <1>1, LenProperties, ElementOfSeq
<1>3. Waiting \in [1..Len(nodes) -> Names]
  BY <1>1, <1>2 DEF Waiting
<1>4. Waiting \in Seq(Names)
  BY <1>2, <1>3, FunctionIsSeq
<1>5. Len(Waiting) = Len(nodes)
  BY <1>2, <1>3, <1>4, LenProperties, SMT
<1> QED BY <1>2, <1>4, <1>5 DEF Waiting

LEMMA StepPromise ==
  ASSUME ListInv, Next
  PROVE  \/ Promise!Begin \/ Promise!Finish \/ \E f \in Files : Promise!Accept(f)
         \/ UNCHANGED <<Waiting, Current>>
<1>1. TypeOK /\ WellLinked /\ ThreadOK /\ Named /\ ListInv'
  BY StepListInv DEF ListInv
<1>2. /\ Waiting \in Seq(Names) /\ Len(Waiting) = Len(nodes) /\ Len(nodes) \in Nat
      /\ \A i \in 1..Len(nodes) : nodes[i] \in Nodes /\ Waiting[i] = filename[nodes[i]]
  BY WaitingIsSeq
<1>3. /\ Waiting' \in Seq(Names) /\ Len(Waiting') = Len(nodes') /\ Len(nodes') \in Nat
      /\ \A i \in 1..Len(nodes') : nodes'[i] \in Nodes /\ Waiting'[i] = filename'[nodes'[i]]
  <2>1. nodes' \in Seq(Nodes) /\ filename' \in [Nodes -> Names]
    BY <1>1 DEF ListInv, TypeOK, Names
  <2>2. Len(nodes') \in Nat /\ \A i \in 1..Len(nodes') : nodes'[i] \in Nodes
    BY <2>1, LenProperties, ElementOfSeq
  <2>3. Waiting' \in [1..Len(nodes') -> Names]
    BY <2>1, <2>2 DEF Waiting
  <2>4. Waiting' \in Seq(Names)
    BY <2>2, <2>3, FunctionIsSeq
  <2>5. Len(Waiting') = Len(nodes')
    BY <2>2, <2>3, <2>4, LenProperties, SMT
  <2> QED BY <2>2, <2>4, <2>5 DEF Waiting
<1>4. ASSUME NEW f \in Files, NEW n \in Nodes, append_file(f, n)
      PROVE  Promise!Accept(f)
  <2>1. /\ ~(list_count >= MaxCount) /\ n \notin used /\ data' = data
        /\ filename' = [filename EXCEPT ![n] = f] /\ nodes' = Append(nodes, n)
    BY <1>4 DEF append_file, IsFull
  <2>2. /\ Len(nodes') = Len(nodes) + 1 /\ nodes'[Len(nodes) + 1] = n
        /\ \A i \in 1..Len(nodes) : nodes'[i] = nodes[i]
    BY <1>1, <2>1, AppendFacts DEF TypeOK
  <2>3. /\ filename'[n] = f
        /\ \A m \in used : filename'[m] = filename[m]
    BY <1>1, <2>1 DEF TypeOK
  <2>4. \A i \in 1..Len(nodes) : nodes[i] \in used
    BY <1>1 DEF WellLinked, InList
  <2>5. /\ Append(Waiting, f) \in Seq(Names) /\ Len(Append(Waiting, f)) = Len(nodes) + 1
        /\ Append(Waiting, f)[Len(nodes) + 1] = f
        /\ \A i \in 1..Len(nodes) : Append(Waiting, f)[i] = Waiting[i]
    BY <1>2, AppendFacts DEF Names
  <2>6. ASSUME NEW i \in 1..Len(Waiting') PROVE Waiting'[i] = Append(Waiting, f)[i]
    <3>1. CASE i = Len(nodes) + 1
      BY <1>3, <2>2, <2>3, <2>5, <3>1
    <3>2. CASE i # Len(nodes) + 1
      <4>1. i \in 1..Len(nodes) /\ i \in 1..Len(nodes')
        BY <1>2, <1>3, <2>2, <3>2
      <4> QED BY <1>2, <1>3, <2>2, <2>3, <2>4, <2>5, <4>1
    <3> QED BY <3>1, <3>2
  <2>7. Len(Waiting') = Len(Append(Waiting, f))
    BY <1>3, <2>2, <2>5
  <2>8. Waiting' = Append(Waiting, f)
    BY <1>3, <2>5, <2>6, <2>7, SeqEqual
  <2>9. Current' = Current
    BY <1>1, <2>1, <2>3 DEF Current, WellLinked
  <2>10. Len(Waiting) < MaxCount
    BY <1>1, <1>2, <2>1, ListAssumption DEF TypeOK
  <2> QED BY <2>8, <2>9, <2>10 DEF Promise!Accept
<1>5. CASE get_next
  <2>1. /\ data = NULL /\ nodes # << >> /\ nodes' = Tail(nodes)
        /\ data' = Head(nodes) /\ filename' = filename
    BY <1>5, TakeKeeps
  <2>2. /\ Len(nodes) # 0 /\ Waiting # << >>
    BY <1>1, <1>2, <2>1, EmptyFacts, EmptySeq DEF TypeOK
  <2>3. /\ Len(nodes) \in Nat \ {0} /\ Head(nodes) = nodes[1] /\ Head(nodes) \in Nodes
        /\ Len(Tail(nodes)) = Len(nodes) - 1
        /\ \A i \in 1..(Len(nodes) - 1) : Tail(nodes)[i] = nodes[i + 1]
    BY <1>1, <2>2, TailFacts DEF TypeOK
  <2>4. /\ Head(Waiting) = Waiting[1] /\ Tail(Waiting) \in Seq(Names)
        /\ Len(Tail(Waiting)) = Len(nodes) - 1
        /\ \A i \in 1..(Len(nodes) - 1) : Tail(Waiting)[i] = Waiting[i + 1]
    BY <1>2, <2>2, TailFacts
  <2>5. Len(Waiting') = Len(nodes) - 1
    BY <1>3, <2>1, <2>3
  <2>6. ASSUME NEW i \in 1..Len(Waiting') PROVE Waiting'[i] = Tail(Waiting)[i]
    <3>1. i \in 1..(Len(nodes) - 1) /\ i \in 1..Len(nodes') /\ i + 1 \in 1..Len(nodes)
      BY <1>3, <2>3, <2>5
    <3> QED BY <1>2, <1>3, <2>1, <2>3, <2>4, <3>1
  <2>7. Waiting' = Tail(Waiting)
    BY <1>3, <2>4, <2>5, <2>6, SeqEqual
  <2>8. Current = NULL /\ Current' = Head(Waiting)
    <3>1. 1 \in 1..Len(nodes) /\ data' # NULL
      BY <2>1, <2>3, ListAssumption
    <3> QED BY <1>2, <2>1, <2>3, <2>4, <3>1 DEF Current
  <2> QED BY <2>2, <2>7, <2>8 DEF Promise!Begin
<1>6. CASE HandlesFile \/ SendFails
  <2>1. data # NULL /\ data' = NULL /\ nodes' = nodes /\ filename' = filename
    BY <1>6 DEF HandlesFile, SendFails, listVars
  <2>2. Current # NULL /\ Current' = NULL
    BY <1>1, <2>1, ListAssumption DEF Current, WellLinked, Named
  <2> QED BY <2>1, <2>2 DEF Promise!Finish, Waiting
<1>7. CASE SeesBusy
  BY <1>7 DEF SeesBusy, listVars, Waiting, Current
<1> QED BY <1>4, <1>5, <1>6, <1>7 DEF Next, FileThread

(* list_count is the number of files that wait, never more than MaxCount,   *)
(* whatever the order of append_file and get_next (Cudp.h).                 *)
THEOREM ListTypeCorrect == Safety => []TypeOK
<1>1. ListInv => TypeOK
  BY DEF ListInv
<1> QED BY <1>1, InitListInv, StepListInv, PTL DEF Safety

(* append_file and get_next keep FileQueue's promise for every history of   *)
(* calls: accepted files are taken once each, in order, at most MaxCount    *)
(* wait.                                                                    *)
THEOREM ImplementsQueue == Safety => KeepsPromiseSafely
<1>1. Init => Promise!Init
  <2> SUFFICES ASSUME Init PROVE Waiting = << >> /\ Current = NULL
    BY DEF Promise!Init
  <2>1. ListInv /\ nodes = << >> /\ data = NULL
    BY InitListInv DEF Init
  <2>2. Waiting \in Seq(Names) /\ Len(Waiting) = 0
    BY <2>1, WaitingIsSeq, EmptySeq
  <2> QED BY <2>1, <2>2, EmptyFacts DEF Current
<1>2. ListInv /\ [Next]_vars => [Promise!Next]_(Promise!queueVars)
  <2>1. ListInv /\ Next => Promise!Next \/ UNCHANGED <<Waiting, Current>>
    BY StepPromise DEF Promise!Next
  <2>2. UNCHANGED vars => UNCHANGED <<Waiting, Current>>
    BY DEF vars, listVars, Waiting, Current
  <2> QED BY <2>1, <2>2 DEF Promise!queueVars
<1> QED
  BY <1>1, <1>2, InitListInv, StepListInv, PTL
  DEF Safety, KeepsPromiseSafely, Promise!Safety

=============================================================================
