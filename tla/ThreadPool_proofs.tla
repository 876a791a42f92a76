------------------------- MODULE ThreadPool_proofs --------------------------
(***************************************************************************)
(* Proofs about ThreadPool for any number of workers, client threads, jobs *)
(* and any queue limit.                                                    *)
(***************************************************************************)
EXTENDS ThreadPool, SequenceTheorems, FiniteSetTheorems, TLAPS

(* The sequence facts the steps need.                                       *)
LEMMA AppendFacts ==
  ASSUME NEW S, NEW q \in Seq(S), NEW e \in S
  PROVE  /\ Append(q, e) \in Seq(S)
         /\ Len(q) \in Nat
         /\ Len(Append(q, e)) = Len(q) + 1
         /\ Append(q, e)[Len(q) + 1] = e
         /\ \A i \in 1..Len(q) : Append(q, e)[i] = q[i]
BY AppendProperties, LenProperties

LEMMA EmptyFacts ==
  ASSUME NEW S, NEW q \in Seq(S)
  PROVE  Len(q) \in Nat /\ (Len(q) = 0 <=> q = << >>)
BY EmptySeq, LenProperties, SeqEqual

LEMMA TailFacts ==
  ASSUME NEW S, NEW q \in Seq(S), Len(q) # 0
  PROVE  /\ Len(q) \in Nat \ {0} /\ q # << >>
         /\ Head(q) = q[1] /\ Head(q) \in S
         /\ Tail(q) \in Seq(S)
         /\ Len(Tail(q)) = Len(q) - 1
         /\ \A i \in 1..(Len(q) - 1) : Tail(q)[i] = q[i + 1]
<1>1. Len(q) \in Nat /\ q # << >>
  BY LenProperties, EmptySeq
<1> QED BY <1>1, HeadTailProperties

(* A job that waits in the list.                                            *)
Queued(j) == \E i \in 1..Len(queue) : queue[i] = j

-----------------------------------------------------------------------------
(* Who is closing the pool: one thread at most, and what it has reached.    *)
Closers == {"drain", "queue_empty", "broadcast", "join"}
CloseInv ==
  /\ pool_close => queue = << >> /\ queue_close
  /\ freed => pool_close /\ \A w \in Workers : pc[w] = "exited"
  /\ \A w \in Workers : pc[w] = "exited" => pool_close
  /\ \A c \in Clients : pc[c] \in {"drain", "queue_empty"} => queue_close /\ ~pool_close
  /\ \A c \in Clients : pc[c] \in {"broadcast", "join"} => pool_close
  /\ \A c, d \in Clients : pc[c] \in Closers /\ pc[d] \in Closers => c = d

(* A thread has a job in its hand in three places, and nowhere else (but    *)
(* for a client that ran into a freed pool).                                *)
Holding == {"add", "queue_not_full", "run"}
HandInv ==
  \A t \in Threads :
    /\ pc[t] \in Holding => arg[t] \in Jobs
    /\ pc[t] \notin Holding \cup {"undefined"} => arg[t] = NoJob

SafeInv == TypeOK /\ NoLostWakeup /\ CloseInv /\ HandInv

LEMMA InitSafeInv == Init => SafeInv
<1> SUFFICES ASSUME Init PROVE SafeInv
  OBVIOUS
<1>1. << >> \in Seq(Jobs) /\ Len(<< >>) = 0
  BY EmptySeq
<1>2. /\ queue = << >> /\ queue_cur_num = 0
      /\ queue_close = FALSE /\ pool_close = FALSE /\ freed = FALSE
      /\ offered = {} /\ refused = {} /\ done = {}
      /\ arg = [t \in Threads |-> NoJob]
  BY DEF Init
<1>3. /\ pc \in [Threads -> WorkerPlaces \cup ClientPlaces]
      /\ \A w \in Workers : pc[w] = "get"
      /\ \A c \in Clients : pc[c] = "idle"
  BY PoolAssumption DEF Init, Threads, WorkerPlaces, ClientPlaces
<1>4. queue \in Seq(Jobs) /\ queue_cur_num = Len(queue) /\ queue_cur_num <= Max
  BY <1>1, <1>2, PoolAssumption
<1>5. TypeOK
  BY <1>2, <1>3, <1>4 DEF TypeOK, WorkerPlaces, ClientPlaces
<1>6. NoLostWakeup
  BY <1>2, <1>3 DEF NoLostWakeup, Waiting, Threads
<1>7. CloseInv
  BY <1>2, <1>3 DEF CloseInv, Closers
<1>8. HandInv
  BY <1>2, <1>3 DEF HandInv, Holding, Threads
<1> QED BY <1>5, <1>6, <1>7, <1>8 DEF SafeInv

(* A step that leaves the list and the flags alone and moves one thread to  *)
(* a place where it neither sleeps nor closes the pool.                     *)
LEMMA Moves ==
  ASSUME SafeInv, NEW t \in Threads, NEW p, NEW a \in Jobs \cup {NoJob},
         \/ t \in Workers /\ p \in {"get", "run", "exited"}
         \/ t \in Clients /\ p \in {"idle", "add", "destroy", "undefined"},
         p = "exited" => pool_close,
         freed => t \notin Workers,
         p \in Holding => a # NoJob,
         p \notin Holding \cup {"undefined"} => a = NoJob,
         pc' = [pc EXCEPT ![t] = p], arg' = [arg EXCEPT ![t] = a],
         offered' \subseteq Jobs, refused' \subseteq Jobs, done' \subseteq Jobs,
         queue' = queue, queue_cur_num' = queue_cur_num,
         queue_close' = queue_close, pool_close' = pool_close, freed' = freed
  PROVE  SafeInv'
<1>1. TypeOK /\ NoLostWakeup /\ CloseInv /\ HandInv
  BY DEF SafeInv
<1>2. /\ \A s \in Threads : s # t => pc'[s] = pc[s] /\ arg'[s] = arg[s]
      /\ pc'[t] = p /\ arg'[t] = a
  BY <1>1 DEF TypeOK
<1>3. pc' \in [Threads -> WorkerPlaces \cup ClientPlaces]
  BY <1>1 DEF TypeOK, WorkerPlaces, ClientPlaces
<1>4. /\ \A w \in Workers : pc'[w] \in WorkerPlaces
      /\ \A c \in Clients : pc'[c] \in ClientPlaces
  BY <1>1, <1>2, PoolAssumption DEF TypeOK, Threads, WorkerPlaces, ClientPlaces
<1>5. TypeOK'
  BY <1>1, <1>3, <1>4 DEF TypeOK
<1>6. NoLostWakeup'
  BY <1>1, <1>2 DEF NoLostWakeup, Waiting, IsFull
<1>7. CloseInv'
  BY <1>1, <1>2, PoolAssumption DEF CloseInv, Closers, Threads
<1>8. HandInv'
  BY <1>1, <1>2 DEF HandInv
<1> QED BY <1>5, <1>6, <1>7, <1>8 DEF SafeInv

(* A step that leaves the list and the flags alone and puts one thread to   *)
(* sleep on a condition that does not hold.                                 *)
LEMMA Sleeps ==
  ASSUME SafeInv, NEW t \in Threads, NEW p,
         \/ t \in Workers /\ p = "queue_not_empty" /\ queue = << >> /\ ~pool_close
         \/ t \in Clients /\ p = "queue_not_full" /\ pc[t] = "add" /\ IsFull,
         pc' = [pc EXCEPT ![t] = p],
         pc[t] \in {"get", "add"},
         UNCHANGED <<queue, queue_cur_num, flags, arg, history>>
  PROVE  SafeInv'
<1>1. TypeOK /\ NoLostWakeup /\ CloseInv /\ HandInv
  BY DEF SafeInv
<1>2. /\ queue' = queue /\ queue_cur_num' = queue_cur_num /\ arg' = arg
      /\ queue_close' = queue_close /\ pool_close' = pool_close /\ freed' = freed
      /\ offered' = offered /\ refused' = refused /\ done' = done
  BY DEF flags, history
<1>3. (\A s \in Threads : s # t => pc'[s] = pc[s]) /\ pc'[t] = p
  BY <1>1 DEF TypeOK
<1>4. pc' \in [Threads -> WorkerPlaces \cup ClientPlaces]
  BY <1>1 DEF TypeOK, WorkerPlaces, ClientPlaces
<1>5. /\ \A w \in Workers : pc'[w] \in WorkerPlaces
      /\ \A c \in Clients : pc'[c] \in ClientPlaces
  BY <1>1, <1>3, PoolAssumption DEF TypeOK, Threads, WorkerPlaces, ClientPlaces
<1>6. TypeOK'
  BY <1>1, <1>2, <1>4, <1>5 DEF TypeOK
<1>7. NoLostWakeup'
  BY <1>1, <1>2, <1>3 DEF NoLostWakeup, Waiting, IsFull
<1>8. CloseInv'
  BY <1>1, <1>2, <1>3, PoolAssumption DEF CloseInv, Closers, Threads
<1>9. HandInv'
  BY <1>1, <1>2, <1>3, PoolAssumption DEF HandInv, Holding, TypeOK, Threads, WorkerPlaces
<1> QED BY <1>6, <1>7, <1>8, <1>9 DEF SafeInv

LEMMA ClientSafe ==
  ASSUME SafeInv, NEW c \in Clients,
         \/ \E j \in Jobs : CallAdd(c, j)
         \/ CallDestroy(c) \/ AddStep(c) \/ TouchesFreed(c) \/ DestroyRefused(c)
  PROVE  SafeInv'
<1>1. TypeOK /\ NoLostWakeup /\ CloseInv /\ HandInv
  BY DEF SafeInv
<1>2. c \in Threads /\ c \notin Workers
  BY PoolAssumption DEF Threads
<1>3. /\ arg \in [Threads -> Jobs \cup {NoJob}]
      /\ offered \subseteq Jobs /\ refused \subseteq Jobs /\ done \subseteq Jobs
      /\ arg = [arg EXCEPT ![c] = arg[c]]
      /\ arg[c] \in Jobs \cup {NoJob}
  BY <1>1, <1>2 DEF TypeOK
<1>4. /\ pc[c] \in Holding => arg[c] \in Jobs
      /\ pc[c] \notin Holding \cup {"undefined"} => arg[c] = NoJob
  BY <1>1, <1>2 DEF HandInv
<1>5. NoJob \notin Jobs
  BY PoolAssumption
<1>6. ASSUME NEW j \in Jobs, CallAdd(c, j) PROVE SafeInv'
  <2>1. /\ pc' = [pc EXCEPT ![c] = "add"] /\ arg' = [arg EXCEPT ![c] = j]
        /\ ~freed /\ "add" \in Holding /\ "add" # "exited"
        /\ offered' \subseteq Jobs /\ refused' \subseteq Jobs /\ done' \subseteq Jobs
        /\ queue' = queue /\ queue_cur_num' = queue_cur_num
        /\ queue_close' = queue_close /\ pool_close' = pool_close /\ freed' = freed
    BY <1>3, <1>6 DEF CallAdd, flags, Holding
  <2>2. c \in Clients /\ j \in Jobs \cup {NoJob} /\ j # NoJob
    BY <1>5
  <2> QED BY <1>2, <2>1, <2>2, Moves
<1>7. CASE CallDestroy(c)
  BY <1>7, <1>2, <1>3, <1>4, Moves DEF CallDestroy, flags, history, Holding
<1>8. CASE AddWaits(c)
  BY <1>8, <1>2, Sleeps DEF AddWaits
<1>9. CASE AddRefused(c)
  BY <1>9, <1>2, <1>3, <1>4, Moves DEF AddRefused, flags, Holding
<1>10. CASE AddAccepts(c)
  <2>1. /\ pc[c] = "add" /\ ~freed /\ queue_cur_num # Max /\ ~queue_close /\ ~pool_close
        /\ queue' = Append(queue, arg[c]) /\ queue_cur_num' = queue_cur_num + 1
        /\ pc' = WakeWorkers([pc EXCEPT ![c] = "idle"])
        /\ arg' = [arg EXCEPT ![c] = NoJob]
        /\ queue_close' = queue_close /\ pool_close' = pool_close /\ freed' = freed
        /\ offered' = offered /\ refused' = refused /\ done' = done
    BY <1>10 DEF AddAccepts, Enqueue, flags, history, IsFull, Closing
  <2>2. /\ \A t \in Threads : t # c =>
             \/ pc'[t] = pc[t]
             \/ pc[t] = "queue_not_empty" /\ pc'[t] = "get"
        /\ pc'[c] = "idle"
        /\ queue = << >> => \A t \in Threads : pc'[t] # "queue_not_empty"
        /\ DOMAIN pc' = Threads /\ pc' = [t \in Threads |-> pc'[t]]
    BY <1>1, <1>2, <2>1 DEF TypeOK, WakeWorkers, Broadcast
  <2>3. /\ \A w \in Workers : pc'[w] \in WorkerPlaces
        /\ \A d \in Clients : pc'[d] \in ClientPlaces
    BY <1>1, <1>2, <2>2 DEF TypeOK, Threads, WorkerPlaces, ClientPlaces
  <2>4. pc' \in [Threads -> WorkerPlaces \cup ClientPlaces]
    BY <2>2, <2>3 DEF Threads
  <2>5. arg[c] \in Jobs
    BY <1>4, <2>1 DEF Holding
  <2>6. /\ queue' \in Seq(Jobs) /\ queue_cur_num' = Len(queue') /\ queue_cur_num' <= Max
        /\ queue_cur_num = Len(queue) /\ Len(queue) \in Nat
    BY <1>1, <2>1, <2>5, AppendFacts, PoolAssumption DEF TypeOK
  <2>7. TypeOK'
    BY <1>1, <1>3, <2>1, <2>3, <2>4, <2>6 DEF TypeOK
  <2>8. NoLostWakeup'
    <3>1. \A t \in Threads : pc'[t] # "queue_not_empty"
      BY <1>1, <2>2 DEF NoLostWakeup, Waiting
    <3>2. \A t \in Threads : pc'[t] # "queue_not_full"
      <4>1. \A t \in Threads : pc[t] # "queue_not_full"
        BY <1>1, <2>1 DEF NoLostWakeup, Waiting, IsFull
      <4> QED BY <4>1, <2>2
    <3>3. queue_cur_num' # 0
      BY <2>1, <2>6
    <3> QED BY <3>1, <3>2, <3>3 DEF NoLostWakeup, Waiting
  <2>9. CloseInv'
    BY <1>1, <1>2, <2>1, <2>2 DEF CloseInv, Closers, Threads
  <2>10. HandInv'
    BY <1>1, <1>2, <1>3, <2>1, <2>2 DEF HandInv, Holding
  <2> QED BY <2>7, <2>8, <2>9, <2>10 DEF SafeInv
<1>11. CASE TouchesFreed(c)
  BY <1>11, <1>2, <1>3, Moves DEF TouchesFreed, flags, history, Holding
<1>12. CASE DestroyRefused(c)
  BY <1>12, <1>2, <1>3, <1>4, Moves DEF DestroyRefused, flags, history, Holding
<1> QED
  BY <1>6, <1>7, <1>8, <1>9, <1>10, <1>11, <1>12 DEF AddStep

LEMMA WorkerSafe ==
  ASSUME SafeInv, NEW w \in Workers, WorkerStep(w)
  PROVE  SafeInv'
<1>1. TypeOK /\ NoLostWakeup /\ CloseInv /\ HandInv
  BY DEF SafeInv
<1>2. w \in Threads /\ w \notin Clients
  BY PoolAssumption DEF Threads
<1>3. /\ arg \in [Threads -> Jobs \cup {NoJob}]
      /\ offered \subseteq Jobs /\ refused \subseteq Jobs /\ done \subseteq Jobs
      /\ arg = [arg EXCEPT ![w] = arg[w]]
      /\ arg[w] \in Jobs \cup {NoJob}
      /\ queue \in Seq(Jobs) /\ queue_cur_num = Len(queue)
  BY <1>1, <1>2 DEF TypeOK
<1>4. /\ pc[w] \in Holding => arg[w] \in Jobs
      /\ pc[w] \notin Holding \cup {"undefined"} => arg[w] = NoJob
      /\ freed => pc[w] = "exited"
  BY <1>1, <1>2 DEF HandInv, CloseInv
<1>5. NoJob \notin Jobs /\ Max \in Nat \ {0}
  BY PoolAssumption
<1>6. CASE GetWaits(w)
  <2>1. queue = << >>
    BY <1>6, <1>3, EmptyFacts DEF GetWaits
  <2> QED BY <1>6, <1>2, <2>1, Sleeps DEF GetWaits
<1>7. CASE GetExits(w)
  BY <1>7, <1>2, <1>3, <1>4, Moves DEF GetExits, flags, history, Holding
<1>8. CASE GetTakes(w)
  <2> DEFINE n == queue_cur_num - 1
  <2>1. /\ pc[w] = "get" /\ queue_cur_num # 0 /\ ~pool_close
        /\ queue_cur_num' = n
        /\ arg' = [arg EXCEPT ![w] = Head(queue)]
        /\ queue' = IF n = 0 THEN << >> ELSE Tail(queue)
        /\ pc' = WakeClients(n, WakeCloser(n, [pc EXCEPT ![w] = "run"]))
        /\ queue_close' = queue_close /\ pool_close' = pool_close /\ freed' = freed
        /\ offered' = offered /\ refused' = refused /\ done' = done
    BY <1>8 DEF GetTakes, flags, history
  <2>2. /\ Len(queue) \in Nat \ {0} /\ queue # << >>
        /\ Head(queue) \in Jobs /\ Tail(queue) \in Seq(Jobs)
        /\ Len(Tail(queue)) = Len(queue) - 1
        /\ Len(queue) <= Max
    BY <1>1, <1>3, <2>1, TailFacts DEF TypeOK
  <2>3. queue' \in Seq(Jobs) /\ queue_cur_num' = Len(queue') /\ queue_cur_num' <= Max
    <3>1. << >> \in Seq(Jobs) /\ Len(<< >>) = 0
      BY EmptySeq
    <3>2. n \in Nat /\ n <= Max /\ n = Len(queue) - 1
      BY <1>3, <1>5, <2>2
    <3> QED BY <2>1, <2>2, <3>1, <3>2
  <2>4. /\ \A t \in Threads : t # w =>
             \/ pc'[t] = pc[t]
             \/ pc[t] = "queue_not_full" /\ pc'[t] = "add"
             \/ pc[t] = "queue_empty" /\ pc'[t] = "drain"
        /\ pc'[w] = "run"
        /\ n = Max - 1 => \A t \in Threads : pc'[t] # "queue_not_full"
        /\ n = 0 => \A t \in Threads : pc'[t] # "queue_empty"
        /\ pc' = [t \in Threads |-> pc'[t]]
    <3> DEFINE f == [pc EXCEPT ![w] = "run"]
               g == WakeCloser(n, f)
    <3>1. /\ \A t \in Threads : t # w => f[t] = pc[t]
          /\ f[w] = "run" /\ f = [t \in Threads |-> f[t]]
      BY <1>1, <1>2 DEF TypeOK
    <3>2. /\ \A t \in Threads : t # w =>
               \/ g[t] = pc[t]
               \/ pc[t] = "queue_empty" /\ g[t] = "drain"
          /\ g[w] = "run"
          /\ n = 0 => \A t \in Threads : g[t] # "queue_empty"
          /\ g = [t \in Threads |-> g[t]]
      BY <1>2, <2>1, <3>1 DEF WakeCloser, Broadcast
    <3>3. pc' = WakeClients(n, g)
      BY <2>1
    <3> HIDE DEF f, g, n
    <3>4. CASE n = Max - 1
      <4>1. pc' = [t \in Threads |-> IF pc[t] = "queue_not_full" THEN "add" ELSE g[t]]
        BY <3>3, <3>4 DEF WakeClients, Broadcast
      <4> QED BY <1>2, <2>1, <3>2, <4>1
    <3>5. CASE n # Max - 1
      <4>1. pc' = g
        BY <3>3, <3>5 DEF WakeClients
      <4> QED BY <1>2, <3>2, <3>5, <4>1
    <3> QED BY <3>4, <3>5
  <2>5. pc' \in [Threads -> WorkerPlaces \cup ClientPlaces]
    BY <1>1, <1>2, <2>4 DEF TypeOK, WorkerPlaces, ClientPlaces
  <2>6. /\ \A v \in Workers : pc'[v] \in WorkerPlaces
        /\ \A d \in Clients : pc'[d] \in ClientPlaces
    BY <1>1, <1>2, <2>4 DEF TypeOK, Threads, WorkerPlaces, ClientPlaces
  <2>7. arg' \in [Threads -> Jobs \cup {NoJob}]
    BY <1>3, <2>1, <2>2
  <2>8. TypeOK'
    BY <1>1, <1>3, <2>1, <2>3, <2>5, <2>6, <2>7 DEF TypeOK
  <2>9. NoLostWakeup'
    <3>1. \A t \in Threads : pc'[t] # "queue_not_empty"
      BY <1>1, <2>2, <2>4 DEF NoLostWakeup, Waiting
    <3>2. \A t \in Threads : pc'[t] # "queue_not_full"
      <4>1. CASE queue_cur_num = Max
        BY <4>1, <2>4
      <4>2. CASE queue_cur_num # Max
        <5>1. \A t \in Threads : pc[t] # "queue_not_full"
          BY <1>1, <4>2 DEF NoLostWakeup, Waiting, IsFull
        <5> QED BY <5>1, <2>4
      <4> QED BY <4>1, <4>2
    <3>3. queue_cur_num' = 0 => \A t \in Threads : pc'[t] # "queue_empty"
      BY <2>1, <2>4
    <3> QED BY <3>1, <3>2, <3>3 DEF NoLostWakeup, Waiting
  <2>10. CloseInv'
    BY <1>1, <1>2, <2>1, <2>4, PoolAssumption DEF CloseInv, Closers, Threads
  <2>11. HandInv'
    BY <1>1, <1>2, <1>3, <2>1, <2>2, <2>4 DEF HandInv, Holding
  <2> QED BY <2>8, <2>9, <2>10, <2>11 DEF SafeInv
<1>9. CASE RunJob(w)
  BY <1>9, <1>2, <1>3, <1>4, Moves DEF RunJob, flags, Holding
<1> QED BY <1>6, <1>7, <1>8, <1>9 DEF WorkerStep

(* destroy: the thread that gets past DestroyCloses is the only one, and    *)
(* what it waits for is what CloseInv says it has reached.                  *)
LEMMA DestroySafe ==
  ASSUME SafeInv, NEW c \in Clients, DestroyStep(c)
  PROVE  SafeInv'
<1>1. TypeOK /\ NoLostWakeup /\ CloseInv /\ HandInv
  BY DEF SafeInv
<1>2. c \in Threads /\ c \notin Workers
  BY PoolAssumption DEF Threads
<1>3. queue_cur_num = 0 => queue = << >>
  BY <1>1, EmptyFacts DEF TypeOK
<1> DEFINE Drained == /\ queue_cur_num = 0 /\ pool_close' = TRUE
                      /\ pc' = [pc EXCEPT ![c] = "broadcast"]
           Waits == /\ queue_cur_num # 0 /\ pool_close' = pool_close
                    /\ pc' = [pc EXCEPT ![c] = "queue_empty"]
           Stays == /\ queue' = queue /\ queue_cur_num' = queue_cur_num
                    /\ freed' = freed /\ arg' = arg
                    /\ offered' = offered /\ refused' = refused /\ done' = done
<1>4. CASE DestroyRefused(c)
  BY <1>4, ClientSafe
<1>5. CASE DestroyCloses(c) \/ DestroyDrains(c)
  <2>1. /\ Drained \/ Waits
        /\ Stays
        /\ queue_close' = TRUE /\ ~pool_close /\ pool_close \in BOOLEAN
        /\ \/ pc[c] = "destroy" /\ ~queue_close
           \/ pc[c] = "drain" /\ queue_close
    <3>1. CASE DestroyCloses(c)
      BY <1>1, <3>1 DEF DestroyCloses, Drain, history, Closing, TypeOK
    <3>2. CASE DestroyDrains(c)
      BY <1>1, <3>2 DEF DestroyDrains, Drain, history, CloseInv, TypeOK
    <3> QED BY <1>5, <3>1, <3>2
  <2>2. PICK p \in {"broadcast", "queue_empty"} : pc' = [pc EXCEPT ![c] = p]
    BY <2>1
  <2>3. (\A t \in Threads : t # c => pc'[t] = pc[t]) /\ pc'[c] = p
    BY <1>1, <1>2, <2>2 DEF TypeOK
  <2>4. /\ \A w \in Workers : pc'[w] = pc[w]
        /\ \A d \in Clients : d # c => pc'[d] = pc[d]
        /\ pc'[c] = "broadcast" => queue_cur_num = 0 /\ pool_close' = TRUE
        /\ pc'[c] = "queue_empty" => queue_cur_num # 0 /\ pool_close' = FALSE
        /\ pc'[c] \in {"broadcast", "queue_empty"}
    <3>1. CASE Drained
      BY <1>1, <1>2, <2>3, <3>1 DEF TypeOK, Threads
    <3>2. CASE Waits
      BY <1>1, <1>2, <2>1, <2>3, <3>2 DEF TypeOK, Threads
    <3> QED BY <2>1, <3>1, <3>2
  <2>5. pc' \in [Threads -> WorkerPlaces \cup ClientPlaces]
    BY <1>1, <2>2 DEF TypeOK, WorkerPlaces, ClientPlaces
  <2>6. TypeOK'
    <3>1. /\ \A w \in Workers : pc'[w] \in WorkerPlaces
          /\ \A d \in Clients : pc'[d] \in ClientPlaces
      BY <1>1, <2>4 DEF TypeOK, ClientPlaces
    <3>2. queue_close' \in BOOLEAN /\ pool_close' \in BOOLEAN /\ freed' \in BOOLEAN
      BY <1>1, <2>1, <2>4 DEF TypeOK
    <3> QED BY <1>1, <2>1, <2>5, <3>1, <3>2 DEF TypeOK
  <2>7. NoLostWakeup'
    BY <1>1, <1>2, <2>1, <2>3, <2>4 DEF NoLostWakeup, Waiting, IsFull
  <2>8. CloseInv'
    <3>1. \A d \in Clients : pc[d] \in Closers => d = c
      BY <1>1, <2>1 DEF CloseInv, Closers
    <3>2. ~freed /\ \A w \in Workers : pc[w] # "exited"
      BY <1>1, <2>1 DEF CloseInv
    <3>3. \A d \in Clients : pc'[d] \in Closers => d = c
      BY <2>4, <3>1
    <3> QED BY <1>3, <2>1, <2>4, <3>2, <3>3 DEF CloseInv, Closers
  <2>9. HandInv'
    BY <1>1, <1>2, <2>1, <2>3, <2>4 DEF HandInv, Holding
  <2> QED BY <2>6, <2>7, <2>8, <2>9 DEF SafeInv
<1>6. CASE DestroyWakesAll(c)
  <2>1. /\ pc[c] = "broadcast" /\ Stays /\ pool_close' = pool_close /\ queue_close' = queue_close
        /\ pc' = [Broadcast("queue_not_empty", "get", Broadcast("queue_not_full", "add", pc))
                    EXCEPT ![c] = "join"]
    BY <1>6 DEF DestroyWakesAll, flags, history
  <2>2. /\ \A t \in Threads : t # c =>
             \/ pc'[t] = pc[t] /\ pc[t] \notin {"queue_not_empty", "queue_not_full"}
             \/ pc[t] = "queue_not_full" /\ pc'[t] = "add"
             \/ pc[t] = "queue_not_empty" /\ pc'[t] = "get"
        /\ pc'[c] = "join" /\ pc' = [t \in Threads |-> pc'[t]]
    BY <1>1, <1>2, <2>1 DEF TypeOK, Broadcast
  <2>3. /\ pc' \in [Threads -> WorkerPlaces \cup ClientPlaces]
        /\ \A w \in Workers : pc'[w] \in WorkerPlaces
        /\ \A d \in Clients : pc'[d] \in ClientPlaces
    <3>1. \A w \in Workers : pc'[w] \in WorkerPlaces
      BY <1>1, <1>2, <2>2 DEF TypeOK, Threads, WorkerPlaces, ClientPlaces
    <3>2. \A d \in Clients : pc'[d] \in ClientPlaces
      BY <1>1, <1>2, <2>2 DEF TypeOK, Threads, WorkerPlaces, ClientPlaces
    <3> QED BY <2>2, <3>1, <3>2 DEF Threads
  <2>4. TypeOK'
    BY <1>1, <2>1, <2>3 DEF TypeOK
  <2>5. NoLostWakeup'
    <3>1. \A t \in Threads : pc'[t] \notin {"queue_not_empty", "queue_not_full"}
      BY <2>2
    <3>2. \A t \in Threads : pc'[t] = "queue_empty" => pc[t] = "queue_empty"
      BY <2>2
    <3> QED BY <1>1, <2>1, <3>1, <3>2 DEF NoLostWakeup, Waiting
  <2>6. CloseInv'
    <3>1. \A d \in Clients : pc'[d] \in Closers => d = c
      BY <1>1, <2>1, <2>2 DEF CloseInv, Closers, Threads
    <3>2. /\ pool_close /\ \A w \in Workers : pc'[w] = "exited" <=> pc[w] = "exited"
      BY <1>1, <1>2, <2>1, <2>2 DEF CloseInv, Threads
    <3> QED BY <1>1, <2>1, <2>2, <3>1, <3>2 DEF CloseInv, Closers
  <2>7. HandInv'
    BY <1>1, <1>2, <2>1, <2>2 DEF HandInv, Holding
  <2> QED BY <2>4, <2>5, <2>6, <2>7 DEF SafeInv
<1>7. CASE DestroyFrees(c)
  <2>1. /\ pc[c] = "join" /\ \A w \in Workers : pc[w] = "exited"
        /\ freed' = TRUE /\ pc' = [pc EXCEPT ![c] = "idle"]
        /\ queue' = queue /\ queue_cur_num' = queue_cur_num /\ arg' = arg
        /\ pool_close' = pool_close /\ queue_close' = queue_close
        /\ offered' = offered /\ refused' = refused /\ done' = done
    BY <1>7 DEF DestroyFrees, history
  <2>2. (\A t \in Threads : t # c => pc'[t] = pc[t]) /\ pc'[c] = "idle"
    BY <1>1, <1>2, <2>1 DEF TypeOK
  <2>3. /\ pc' \in [Threads -> WorkerPlaces \cup ClientPlaces]
        /\ \A w \in Workers : pc'[w] = pc[w]
        /\ \A d \in Clients : d # c => pc'[d] = pc[d]
    BY <1>1, <1>2, <2>1, <2>2 DEF TypeOK, ClientPlaces, Threads
  <2>4. TypeOK'
    BY <1>1, <2>1, <2>2, <2>3 DEF TypeOK, ClientPlaces
  <2>5. NoLostWakeup'
    BY <1>1, <2>1, <2>2 DEF NoLostWakeup, Waiting, IsFull
  <2>6. CloseInv'
    BY <1>1, <2>1, <2>2, <2>3 DEF CloseInv, Closers
  <2>7. HandInv'
    BY <1>1, <1>2, <2>1, <2>2 DEF HandInv, Holding
  <2> QED BY <2>4, <2>5, <2>6, <2>7 DEF SafeInv
<1> QED BY <1>4, <1>5, <1>6, <1>7 DEF DestroyStep

LEMMA SpuriousSafe ==
  ASSUME SafeInv, NEW t \in Threads, SpuriousWakeup(t)
  PROVE  SafeInv'
<1>1. TypeOK /\ NoLostWakeup /\ CloseInv /\ HandInv
  BY DEF SafeInv
<1> DEFINE p == Resume(pc[t])
<1>2. /\ pc[t] \in {"queue_not_empty", "queue_not_full", "queue_empty"}
      /\ pc' = [pc EXCEPT ![t] = p]
      /\ queue' = queue /\ queue_cur_num' = queue_cur_num /\ arg' = arg /\ freed' = freed
      /\ pool_close' = pool_close /\ queue_close' = queue_close
      /\ offered' = offered /\ refused' = refused /\ done' = done
  BY DEF SpuriousWakeup, flags, history
<1>3. /\ pc[t] = "queue_not_empty" => p = "get"
      /\ pc[t] = "queue_not_full" => p = "add"
      /\ pc[t] = "queue_empty" => p = "drain"
  BY DEF Resume
<1> HIDE DEF p
<1>4. (\A s \in Threads : s # t => pc'[s] = pc[s]) /\ pc'[t] = p
  BY <1>1, <1>2 DEF TypeOK
<1>5. pc' \in [Threads -> WorkerPlaces \cup ClientPlaces]
  BY <1>1, <1>2, <1>3 DEF TypeOK, WorkerPlaces, ClientPlaces
<1>6. /\ \A w \in Workers : pc'[w] \in WorkerPlaces
      /\ \A d \in Clients : pc'[d] \in ClientPlaces
  BY <1>1, <1>2, <1>3, <1>4 DEF TypeOK, Threads, WorkerPlaces, ClientPlaces
<1>7. TypeOK'
  BY <1>1, <1>2, <1>5, <1>6 DEF TypeOK
<1>8. NoLostWakeup'
  BY <1>1, <1>2, <1>3, <1>4 DEF NoLostWakeup, Waiting, IsFull
<1>9. CloseInv'
  <2>1. \A s \in Threads : pc'[s] \in Closers <=> pc[s] \in Closers
    BY <1>2, <1>3, <1>4 DEF Closers
  <2>2. \A s \in Threads : pc'[s] \in {"exited", "broadcast", "join"} => pc'[s] = pc[s]
    BY <1>2, <1>3, <1>4
  <2>3. \A s \in Threads : pc[s] = "exited" => pc'[s] = pc[s]
    BY <1>2, <1>4
  <2>4. \A s \in Threads : pc'[s] \in {"drain", "queue_empty"} => pc[s] \in {"drain", "queue_empty"}
    BY <1>2, <1>3, <1>4
  <2> QED BY <1>1, <1>2, <2>1, <2>2, <2>3, <2>4 DEF CloseInv, Threads
<1>10. HandInv'
  BY <1>1, <1>2, <1>3, <1>4 DEF HandInv, Holding
<1> QED BY <1>7, <1>8, <1>9, <1>10 DEF SafeInv

LEMMA StepSafe == SafeInv /\ [Next]_vars => SafeInv'
<1> SUFFICES ASSUME SafeInv, [Next]_vars PROVE SafeInv'
  OBVIOUS
<1>1. CASE \E w \in Workers : WorkerStep(w)
  BY <1>1, WorkerSafe
<1>2. CASE \E c \in Clients :
             \/ \E j \in Jobs : CallAdd(c, j)
             \/ CallDestroy(c) \/ AddStep(c) \/ DestroyStep(c) \/ TouchesFreed(c)
  <2>1. PICK c \in Clients :
             \/ \E j \in Jobs : CallAdd(c, j)
             \/ CallDestroy(c) \/ AddStep(c) \/ DestroyStep(c) \/ TouchesFreed(c)
    BY <1>2
  <2> QED BY <2>1, ClientSafe, DestroySafe
<1>3. CASE \E t \in Threads : SpuriousWakeup(t)
  BY <1>3, SpuriousSafe
<1>4. CASE UNCHANGED vars
  BY <1>4
  DEF vars, flags, history, SafeInv, TypeOK, NoLostWakeup, CloseInv, HandInv, Waiting, IsFull
<1> QED BY <1>1, <1>2, <1>3, <1>4 DEF Next

(* Every reachable state of the pool is well typed, with queue_cur_num the  *)
(* length of the list and within queue_max_num (threadpool.c 97-112,        *)
(* 177-185).                                                                *)
THEOREM PoolTypeCorrect == Safety => []TypeOK
<1>1. SafeInv => TypeOK
  BY DEF SafeInv
<1> QED BY <1>1, InitSafeInv, StepSafe, PTL DEF Safety

(* No thread sleeps on a condition that holds, although add_job wakes the   *)
(* workers only when the list was empty and the workers wake the clients    *)
(* only when they leave queue_max_num - 1 jobs.                             *)
THEOREM WakeupsAreNotLost == Safety => []NoLostWakeup
<1>1. SafeInv => NoLostWakeup
  BY DEF SafeInv
<1> QED BY <1>1, InitSafeInv, StepSafe, PTL DEF Safety

-----------------------------------------------------------------------------
(* Every job offered is in one place: a hand, the list, or the history; no  *)
(* job is in two.                                                           *)
Settled == done \cup refused
OnePlace ==
  /\ \A t \in Threads : arg[t] # NoJob => arg[t] \in offered \ Settled
  /\ \A i \in 1..Len(queue) : queue[i] \in offered \ Settled
  /\ \A t \in Threads, i \in 1..Len(queue) : arg[t] # queue[i]
  /\ \A s, t \in Threads : arg[s] = arg[t] /\ arg[s] # NoJob => s = t
  /\ \A i, k \in 1..Len(queue) : queue[i] = queue[k] => i = k
NoneLost ==
  /\ Settled \subseteq offered
  /\ \A j \in offered \ Settled : Queued(j) \/ \E t \in Threads : arg[t] = j

PlaceInv == SafeInv /\ OnePlace /\ NoneLost

LEMMA InitPlaceInv == Init => PlaceInv
<1> SUFFICES ASSUME Init PROVE PlaceInv
  OBVIOUS
<1>1. Len(<< >>) = 0
  BY EmptySeq
<1>2. /\ queue = << >> /\ offered = {} /\ Settled = {}
      /\ arg = [t \in Threads |-> NoJob]
  BY DEF Init, Settled
<1>3. 1..Len(queue) = {}
  BY <1>1, <1>2
<1> QED BY <1>2, <1>3, InitSafeInv DEF PlaceInv, OnePlace, NoneLost

LEMMA StepPlace ==
  ASSUME PlaceInv, Next PROVE OnePlace' /\ NoneLost'
<1>1. SafeInv /\ TypeOK /\ HandInv /\ OnePlace /\ NoneLost
  BY DEF PlaceInv, SafeInv
<1>2. /\ arg \in [Threads -> Jobs \cup {NoJob}] /\ NoJob \notin Jobs
      /\ queue \in Seq(Jobs) /\ queue_cur_num = Len(queue) /\ Len(queue) \in Nat
  BY <1>1, EmptyFacts, PoolAssumption DEF TypeOK
<1>3. CASE UNCHANGED <<queue, arg, history>>
  BY <1>1, <1>3 DEF OnePlace, NoneLost, Settled, Queued, history
<1>4. ASSUME NEW c \in Clients, NEW j \in Jobs, CallAdd(c, j)
      PROVE  OnePlace' /\ NoneLost'
  <2>1. /\ arg[c] = NoJob /\ arg' = [arg EXCEPT ![c] = j] /\ j \notin offered
        /\ offered' = offered \cup {j} /\ Settled' = Settled /\ queue' = queue
    BY <1>1, <1>4 DEF CallAdd, HandInv, Holding, Threads, Settled
  <2>2. c \in Threads /\ arg'[c] = j /\ \A t \in Threads : t # c => arg'[t] = arg[t]
    BY <1>2, <2>1 DEF Threads
  <2>3. OnePlace'
    BY <1>1, <1>2, <2>1, <2>2 DEF OnePlace, NoneLost
  <2>4. NoneLost'
    <3>1. ASSUME NEW k \in offered' \ Settled'
          PROVE  Queued(k)' \/ \E t \in Threads : arg'[t] = k
      <4>1. CASE k = j
        BY <4>1, <2>2
      <4>2. CASE k # j
        <5>1. k \in offered \ Settled /\ k # NoJob
          BY <1>1, <1>2, <2>1, <3>1, <4>2 DEF TypeOK
        <5>2. CASE Queued(k)
          BY <5>2, <2>1 DEF Queued
        <5>3. CASE \E t \in Threads : arg[t] = k
          BY <5>1, <5>3, <2>1, <2>2
        <5> QED BY <1>1, <5>1, <5>2, <5>3 DEF NoneLost
      <4> QED BY <4>1, <4>2
    <3> QED BY <1>1, <2>1, <3>1 DEF NoneLost
  <2> QED BY <2>3, <2>4
(* A job leaves a hand for the history. *)
<1>5. ASSUME NEW t \in Threads, arg[t] \in Jobs, arg' = [arg EXCEPT ![t] = NoJob],
             Settled' = Settled \cup {arg[t]}, queue' = queue, offered' = offered
      PROVE  OnePlace' /\ NoneLost'
  <2>1. arg'[t] = NoJob /\ \A s \in Threads : s # t => arg'[s] = arg[s] /\ (arg[s] # NoJob => arg[s] # arg[t])
    BY <1>1, <1>2, <1>5 DEF OnePlace
  <2>2. \A i \in 1..Len(queue) : queue[i] # arg[t] /\ queue[i] # NoJob
    BY <1>1, <1>2, <1>5 DEF OnePlace, TypeOK
  <2>3. OnePlace'
    <3>1. \A s \in Threads : arg'[s] # NoJob => arg'[s] \in offered' \ Settled'
      BY <1>1, <1>5, <2>1 DEF OnePlace
    <3>2. \A i \in 1..Len(queue) : queue[i] \in offered' \ Settled'
      BY <1>1, <1>5, <2>2 DEF OnePlace
    <3>3. \A s \in Threads, i \in 1..Len(queue) : arg'[s] # queue[i]
      BY <1>1, <1>2, <1>5, <2>1, <2>2 DEF OnePlace
    <3>4. \A r, s \in Threads : arg'[r] = arg'[s] /\ arg'[r] # NoJob => r = s
      BY <1>1, <1>5, <2>1 DEF OnePlace
    <3> QED BY <1>1, <1>5, <3>1, <3>2, <3>3, <3>4 DEF OnePlace
  <2>4. NoneLost'
    <3>1. ASSUME NEW k \in offered' \ Settled'
          PROVE  Queued(k)' \/ \E s \in Threads : arg'[s] = k
      <4>1. k \in offered \ Settled /\ k # arg[t]
        BY <1>5, <3>1
      <4>2. CASE Queued(k)
        BY <4>2, <1>5 DEF Queued
      <4>3. CASE \E s \in Threads : arg[s] = k
        BY <4>1, <4>3, <2>1
      <4> QED BY <1>1, <4>1, <4>2, <4>3 DEF NoneLost
    <3>2. arg[t] \in offered
      BY <1>1, <1>2, <1>5 DEF OnePlace
    <3> QED BY <1>1, <1>5, <3>1, <3>2 DEF NoneLost
  <2> QED BY <2>3, <2>4
<1>6. ASSUME NEW c \in Clients, AddRefused(c)
      PROVE  OnePlace' /\ NoneLost'
  <2>1. c \in Threads /\ arg[c] \in Jobs
    BY <1>1, <1>6 DEF AddRefused, HandInv, Holding, Threads
  <2> QED BY <1>5, <1>6, <2>1 DEF AddRefused, Settled
<1>7. ASSUME NEW w \in Workers, RunJob(w)
      PROVE  OnePlace' /\ NoneLost'
  <2>1. w \in Threads /\ arg[w] \in Jobs
    BY <1>1, <1>7 DEF RunJob, HandInv, Holding, Threads
  <2> QED BY <1>5, <1>7, <2>1 DEF RunJob, Settled
<1>8. ASSUME NEW c \in Clients, AddAccepts(c)
      PROVE  OnePlace' /\ NoneLost'
  <2>1. /\ c \in Threads /\ arg[c] \in Jobs
        /\ arg' = [arg EXCEPT ![c] = NoJob] /\ queue' = Append(queue, arg[c])
        /\ Settled' = Settled /\ offered' = offered
    BY <1>1, <1>8 DEF AddAccepts, Enqueue, HandInv, Holding, Threads, Settled, history
  <2>2. /\ Len(queue') = Len(queue) + 1 /\ queue'[Len(queue) + 1] = arg[c]
        /\ \A i \in 1..Len(queue) : queue'[i] = queue[i]
    BY <1>2, <2>1, AppendFacts
  <2>3. arg'[c] = NoJob /\ \A s \in Threads : s # c => arg'[s] = arg[s] /\ (arg[s] # NoJob => arg[s] # arg[c])
    BY <1>1, <1>2, <2>1 DEF OnePlace
  <2>4. \A i \in 1..Len(queue') :
          \/ i \in 1..Len(queue) /\ queue'[i] = queue[i]
          \/ i = Len(queue) + 1 /\ queue'[i] = arg[c]
    BY <1>2, <2>2
  <2>5. \A i \in 1..Len(queue) : queue[i] # arg[c] /\ queue[i] # NoJob
    BY <1>1, <1>2, <2>1 DEF OnePlace, TypeOK
  <2>6. OnePlace'
    <3>1. \A s \in Threads : arg'[s] # NoJob => arg'[s] \in offered' \ Settled'
      BY <1>1, <2>1, <2>3 DEF OnePlace
    <3>2. \A i \in 1..Len(queue') : queue'[i] \in offered' \ Settled'
      BY <1>1, <1>2, <2>1, <2>4 DEF OnePlace
    <3>3. \A s \in Threads, i \in 1..Len(queue') : arg'[s] # queue'[i]
      BY <1>1, <1>2, <2>1, <2>3, <2>4, <2>5 DEF OnePlace
    <3>4. \A r, s \in Threads : arg'[r] = arg'[s] /\ arg'[r] # NoJob => r = s
      BY <1>1, <2>3 DEF OnePlace
    <3>5. \A i, k \in 1..Len(queue') : queue'[i] = queue'[k] => i = k
      BY <1>1, <2>4, <2>5 DEF OnePlace
    <3> QED BY <3>1, <3>2, <3>3, <3>4, <3>5 DEF OnePlace
  <2>7. NoneLost'
    <3>1. ASSUME NEW k \in offered' \ Settled'
          PROVE  Queued(k)' \/ \E s \in Threads : arg'[s] = k
      <4>1. k \in offered \ Settled
        BY <2>1, <3>1
      <4>2. CASE Queued(k)
        BY <1>2, <2>2, <4>2 DEF Queued
      <4>3. CASE k = arg[c]
        <5>1. Len(queue) + 1 \in 1..Len(queue') /\ queue'[Len(queue) + 1] = k
          BY <1>2, <2>2, <4>3
        <5> QED BY <5>1 DEF Queued
      <4>4. CASE \E s \in Threads : s # c /\ arg[s] = k
        BY <4>4, <2>3
      <4> QED BY <1>1, <4>1, <4>2, <4>3, <4>4 DEF NoneLost
    <3> QED BY <1>1, <2>1, <3>1 DEF NoneLost
  <2> QED BY <2>6, <2>7
<1>9. ASSUME NEW w \in Workers, GetTakes(w)
      PROVE  OnePlace' /\ NoneLost'
  <2> DEFINE j == queue[1]
  <2>1. /\ w \in Threads /\ arg[w] = NoJob /\ queue_cur_num # 0
        /\ Settled' = Settled /\ offered' = offered
    BY <1>1, <1>9 DEF GetTakes, HandInv, Holding, Threads, Settled, history
  <2>2. /\ Len(queue) \in Nat \ {0} /\ j \in Jobs
        /\ arg' = [arg EXCEPT ![w] = j]
        /\ Len(queue') = Len(queue) - 1
        /\ \A i \in 1..(Len(queue) - 1) : queue'[i] = queue[i + 1]
    <3>1. /\ Len(queue) \in Nat \ {0} /\ Head(queue) = j /\ j \in Jobs
          /\ Len(Tail(queue)) = Len(queue) - 1
          /\ \A i \in 1..(Len(queue) - 1) : Tail(queue)[i] = queue[i + 1]
      BY <1>2, <2>1, TailFacts
    <3>2. arg' = [arg EXCEPT ![w] = j] /\ queue' = IF queue_cur_num - 1 = 0 THEN << >> ELSE Tail(queue)
      BY <1>9, <3>1 DEF GetTakes
    <3>3. CASE queue_cur_num - 1 = 0
      <4>1. queue' = << >> /\ Len(<< >>) = 0 /\ Len(queue) = 1
        BY <1>2, <3>1, <3>2, <3>3, EmptySeq
      <4> QED BY <3>1, <3>2, <4>1
    <3>4. CASE queue_cur_num - 1 # 0
      <4>1. queue' = Tail(queue)
        BY <3>2, <3>4
      <4> QED BY <3>1, <3>2, <4>1
    <3> QED BY <3>3, <3>4
  <2> HIDE DEF j
  <2>3. /\ 1 \in 1..Len(queue) /\ j = queue[1]
        /\ \A i \in 1..Len(queue') : i + 1 \in 1..Len(queue) /\ i + 1 # 1 /\ queue'[i] = queue[i + 1]
    BY <1>2, <2>2 DEF j
  <2>4. arg'[w] = j /\ \A s \in Threads : s # w => arg'[s] = arg[s]
    BY <1>2, <2>1, <2>2
  <2>5. j \in offered \ Settled /\ \A s \in Threads : arg[s] # j
    BY <1>1, <2>3 DEF OnePlace
  <2>6. OnePlace'
    <3>1. \A s \in Threads : arg'[s] # NoJob => arg'[s] \in offered' \ Settled'
      BY <1>1, <2>1, <2>4, <2>5 DEF OnePlace
    <3>2. \A i \in 1..Len(queue') : queue'[i] \in offered' \ Settled'
      BY <1>1, <2>1, <2>3 DEF OnePlace
    <3>3. \A i \in 1..Len(queue') : queue'[i] # j
      BY <1>1, <2>3 DEF OnePlace
    <3>4. \A s \in Threads, i \in 1..Len(queue') : arg'[s] # queue'[i]
      BY <1>1, <2>3, <2>4, <3>3 DEF OnePlace
    <3>5. \A r, s \in Threads : arg'[r] = arg'[s] /\ arg'[r] # NoJob => r = s
      BY <1>1, <2>4, <2>5 DEF OnePlace
    <3>6. \A i, k \in 1..Len(queue') : queue'[i] = queue'[k] => i = k
      <4> SUFFICES ASSUME NEW i \in 1..Len(queue'), NEW k \in 1..Len(queue'), queue'[i] = queue'[k]
                   PROVE  i = k
        OBVIOUS
      <4>1. i + 1 = k + 1
        BY <1>1, <2>3 DEF OnePlace
      <4> QED BY <4>1
    <3> QED BY <3>1, <3>2, <3>4, <3>5, <3>6 DEF OnePlace
  <2>7. NoneLost'
    <3>1. ASSUME NEW k, Queued(k), k # j PROVE Queued(k)'
      <4>1. PICK i \in 1..Len(queue) : queue[i] = k
        BY <3>1 DEF Queued
      <4>2. i - 1 \in 1..Len(queue') /\ (i - 1) + 1 = i
        BY <2>2, <2>3, <3>1, <4>1
      <4>3. queue'[i - 1] = k
        BY <2>3, <4>1, <4>2
      <4> QED BY <4>2, <4>3 DEF Queued
    <3>2. ASSUME NEW k \in offered' \ Settled'
          PROVE  Queued(k)' \/ \E s \in Threads : arg'[s] = k
      <4>1. k \in offered \ Settled /\ k # NoJob
        BY <1>1, <1>2, <2>1, <3>2 DEF TypeOK
      <4>2. CASE k = j
        BY <4>2, <2>1, <2>4
      <4>3. CASE Queued(k) /\ k # j
        BY <4>3, <3>1
      <4>4. CASE \E s \in Threads : arg[s] = k
        BY <4>1, <4>4, <2>1, <2>4
      <4> QED BY <1>1, <4>1, <4>2, <4>3, <4>4 DEF NoneLost
    <3> QED BY <1>1, <2>1, <3>2 DEF NoneLost
  <2> QED BY <2>6, <2>7
<1>10. ASSUME NEW w \in Workers, WorkerStep(w) PROVE OnePlace' /\ NoneLost'
  BY <1>10, <1>3, <1>7, <1>9 DEF WorkerStep, GetWaits, GetExits
<1>11. ASSUME NEW c \in Clients, AddStep(c) PROVE OnePlace' /\ NoneLost'
  BY <1>11, <1>3, <1>6, <1>8 DEF AddStep, AddWaits
<1>12. ASSUME NEW c \in Clients, CallDestroy(c) \/ DestroyStep(c) \/ TouchesFreed(c)
       PROVE  OnePlace' /\ NoneLost'
  BY <1>12, <1>3
  DEF CallDestroy, TouchesFreed, DestroyStep, DestroyRefused, DestroyCloses, DestroyDrains,
      DestroyWakesAll, DestroyFrees
<1>13. ASSUME NEW t \in Threads, SpuriousWakeup(t) PROVE OnePlace' /\ NoneLost'
  BY <1>13, <1>3 DEF SpuriousWakeup
<1> QED BY <1>4, <1>10, <1>11, <1>12, <1>13 DEF Next

LEMMA StepPlaceInv == PlaceInv /\ [Next]_vars => PlaceInv'
<1>1. PlaceInv /\ Next => OnePlace' /\ NoneLost'
  BY StepPlace
<1>2. PlaceInv /\ UNCHANGED vars => OnePlace' /\ NoneLost'
  BY DEF PlaceInv, OnePlace, NoneLost, Settled, Queued, vars, history
<1> QED BY <1>1, <1>2, StepSafe DEF PlaceInv

(* destroy frees the pool with every accepted job done: none is lost in the *)
(* list or in the hand of a thread that was waiting when the pool closed.   *)
THEOREM NothingIsLeftBehind == Safety => []FreedWhenDrained
<1>1. ASSUME PlaceInv, freed PROVE FreedWhenDrained
  <2>1. /\ \A w \in Workers : pc[w] = "exited" /\ arg[w] = NoJob
        /\ queue = << >> /\ NoJob \notin Jobs /\ offered \subseteq Jobs
    BY <1>1, PoolAssumption
    DEF PlaceInv, SafeInv, CloseInv, HandInv, Holding, Threads, TypeOK
  <2>2. \A j : ~Queued(j)
    BY <2>1, EmptySeq DEF Queued
  <2>3. \A t \in Threads : arg[t] # NoJob => t \in Clients /\ arg[t] \in offered
    BY <1>1, <2>1 DEF PlaceInv, OnePlace, Threads
  <2>4. InHand \subseteq offered
    BY <2>3 DEF InHand, Threads
  <2>5. offered \subseteq done \cup refused \cup InHand
    BY <1>1, <2>1, <2>2, <2>3 DEF PlaceInv, NoneLost, Settled, InHand
  <2>6. done \cup refused \subseteq offered
    BY <1>1 DEF PlaceInv, NoneLost, Settled
  <2> QED BY <2>1, <2>4, <2>5, <2>6 DEF FreedWhenDrained
<1>2. PlaceInv => FreedWhenDrained
  BY <1>1 DEF FreedWhenDrained
<1> QED BY <1>2, InitPlaceInv, StepPlaceInv, PTL DEF Safety

-----------------------------------------------------------------------------
(* The pool implements JobPool: a worker that is not running a job leaves   *)
(* room for one more.                                                       *)

LEMMA RoomForOne ==
  ASSUME PlaceInv, NEW w \in Workers, pc[w] # "run"
  PROVE  Cardinality(Running) < Cardinality(Workers)
<1> DEFINE f == [v \in Runners |-> arg[v]]
<1>1. f \in Surjection(Runners, Running)
  BY DEF Surjection, Running
<1>2. /\ IsFiniteSet(Workers \ {w})
      /\ Cardinality(Workers \ {w}) = Cardinality(Workers) - 1
      /\ Cardinality(Workers) \in Nat
  BY FS_RemoveElement, FS_CardinalityType, PoolAssumption
<1>3. Runners \in SUBSET (Workers \ {w})
  BY DEF Runners
<1>4. IsFiniteSet(Runners) /\ Cardinality(Runners) <= Cardinality(Workers) - 1
  BY <1>2, <1>3, FS_Subset
<1>5. IsFiniteSet(Running) /\ Cardinality(Running) <= Cardinality(Runners)
  BY <1>1, <1>4, FS_Surjection
<1>6. Cardinality(Running) \in Nat /\ Cardinality(Runners) \in Nat
  BY <1>4, <1>5, FS_CardinalityType
<1> QED BY <1>2, <1>4, <1>5, <1>6

(* Steps that start and finish no job leave the set of running jobs alone.  *)
LEMMA SameRunning ==
  ASSUME \A v \in Workers : pc'[v] = "run" <=> pc[v] = "run",
         \A v \in Workers : pc[v] = "run" => arg'[v] = arg[v]
  PROVE  Running' = Running
BY DEF Running, Runners

LEMMA StepPool ==
  ASSUME PlaceInv, Next
  PROVE  \/ Promise!Start
         \/ \E j \in Jobs : Promise!Accept(j) \/ Promise!Finish(j)
         \/ UNCHANGED <<queue, Running, done>>
<1>1. /\ TypeOK /\ HandInv /\ OnePlace
      /\ Workers \cap Clients = {} /\ Workers \subseteq Threads /\ Clients \subseteq Threads
      /\ pc \in [Threads -> WorkerPlaces \cup ClientPlaces]
      /\ arg \in [Threads -> Jobs \cup {NoJob}] /\ NoJob \notin Jobs
      /\ queue \in Seq(Jobs) /\ queue_cur_num = Len(queue) /\ queue_cur_num <= Max
      /\ Len(queue) \in Nat
  BY EmptyFacts, PoolAssumption DEF PlaceInv, SafeInv, TypeOK, Threads
<1>2. \A v \in Workers : pc[v] = "run" => arg[v] \in Jobs /\ arg[v] # NoJob
  BY <1>1 DEF HandInv, Holding
<1>3. ASSUME NEW c \in Clients, AddAccepts(c) PROVE \E j \in Jobs : Promise!Accept(j)
  <2>1. /\ pc[c] = "add" /\ queue_cur_num # Max
        /\ queue' = Append(queue, arg[c]) /\ done' = done
        /\ pc' = WakeWorkers([pc EXCEPT ![c] = "idle"])
        /\ arg' = [arg EXCEPT ![c] = NoJob]
    BY <1>3 DEF AddAccepts, Enqueue, history, IsFull
  <2>2. arg[c] \in Jobs /\ c \notin Workers
    BY <1>1, <2>1 DEF HandInv, Holding
  <2>3. \A v \in Workers : (pc'[v] = "run" <=> pc[v] = "run") /\ arg'[v] = arg[v]
    BY <1>1, <2>1, <2>2 DEF WakeWorkers, Broadcast
  <2>4. Running' = Running
    BY <2>3, SameRunning
  <2>5. arg[c] \notin Running \cup done \cup {queue[i] : i \in 1..Len(queue)}
    BY <1>1, <2>2 DEF OnePlace, Running, Runners, Settled
  <2>6. Len(queue) < Max
    BY <1>1, <2>1, PoolAssumption
  <2>7. Promise!Accept(arg[c])
    BY <2>1, <2>4, <2>5, <2>6 DEF Promise!Accept
  <2> QED BY <2>2, <2>7
<1>4. ASSUME NEW w \in Workers, GetTakes(w) PROVE Promise!Start
  <2> DEFINE n == queue_cur_num - 1
             f == [pc EXCEPT ![w] = "run"]
  <2>1. /\ pc[w] = "get" /\ queue_cur_num # 0
        /\ queue' = IF n = 0 THEN << >> ELSE Tail(queue)
        /\ arg' = [arg EXCEPT ![w] = Head(queue)] /\ done' = done
        /\ pc' = WakeClients(n, WakeCloser(n, f))
    BY <1>4 DEF GetTakes, history
  <2>2. queue # << >> /\ Len(Tail(queue)) = Len(queue) - 1 /\ Tail(queue) \in Seq(Jobs)
    BY <1>1, <2>1, TailFacts
  <2>3. queue' = Tail(queue)
    <3>1. n = 0 => Tail(queue) = << >>
      BY <1>1, <2>2, EmptyFacts
    <3> QED BY <2>1, <3>1
  <2>4. /\ \A v \in Workers : v # w => (pc'[v] = "run" <=> pc[v] = "run") /\ arg'[v] = arg[v]
        /\ pc'[w] = "run" /\ arg'[w] = Head(queue)
    <3> DEFINE g == WakeCloser(n, f)
    <3>1. /\ f[w] = "run"
          /\ \A v \in Workers : v # w => (f[v] = "run" <=> pc[v] = "run")
      BY <1>1
    <3>2. /\ g[w] = "run"
          /\ \A v \in Workers : v # w => (g[v] = "run" <=> pc[v] = "run")
      BY <1>1, <2>1, <3>1 DEF WakeCloser, Broadcast
    <3>3. pc' = WakeClients(n, g)
      BY <2>1
    <3> HIDE DEF g, f, n
    <3>4. CASE pc' = g
      BY <1>1, <2>1, <3>2, <3>4
    <3>5. CASE pc' = Broadcast("queue_not_full", "add", g)
      BY <1>1, <2>1, <3>2, <3>5 DEF Broadcast
    <3>6. pc' = g \/ pc' = Broadcast("queue_not_full", "add", g)
      BY <3>3 DEF WakeClients
    <3> QED BY <3>4, <3>5, <3>6
  <2>5. Running' = Running \cup {Head(queue)}
    <3> HIDE DEF n, f
    <3>1. Runners' = Runners \cup {w} /\ w \notin Runners
      BY <2>1, <2>4 DEF Runners
    <3>2. \A v \in Runners : v # w /\ arg'[v] = arg[v]
      BY <2>4, <3>1 DEF Runners
    <3> QED BY <2>4, <3>1, <3>2 DEF Running
  <2>6. Cardinality(Running) < Cardinality(Workers)
    BY <2>1, RoomForOne
  <2>7. queue # << >> /\ done' = done
    BY <2>1, <2>2
  <2>8. Promise!Cardinality(Running) = Cardinality(Running)
    BY DEF Promise!Cardinality, Cardinality
  <2> QED BY <2>3, <2>5, <2>6, <2>7, <2>8 DEF Promise!Start
<1>5. ASSUME NEW w \in Workers, RunJob(w) PROVE \E j \in Jobs : Promise!Finish(j)
  <2>1. /\ pc[w] = "run" /\ pc' = [pc EXCEPT ![w] = "get"]
        /\ arg' = [arg EXCEPT ![w] = NoJob]
        /\ done' = done \cup {arg[w]} /\ queue' = queue
    BY <1>5 DEF RunJob
  <2>2. /\ arg[w] \in Jobs /\ arg[w] # NoJob
        /\ \A v \in Workers : pc[v] = "run" /\ v # w => arg[v] # arg[w]
    BY <1>1, <1>2, <2>1 DEF OnePlace
  <2>3. /\ Runners' = Runners \ {w} /\ w \in Runners
        /\ \A v \in Runners : v # w => arg'[v] = arg[v] /\ arg[v] # arg[w]
    BY <1>1, <2>1, <2>2 DEF Runners
  <2>4. Running' = Running \ {arg[w]} /\ arg[w] \in Running
    BY <2>3 DEF Running
  <2>5. PICK j \in Jobs : j = arg[w]
    BY <2>2
  <2>6. Promise!Finish(j)
    BY <2>1, <2>4, <2>5 DEF Promise!Finish
  <2> QED BY <2>6
(* The other steps. *)
<1>6. ASSUME queue' = queue, done' = done, NEW t \in Threads, NEW p, p # "run",
             pc[t] # "run", pc' = [pc EXCEPT ![t] = p],
             \A v \in Workers : v # t => arg'[v] = arg[v]
      PROVE  UNCHANGED <<queue, Running, done>>
  <2>1. \A v \in Workers : (pc'[v] = "run" <=> pc[v] = "run")
    BY <1>1, <1>6
  <2>2. \A v \in Workers : pc[v] = "run" => arg'[v] = arg[v]
    BY <1>6
  <2> QED BY <1>6, <2>1, <2>2, SameRunning
<1>7. ASSUME NEW w \in Workers, GetWaits(w) \/ GetExits(w)
      PROVE  UNCHANGED <<queue, Running, done>>
  BY <1>7, <1>1, <1>6 DEF GetWaits, GetExits, history
<1>8. ASSUME NEW c \in Clients,
             \/ \E j \in Jobs : CallAdd(c, j)
             \/ AddRefused(c)
      PROVE  UNCHANGED <<queue, Running, done>>
  <2>1. \A v \in Workers : v # c
    BY <1>1
  <2>2. \A v \in Workers : arg'[v] = arg[v]
    BY <1>1, <1>8, <2>1 DEF CallAdd, AddRefused
  <2> QED BY <1>1, <1>6, <1>8, <2>2 DEF CallAdd, AddRefused
<1>9. ASSUME NEW c \in Clients,
             \/ AddWaits(c) \/ CallDestroy(c) \/ DestroyRefused(c) \/ DestroyCloses(c)
             \/ DestroyDrains(c) \/ DestroyFrees(c) \/ TouchesFreed(c)
      PROVE  UNCHANGED <<queue, Running, done>>
  BY <1>1, <1>6, <1>9
  DEF AddWaits, CallDestroy, DestroyRefused, DestroyCloses, DestroyDrains, Drain,
      DestroyFrees, TouchesFreed, history
<1>10. ASSUME NEW c \in Clients, DestroyWakesAll(c)
       PROVE  UNCHANGED <<queue, Running, done>>
  <2>1. \A v \in Workers : v # c
    BY <1>1
  <2>2. \A v \in Workers : (pc'[v] = "run" <=> pc[v] = "run") /\ arg'[v] = arg[v]
    BY <1>1, <1>10, <2>1 DEF DestroyWakesAll, Broadcast
  <2> QED BY <1>10, <2>2, SameRunning DEF DestroyWakesAll, history
<1>11. ASSUME NEW t \in Threads, SpuriousWakeup(t)
       PROVE  UNCHANGED <<queue, Running, done>>
  BY <1>6, <1>11 DEF SpuriousWakeup, Resume, history
<1> QED
  BY <1>3, <1>4, <1>5, <1>7, <1>8, <1>9, <1>10, <1>11
  DEF Next, WorkerStep, AddStep, DestroyStep

(* Whatever the clients call and whoever is woken, accepted jobs start in   *)
(* order, once each, at most Max wait and at most Workers run.              *)
THEOREM ImplementsPool == Safety => KeepsPromiseSafely
<1>1. Init => Promise!Init
  <2> SUFFICES ASSUME Init PROVE Promise!Init
    OBVIOUS
  <2>1. \A w \in Workers : pc[w] = "get"
    BY DEF Init, Threads
  <2>2. Running = {}
    BY <2>1 DEF Running, Runners
  <2> QED BY <2>2 DEF Init, Promise!Init
<1>2. PlaceInv /\ [Next]_vars => [Promise!Next]_(Promise!poolVars)
  <2>1. PlaceInv /\ Next => Promise!Next \/ UNCHANGED <<queue, Running, done>>
    BY StepPool DEF Promise!Next
  <2>2. UNCHANGED vars => UNCHANGED <<queue, Running, done>>
    BY DEF vars, history, Running, Runners
  <2> QED BY <2>1, <2>2 DEF Promise!poolVars
<1> QED
  BY <1>1, <1>2, InitPlaceInv, StepPlaceInv, PTL
  DEF Safety, KeepsPromiseSafely, Promise!Safety

=============================================================================
