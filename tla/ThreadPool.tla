----------------------------- MODULE ThreadPool -----------------------------
(***************************************************************************)
(* Sudp/threadpool.c: a bounded queue of jobs behind one mutex and three   *)
(* condition variables.  An action is one critical section, from the lock  *)
(* (or the return of pthread_cond_wait) to the unlock (or the next wait):  *)
(* the code touches the pool only while it holds the mutex, except for the *)
(* broadcasts and joins of threadpool_destroy, which are actions of their  *)
(* own.  Wake-ups may be spurious, malloc may fail, and any client thread  *)
(* may call threadpool_destroy.                                            *)
(***************************************************************************)
EXTENDS Naturals, Sequences, FiniteSets

CONSTANTS
  Workers,    \* threads of the pool
  Clients,    \* threads that call add_job and destroy
  Jobs,       \* jobs, each offered at most once (bound)
  NoJob,      \* pjob == NULL
  Max         \* queue_max_num

ASSUME PoolAssumption ==
  /\ Workers \cap Clients = {}
  /\ IsFiniteSet(Workers)
  /\ NoJob \notin Jobs
  /\ Max \in Nat \ {0}

VARIABLES
  queue,          \* the list from head to tail
  queue_cur_num,
  queue_close, pool_close,
  freed,          \* destroy has freed the pool
  pc,             \* each thread's place; the name of a condition: it waits there
  arg,            \* the job a client offers or a worker has taken
  offered,        \* history: jobs given to add_job
  refused,        \* history: jobs add_job returned -1 for
  done            \* history: jobs whose function has returned

flags == <<queue_close, pool_close, freed>>
history == <<offered, refused, done>>
vars == <<queue, queue_cur_num, flags, pc, arg, history>>

Threads == Workers \cup Clients
Closing == queue_close \/ pool_close

Waiting(cond) == {t \in Threads : pc[t] = cond}
Broadcast(cond, resume, f) == [t \in Threads |-> IF pc[t] = cond THEN resume ELSE f[t]]

Init ==
  /\ queue = << >> /\ queue_cur_num = 0
  /\ queue_close = FALSE /\ pool_close = FALSE /\ freed = FALSE
  /\ pc = [t \in Threads |-> IF t \in Workers THEN "get" ELSE "idle"]
  /\ arg = [t \in Threads |-> NoJob]
  /\ offered = {} /\ refused = {} /\ done = {}

-----------------------------------------------------------------------------
(* threadpool_add_job                                                       *)

CallAdd(c, j) ==
  /\ pc[c] = "idle" /\ ~freed /\ j \notin offered
  /\ pc' = [pc EXCEPT ![c] = "add"]
  /\ arg' = [arg EXCEPT ![c] = j]
  /\ offered' = offered \cup {j}
  /\ UNCHANGED <<queue, queue_cur_num, flags, refused, done>>

(* Mutation IsFullPast: the limit is one too high.                          *)
IsFullPast == queue_cur_num > Max
IsFull == queue_cur_num = Max

AddWaits(c) ==
  /\ pc[c] = "add" /\ ~freed /\ IsFull /\ ~Closing
  /\ pc' = [pc EXCEPT ![c] = "queue_not_full"]
  /\ UNCHANGED <<queue, queue_cur_num, flags, arg, history>>

(* The pool is closing, or there is no memory for the job.                  *)
AddRefused(c) ==
  /\ pc[c] = "add" /\ ~freed /\ (IsFull => Closing)
  /\ pc' = [pc EXCEPT ![c] = "idle"]
  /\ arg' = [arg EXCEPT ![c] = NoJob]
  /\ refused' = refused \cup {arg[c]}
  /\ UNCHANGED <<queue, queue_cur_num, flags, offered, done>>

(* The workers are woken only when the list was empty.                      *)
(* Mutation WakeOne: pthread_cond_signal instead of the broadcast.          *)
WakeOne(f) ==
  IF queue = << >> /\ Waiting("queue_not_empty") # {}
  THEN [f EXCEPT ![CHOOSE w \in Waiting("queue_not_empty") : TRUE] = "get"]
  ELSE f
WakeWorkers(f) == IF queue = << >> THEN Broadcast("queue_not_empty", "get", f) ELSE f

(* Mutation EnqueueInFront: the job is linked in at the head.               *)
EnqueueInFront(j) == <<j>> \o queue
Enqueue(j) == Append(queue, j)

AddAccepts(c) ==
  /\ pc[c] = "add" /\ ~freed /\ ~IsFull /\ ~Closing
  /\ queue' = Enqueue(arg[c])
  /\ queue_cur_num' = queue_cur_num + 1
  /\ pc' = WakeWorkers([pc EXCEPT ![c] = "idle"])
  /\ arg' = [arg EXCEPT ![c] = NoJob]
  /\ UNCHANGED <<flags, history>>

-----------------------------------------------------------------------------
(* threadpool_function                                                      *)

GetWaits(w) ==
  /\ pc[w] = "get" /\ queue_cur_num = 0 /\ ~pool_close
  /\ pc' = [pc EXCEPT ![w] = "queue_not_empty"]
  /\ UNCHANGED <<queue, queue_cur_num, flags, arg, history>>

GetExits(w) ==
  /\ pc[w] = "get" /\ pool_close
  /\ pc' = [pc EXCEPT ![w] = "exited"]
  /\ UNCHANGED <<queue, queue_cur_num, flags, arg, history>>

(* pthread_cond_signal(queue_empty) has at most one waiter to wake: only    *)
(* the first destroy waits there.                                           *)
WakeCloser(n, f) == IF n = 0 THEN Broadcast("queue_empty", "drain", f) ELSE f

(* Mutation WakeClientsAtMax: the comparison misses the - 1.                *)
WakeClientsAtMax(n, f) ==
  IF n = Max THEN Broadcast("queue_not_full", "add", f) ELSE f
WakeClients(n, f) ==
  IF n = Max - 1 THEN Broadcast("queue_not_full", "add", f) ELSE f

GetTakes(w) ==
  LET n == queue_cur_num - 1 IN
  /\ pc[w] = "get" /\ queue_cur_num # 0 /\ ~pool_close
  /\ queue_cur_num' = n
  /\ arg' = [arg EXCEPT ![w] = Head(queue)]
  /\ queue' = IF n = 0 THEN << >> ELSE Tail(queue)
  /\ pc' = WakeClients(n, WakeCloser(n, [pc EXCEPT ![w] = "run"]))
  /\ UNCHANGED <<flags, history>>

RunJob(w) ==
  /\ pc[w] = "run"
  /\ pc' = [pc EXCEPT ![w] = "get"]
  /\ arg' = [arg EXCEPT ![w] = NoJob]
  /\ done' = done \cup {arg[w]}
  /\ UNCHANGED <<queue, queue_cur_num, flags, offered, refused>>

-----------------------------------------------------------------------------
(* threadpool_destroy                                                       *)

CallDestroy(c) ==
  /\ pc[c] = "idle" /\ ~freed
  /\ pc' = [pc EXCEPT ![c] = "destroy"]
  /\ UNCHANGED <<queue, queue_cur_num, flags, arg, history>>

DestroyRefused(c) ==
  /\ pc[c] = "destroy" /\ ~freed /\ Closing
  /\ pc' = [pc EXCEPT ![c] = "idle"]
  /\ UNCHANGED <<queue, queue_cur_num, flags, arg, history>>

(* Mutation DrainNot: destroy does not wait for the queue to empty.         *)
DrainNot(c) ==
  /\ pc' = [pc EXCEPT ![c] = "broadcast"]
  /\ pool_close' = TRUE
Drain(c) ==
  \/ /\ queue_cur_num # 0
     /\ pc' = [pc EXCEPT ![c] = "queue_empty"]
     /\ UNCHANGED pool_close
  \/ /\ queue_cur_num = 0
     /\ pc' = [pc EXCEPT ![c] = "broadcast"]
     /\ pool_close' = TRUE

DestroyCloses(c) ==
  /\ pc[c] = "destroy" /\ ~freed /\ ~Closing
  /\ queue_close' = TRUE
  /\ Drain(c)
  /\ UNCHANGED <<queue, queue_cur_num, freed, arg, history>>

DestroyDrains(c) ==
  /\ pc[c] = "drain"
  /\ Drain(c)
  /\ UNCHANGED <<queue, queue_cur_num, queue_close, freed, arg, history>>

DestroyWakesAll(c) ==
  /\ pc[c] = "broadcast"
  /\ pc' = [Broadcast("queue_not_empty", "get", Broadcast("queue_not_full", "add", pc))
              EXCEPT ![c] = "join"]
  /\ UNCHANGED <<queue, queue_cur_num, flags, arg, history>>

DestroyFrees(c) ==
  /\ pc[c] = "join" /\ \A w \in Workers : pc[w] = "exited"
  /\ freed' = TRUE
  /\ pc' = [pc EXCEPT ![c] = "idle"]
  /\ UNCHANGED <<queue, queue_cur_num, queue_close, pool_close, arg, history>>

-----------------------------------------------------------------------------
(* A client that was still on its way into the pool locks a mutex that is   *)
(* gone: the behaviour is undefined and the thread is taken out.            *)
TouchesFreed(c) ==
  /\ pc[c] \in {"add", "destroy"} /\ freed
  /\ pc' = [pc EXCEPT ![c] = "undefined"]
  /\ UNCHANGED <<queue, queue_cur_num, flags, arg, history>>

(* pthread_cond_wait may return without a signal.                           *)
Resume(cond) ==
  CASE cond = "queue_not_empty" -> "get"
    [] cond = "queue_not_full" -> "add"
    [] OTHER -> "drain"

SpuriousWakeup(t) ==
  /\ pc[t] \in {"queue_not_empty", "queue_not_full", "queue_empty"}
  /\ pc' = [pc EXCEPT ![t] = Resume(pc[t])]
  /\ UNCHANGED <<queue, queue_cur_num, flags, arg, history>>

WorkerStep(w) == GetWaits(w) \/ GetExits(w) \/ GetTakes(w) \/ RunJob(w)

AddStep(c) == AddWaits(c) \/ AddRefused(c) \/ AddAccepts(c)

DestroyStep(c) ==
  \/ DestroyRefused(c) \/ DestroyCloses(c) \/ DestroyDrains(c)
  \/ DestroyWakesAll(c) \/ DestroyFrees(c)

Next ==
  \/ \E w \in Workers : WorkerStep(w)
  \/ \E c \in Clients :
       \/ \E j \in Jobs : CallAdd(c, j)
       \/ CallDestroy(c) \/ AddStep(c) \/ DestroyStep(c) \/ TouchesFreed(c)
  \/ \E t \in Threads : SpuriousWakeup(t)

(* The kernel runs every thread and grants every mutex in the end; nobody   *)
(* has to call add_job or destroy, and no wake-up has to be spurious.       *)
Fairness ==
  /\ \A w \in Workers : WF_vars(WorkerStep(w))
  /\ \A c \in Clients : WF_vars(AddStep(c)) /\ WF_vars(DestroyStep(c))

Safety == Init /\ [][Next]_vars
Spec == Safety /\ Fairness

-----------------------------------------------------------------------------
WorkerPlaces == {"get", "queue_not_empty", "run", "exited"}
ClientPlaces == {"idle", "add", "queue_not_full", "destroy", "drain", "queue_empty",
                 "broadcast", "join", "undefined"}

(* Types, with queue_cur_num the length of the list and within the limit.   *)
TypeOK ==
  /\ queue \in Seq(Jobs) /\ queue_cur_num = Len(queue) /\ queue_cur_num <= Max
  /\ queue_close \in BOOLEAN /\ pool_close \in BOOLEAN /\ freed \in BOOLEAN
  /\ pc \in [Threads -> WorkerPlaces \cup ClientPlaces]
  /\ \A w \in Workers : pc[w] \in WorkerPlaces
  /\ \A c \in Clients : pc[c] \in ClientPlaces
  /\ arg \in [Threads -> Jobs \cup {NoJob}]
  /\ offered \subseteq Jobs /\ refused \subseteq Jobs /\ done \subseteq Jobs

(* No wake-up is lost: nobody sleeps on a condition that holds.  add_job    *)
(* broadcasts only when the list was empty, the workers only when they leave *)
(* Max - 1 jobs, and that is enough (threadpool.c 100-104, 187-195).        *)
NoLostWakeup ==
  /\ Waiting("queue_not_empty") # {} => queue = << >>
  /\ Waiting("queue_not_full") # {} => IsFull
  /\ Waiting("queue_empty") # {} => ~(queue_cur_num = 0)

(* destroy frees the pool only when every job add_job has accepted is done  *)
(* and no worker is left in it (threadpool.c 128-143).                      *)
InHand == {arg[c] : c \in Clients} \ {NoJob}
FreedWhenDrained ==
  freed => /\ offered = done \cup refused \cup InHand
           /\ \A w \in Workers : pc[w] = "exited"

(* The pool keeps the promise of JobPool: accepted jobs start in order,     *)
(* once each, and are done in the end, with a destroy at any time.          *)
Runners == {w \in Workers : pc[w] = "run"}
Running == {arg[w] : w \in Runners}
Promise == INSTANCE JobPool WITH
  Threads <- Cardinality(Workers), waiting <- queue, running <- Running
KeepsPromise == Promise!Spec
KeepsPromiseSafely == Promise!Safety

(* Every add_job and every destroy returns, unless the pool is freed under  *)
(* the caller.                                                              *)
CallsReturn ==
  \A c \in Clients :
    /\ pc[c] = "add" ~> pc[c] = "idle" \/ freed
    /\ pc[c] = "destroy" ~> pc[c] = "idle" \/ freed

=============================================================================
