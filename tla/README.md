# A verification project for udp-file-proxy

udp-file-proxy moves files from one host to another over UDP. It is three
programs in two directories:

* `src/udp-file-proxy` runs as a **client** (`mode=CLIENT`) beside the senders,
  or as a **server** (`mode=SERVER`) beside the receivers. Applications
  (a Java program, the scripts in `src/TTst`) talk to either over TCP.
* `src/Sudp` is the **receiver**: the server forks one Sudp process for each
  application registered with it.

The project consists of TLA+ modules translated from that code, TLC
configurations that check them on small instances, and proofs checked by
TLAPS for every value of the constants. `PROJECT.json` has, for each
definition, the lines it stands for.

## 1. Inventory

| Component | State it keeps | Operations | Module |
|---|---|---|---|
| `SendPack_ex` (Cudp.cpp) | position in the file, packet number, current grant | read, number, `Sendto`, pace | `PacketStream`, `FileTransfer`, `SpeedManger` |
| `file_thread` and `SendList` (Cudp.cpp, proxy_client.cpp) | list of queued files (in, out, per), count, `S_IDLE`/`S_BUSY` | `append_file`, `get_stat`, `get_next`, send, delete | `SendList` (promise: `FileQueue`) |
| `SpeedManger` (proxy_client.cpp) | `current_speed` of `max_speed` | `query_speed`, `return_speed` | `SpeedManger` |
| Sudp main loop (Sudp.c) | the datagram in hand, the System V queue | `recvfrom`, `msgsnd` | `Sudp` |
| `File_Process` (thread_process.c) | expected number, packets saved, header, `save_path`, open file | `msgrcv`, open, write, complete, give up | `Sudp` |
| `Recv_Finish` and file_helper | the name it read, files in dir1 and dir2 | rename or copy and unlink, notify | `Sudp` |
| thread pool (threadpool.c) | job list, count, two flags, three condition variables | `add_job`, worker loop, `destroy` | `ThreadPool` (promise: `JobPool`) |
| start and end of a Sudp (Sudp.c) | `mqid`, `mqid_save`, the queues of the host | `main` up to the loop, `signal_func`, `my_exit1` | `SudpProcesses` |
| `ProxyServer` (proxy_server.cpp) | `mp_app`: name to pid; child processes | register (fork), delete (kill), `sig_chld` | `ProxyServer` |
| `ProxyClient` (proxy_client.cpp) | linked list of applications, their threads | `Add_App`, `Del_App`, `Add_Send_File` | `ProxyClient` (promise: `AppRegistry`) |
| `ListenManager` and both `handler_msg_c` (proxy_manager.cpp) | TCP connections, their unread bytes, descriptors | accept, read a command, answer, close, stop | `ControlChannel` |
| configuration and start-up (config.cpp, udp-file-proxy.cpp) | `g_conf`, the mode, `errno` | load a line, parse a command, look up a text or a number, `main` | `Settings`, `ControlChannel` |
| logging, wrappers, directory browser | | | not modelled, see 7 |

How they interact. An application sends `CMD_ADD_FILE` to the client; the
libevent thread appends to the application's `SendList`; the application's
`file_thread` takes the file, `SendPack_ex` asks `SpeedManger` for a share and
sends numbered datagrams. In the Sudp process the main thread puts each datagram
in a System V queue with its number as the message type; `File_Process`
takes messages by number and writes them; a complete file becomes a job in the
thread pool; `Recv_Finish` moves it from dir1 to dir2 if asked and sends its
path to the application's notification port. The server's only thread runs
requests from libevent and is interrupted by `sig_chld` when a Sudp ends. All Sudps
share the message queues of the host, which any of them can remove by its id.

What is hard, and what makes each part correct:

* **Transfer.** Datagrams are lost; sends and disks fail; the queue fills and the
  pool fills behind it; one path buffer is shared by the writer and every job.
  Correct: only whole files are complete, each is completed once and in order, an
  application is told of a path only when the whole file is there.
* **Pool.** Three condition variables, conditional wake-ups, a `destroy` that
  races with everything. Correct: nobody sleeps on a true condition,
  accepted jobs run once and in order, all calls return.
* **Send list.** Two threads over one hand-linked list. Correct: all the
  pointers, the count and the state agree; the sender never sees an empty list
  as busy.
* **Client.** Requests in any order over a hand-linked list, threads that are
  started, cancelled or fail to start. Correct: each answer is true of the list,
  threads and list agree, a failure costs one application at most.
* **Budget.** Many senders, integer halves, a margin, cancellation. Correct: never
  overdrawn, no grant negative or zero, nothing lost.
* **Server.** A signal handler between any two steps, coalesced signals, reused
  pids. Correct: registry and processes agree.
* **Control channel.** TCP cuts and joins commands, the framing has no state to put
  them together again, `errno` outlives a command, a missing body throws, a
  missing descriptor ends the program, and its Sudps outlive it. Correct:
  pieces of commands do nothing, a command does what its fields say whatever came
  before it, descriptors are accounted for, no Sudp is beyond the server's reach.
* **Start and end of a Sudp.** A SIGTERM at any point of the start, a start that
  fails, ids of queues all processes share. Correct: each removes its own queue,
  and no other.

`PROJECT.json` lists the hazards line by line, with the properties that
catch them or why none does yet.

## 2. Modules

* `PacketStream` (constants): the files as a stream of packets. A packet is its
  position in `Stream`; `Xfer`, `Nu` are its header fields. The
  assumption is what `SendPack_ex` produces when nothing fails.
* `Sudp`: the receiver process. Threads: `Recvfrom`/`Msgsnd` (main),
  `PollHit`, `PollMiss`, `BlockingRecv`, `SetPath`, `OpenFile`, `CompleteFile`,
  `AbandonFile`, `ContinueFile`, `PostJob`, `DiskError` (File_Process), and
  `TakeJob`, `ReadPath`, `RenameFile`, `RenameDirectory`, `CopyFile`,
  `UnlinkSource`, `MoveFails`, `Notify` (each pool thread). `MoveFails` is a move without
  a source; a move whose source is there fails by a fault of the disks: `RenameBreaks`
  (a copy takes its place), `OpenBreaks`, `CopyBreaks` (after any part of the file),
  `UnlinkBreaks`. `Recv_Finish` looks at none of them; the place "failed" is its place "notify",
  kept apart for what the properties say. `save_path` is
  rewritten in two steps (`sprintf`, then `strcat`), as a pool thread can see it.
  `fp` says where the open file is now, because a rename under an open stream
  moves the stream along.
* `FileTransfer`: `Sudp` composed with the sender and the network, and
  four kinds of fault (`Lose`, `SendFails`, `DiskFails`, `MoveFaults`), `MaxFaults` in all.
  `Paced` says whether a file is queued only when the last one is dealt
  with. It has `ReliableSpec` (no fault) and `FaultySpec`.
* `FileDelivery`: the abstract promise, "the queued files arrive, in order".
  `FileTransfer` implements it with `delivered <- Len(finished)`.
* `ThreadPool`: one action per critical section. `pc[t]` holds the
  name of the condition variable a thread waits on. `TouchesFreed` takes out a
  client that enters a pool already freed. `JobPool` is its promise, with
  `waiting <- queue` and `running <-` the jobs the workers hold.
* `SendList`: each method is an action, each call of `file_thread` another.
  Node addresses are reused after `delete` and lost when a send fails
  (the brace of `if(ret==0)` in Cudp.cpp encloses `delete data`). `nodes`
  is a history variable: the chain as it should be. `FileQueue` is the promise.
* `ProxyClient`: the list of applications. A request is the only one that runs
  (libevent has one thread) and its steps are those of its walk: `Register`,
  `AddWalks`, `AddLinks`, `Creates`; `Delete`, `DelWalks`, `DelFound`; `AddFile`,
  `FileWalks`, `FileQueued`; and the refusals. Between them the `file_thread`s
  move: `ThreadStarts`, `TakesFile`, `DealsWithFile`, `Dies`, `SocketFails`.
  `apps` is a history variable, the registered applications in order.
  The list of files of an application is its promise, a bounded queue: `SendList`
  is shown to keep `FileQueue`. `AppRegistry` is the promise of the whole: the
  answer to each command is true of one set of names with a queue each, and
  only requests and senders change it.
* `SpeedManger`: the budget, for each `max_speed` main accepts: `base_speed` stays
  what it is, so a grant can be negative. A zero grant sets `crashed` (SIGFPE).
* `ProxyServer`: registration is `Register`, `Fork`, `Insert`, `Number`;
  deletion `Delete`, `EraseApp`, `Kill`; the handler `Deliver`, `Wait` (or
  `WaitsForNobody`, when there is no child), `DelPid`. While the handler runs no other step of the server is
  possible. `broken` records the use of an iterator whose entry has gone,
  after which the server's steps stop: the code's behaviour is undefined.
* `SudpProcesses`: `ProxyServer` composed with the processes it forks. `stage[p]`
  is how far `main` of process p has come: `SetsUp`, `Msgget`, `Saves` move it on;
  `Terminates` (SIGTERM), `StartFails`, `ServeFails` end it by `exit` and so by
  `my_exit1`, `Crashes` without. `ForksSudp` and `Reaps` are `Fork` and `Wait` of
  `ProxyServer`; its other steps leave these variables alone. Every step is one of
  `ProxyServer` or leaves its variables unchanged (proved, see 5).
* `Settings`: key=value texts, byte by byte. `AnalyseLine` keeps the code's
  arithmetic with `end_pos`. `Ends` are the places where a field of a body stops and
  `Field` is the one that stops there, so `CONF_prase_line` is a fold over `Ends`;
  `CString` cuts a body at its first NUL. A table
  has the keys somebody asks for. `errno` is an argument, because
  `CONF_get_number` looks at what an earlier call has left there. `Numerals` and
  `Oversized` are the texts `atoi` reads as a number and those it finds out of range.
* `ControlChannel`: the program udp-file-proxy from `main` to its end and its next
  start. `LoadLine`, `MainServer`, `MainClient`, `MainExits` are the start-up; `Accept`,
  `AcceptErr`, `SockEvent` the libevent callbacks; `Send` and `Hangup` the peers.
  `Reads(c, k)` says that `readSock` finds the first k bytes of what was sent, any k. The
  message is refused or unknown (`Unhandled`), ends the program (`Throws`), or is a
  request: `RegisterClient`, `DelectClient`, `AddFile`, `RegisterServer`,
  `DelectServer`. A request is one step, because one thread runs it;
  `ProxyClient` and `ProxyServer` take the same requests apart where other
  threads, or the signal handler, can see the parts. `OpenFile`, `SkipFile` and `FileSent` are
  what a `file_thread` does to the descriptors; `leaked` counts those a deletion leaves
  open when it cancels the thread. `sudps` are the child
  processes: "child" of the server that runs, "killed" once they were sent SIGTERM
  and until they end, "orphan" when their server has gone.
* `*_proofs`: the theorems of section 5. `SequenceFacts` has what several of them
  need: heads, tails and joins of sequences, and two inductions the library
  has only with an operator as a parameter, stated here over sets (`NatSetInduction`, over the
  numbers; `SubsetInduction`, over the subsets of a finite set). `MC*`: instances.

Names of actions and variables are the code's where there is one. Operators
introduced by a comment "Mutation" are plausible errors in the definition
after them; no specification uses them.

## 3. Runs

| Run | Instance | Shows |
|---|---|---|
| `transfer_reliable` | 3 files of 3, 2 and 2 packets, the third a shorter resend of the first; queue of 3, pool queue of 2, 2 workers | no fault: `FinishedWhole`, `FinishedInOrder`, and the refinement `Delivers` with liveness: nothing blocks for ever |
| `transfer_paced` | the same files, one at a time, queue of 2, 1 fault | `FinishedWhole`, `NotifyOnlyWhole`, `EachNotifiedOnce`: with faults, failed moves included, only whole files are announced (section 4) and every untouched file exactly once |
| `transfer_lossy` | the same files, back to back, 1 fault | **violation** of `FinishedWhole` |
| `transfer_backlog` | 3 files of 2, 1 and 2 packets, back to back, no fault | **violation** of `NotifyOnlyWhole` |
| `pool` | 2 workers, 2 clients, 4 jobs, queue of 2 | wake-ups, order, drain, and every call returns |
| `send_list` | list of 2, 4 node addresses, 2 names | structure of the list and its promise |
| `client` | 3 names, 3 addresses, 1 file, lists of 1, 1 failure | the walks, the links, the threads and the promise `AppRegistry` |
| `speed_shares` | 3 senders, 150 or 400 Mbps, 1 cancelled | budget, fairness, books, with a margin that fits and one that does not |
| `speed_full` | 7 senders, 200 Mbps | **violation** of `WaitsWhenFull` |
| `server` | 2 names, 3 pids, 1 death, 1 stop | the registry under signals, and what becomes of the queues |
| `server_queue_lost` | 2 names, 2 pids, no failure | **violation** of `KeepsItsQueue` |
| `control` | 2 connections, 3 descriptors, 2 Sudps, 5 commands, 1 split read, 9333 configurations | framing, `errno`, descriptors, restarts, and every last line of a configuration up to 5 characters |

Why the bounds are enough. Three files are the least that have a predecessor, a
successor, a middle and a name used twice; three packets the least with a
middle to lose. The queues are so short that every blocking point
is reached: with MQCap = 2 or 3 a file does not fit in the queue, and with a pool
queue of 1 or 2 `PostJob` blocks. The code's values (20 jobs, 6 threads,
16384 bytes of queue) only lengthen the behaviours; the proofs cover them. For
the pool, two of each kind are what a wake-up that goes to the wrong thread
needs, and four jobs over a queue of two make clients wait. For the list, four
nodes are the two in it, one in the sender's hand and one leaked. For the
client three names make a list with a head, a middle and an end; an
`APP_INFO` is never freed after its deletion, so three addresses allow a name to
be deleted and registered again, not more, and lists of one file are enough
to be full. Names and addresses are only compared for equality, and the run
checks safety only, so its symmetry is sound. For the budget, with 400 Mbps the
first three grants (120, 60, 30) keep the margin and a fourth, which one sender more takes
after another was cancelled, does not, so both branches run; at 150 the first grant
is negative. For the server a death and a kill coalesce in
one SIGCHLD, and three pids are few enough to be reused while an entry is stale.

For the control channel, two connections
are what it takes to leave the order of a script, three descriptors for both, an
application's socket and the file it sends make them compete and run out, and let a
deletion fall into a send, one read that finds a part of what
was sent gives every pair of pieces of two commands, and two pids suffice for a
Sudp that is killed and one that is not. `MaxAhead` bounds commands not yet dealt with
together with split reads. The commands are a registration with every
field, one whose number is too large for a long, an `ADD_FILE`, a deletion and a
deletion without a body; the configurations are all that differ in their last
line, over two letters of a key, a value, `=`, `#` and a space. Connections are only
compared for equality and the run checks safety only, so its symmetry is sound.

`CHECK_DEADLOCK FALSE` is said where the system may really stop: when no client
brings a job or a file, when all bounded nodes are leaked, after SIGFPE, when
the server has undefined behaviour or its handler blocks.

## 4. What the violations say

* **A file mixed from two** (`transfer_lossy`). `File_Process` compares counts
  and numbers, never file names: with files back to back a lost packet of one is
  replaced by the same number of the next.
* **The wrong file announced** (`transfer_backlog`). The job's argument is the
  buffer that the next header overwrites. Nothing needs to be lost.
  Sending one file at a time (`Paced`) avoids both, which `transfer_paced` shows.
* **SIGFPE of the client** (`speed_full`). `S_WAIT` ("bandwidth used up, has to
  wait") exists in the protocol header and nowhere else; a grant of 0 is
  divided by. With the default 800 Mbps it takes a dozen senders, with 200
  seven.
* **Another Sudp's queue** (`server_queue_lost`). `my_exit1` removes the queue
  `mqid_save` names, "used to destroy the message queue"; before line 204 it is 0,
  and 0 is the id of the first queue made since the host was booted. A deletion
  right after a registration, or a Sudp that cannot start, removes the queue of
  the application that was registered first; its `msgrcv` fails and it exits.
  `OnlyZeroIsLost` says that no other queue is ever lost.

Not a violation of anything the code says, but in the model: a failed
`pthread_create` ends the client when no application was registered before
(`tmp->next` with `tmp` NULL). `SurvivesUnlessFirst` says that it is the only case.
A move that fails is announced as if it had been made (thread_process.c 73-78): the
application is told of a path in dir2 where there is no file, or a part of one. Sending one file
at a time does not help; `NotifyOnlyWhole` says what is true then, that the file is whole in
dir1. A copy over a longer file of the same name keeps that file's tail
(file_helper.c 45). Below twice `base_speed`, that is 160 Mbps, the first grants are negative
(`FairShare`, `TypeOK` and `Accounted` say what still holds).
And if `socket()` fails, `file_thread` returns (`SocketFails`) although the registration
was answered `E_OK`: files are accepted until the list is full and never sent.
If a Sudp ends before its entry is made (proxy_server.cpp 173), the entry is never removed
and the application can only be registered again after a deletion: `EntriesRun` is said
only as long as no Sudp ends on its own. In `ControlChannel`, a command without
a body ends the program (`NothingFromPieces` says that only such a command does), or,
cut after its first byte, leaves a length byte 0 that reads as the start of a
registration with the next command as its body; the
header of a registration that comes alone registers an application without a name
(only in a client, and only from a split read); and each deletion of an
application of a client leaves its socket open, and the file it was sending, until there are
no descriptors for connections and `acceptErr` ends the program (`DescriptorsAccounted`), under
the comment "the service must not exit" (proxy_manager.cpp 28).

## 5. Proofs

All are of the specifications the runs check, for every value of the
constants that meets the named assumptions.

* `FileTransfer_proofs`. `TypeCorrect` (with faults). For the reliable network,
  `CompletedFilesAreWhole`, `CompletedInOrder` and `ImplementsDelivery`, for any
  files, queue sizes and number of workers. The inductive invariant says that
  what lies in the queue, in hand and in the socket, in this order, is the
  stretch of `Stream` between the last packet `File_Process` took and the
  sender's position; hence the oldest message is the next packet, both
  `msgrcv` calls return it, and `text` is the current file's beginning. It is
  needed because `FinishedWhole` says nothing of a file in progress.
  With faults, the theorems are about a sender that queues one file at a time.
  `ScarceFaultsKeepFilesWhole`: a completed file is one transfer, with any number of
  faults, as long as they are `Scarce` (no two files in a row are hit). TLC finds
  why with `MaxFaults = 2`: the end of a file and the first packet of the next are
  lost, the file stays open, and the rest of the next one completes it.
  `PacedFilesAreWhole` is the case of one fault, the run's. `PacedNotifiesWhole`: with one fault
  of any kind a path is announced only when the newest file of that name is there, whole, or
  whole before the tail of a longer one if it was copied, or in dir1 if its move failed;
  there is no condition on the lengths of files. `PacedInv` says that what is under way are packets of the transfer being
  sent, in increasing order and without a gap unless it was hit; that a
  file which is open between transfers is one that was hit; and that while a pool thread
  has a job nothing is under way, so that `save_path` is still the job's own.
* `ThreadPool_proofs`. `PoolTypeCorrect`, `WakeupsAreNotLost`,
  `NothingIsLeftBehind`, `ImplementsPool`. The invariant adds to the properties
  who holds which job (`OnePlace`: no job in two places; `NoneLost`: each
  offered job is in one) and what each flag says of the thread that is
  destroying. `WakeupsAreNotLost` is why the test for an empty list in
  `add_job` and for `queue_max_num - 1` in the worker suffice.
* `SendList_proofs`. `ListIsLinked`, `NeverSleepsOnFiles`, `NextIsNeverNull`,
  `ImplementsQueue`, `ListTypeCorrect`. The properties together, with what `file_thread` knows at
  each place, are inductive.
* `ProxyClient_proofs`. `TypesHold`, `AlwaysWellLinked`, `NoThreadRunsAway`,
  `CursorNeverNull`, `OnlyTheFirstCrashes`, `ImplementsRegistry`. `ClientInv` adds to the properties
  where the cursors are: `tmp` is the i-th application and none before it
  has the name of the request, `per` the one before, and the application being
  created is in use, unlisted and without a thread. It makes the end of a walk
  mean that the name is free, and the unlinked node the one before `tmp`.
  `ImplementsRegistry`: the whole client implements `AppRegistry`. Its mapping reads the
  queues through the list, so it needs `RegistryOK`: a listed application has a name,
  a new one an empty list of files, and a `Del_App` that reaches the
  end has compared every name. Then a refusal is true of the list that is left, and what a
  request or a sender changes is one queue, that of a registered name.
* `SpeedManger_proofs`. `BudgetIsKept`, `SharesAreFair`, `BudgetIsAccounted`. The
  last is an equation between the budget and a sum over the senders, by induction over the
  set of senders: a step changes one summand. It needs that only a
  thread that sends holds a grant (`OnlySendersHold`), and finitely many
  threads. No theorem has a hypothesis on `max_speed`, because main has none: `base_speed`
  stays 80 when a `max_speed` below 160 is configured, and a grant can then
  be negative. The properties themselves say what depends on `MarginFits`
  (`2 * BaseSpeed <= max_speed`): the budget not overdrawn, no negative grant, the equation,
  which is an inequality otherwise because `return_speed` cuts at zero. The invariant needs
  `Bounded`, how far below zero the budget can be, and `MarginLeft`: where the margin fits,
  but `max_speed` is below `4 * BaseSpeed`, twice the margin stays idle for ever.
* `ProxyServer_proofs`. `ServerTypeCorrect`, `HandlerReturns`,
  `EveryProcessIsManaged`. They are parts of one invariant (`ServerInvariant`), in which
  `SignalInv` counts ended children without
  arithmetic: a pending signal and a handler before its `wait` stand for one
  each, both together for two different ones. `AllSecure` is `NoRunaway`
  without the entry whose pid is not written yet. `RegisteredHaveTheirProcess` and
  `FoundIsErased` follow from `OwnInv`, which carries `EntriesRun` through the places
  of a request: what is to be erased is there, what is to be killed is nobody
  else's, because its owner is the name that was erased.
  Of `SudpProcesses`, `HostRefinesServer`: the composition implements
  `ProxyServer`, whose theorems therefore hold of it. `StagesAreRight`,
  `OthersKeepTheirQueue`, `ExitLeavesNothing` follow from `HostInv`, which adds
  that queue 0 is made once and that what is said of a receiving Sudp's queue
  holds from `msgget` on: a queue can go before line 204 too.
* `ControlChannel_proofs`. `LineAsMeant`: for every line, `AnalyseLine` sets what
  the part before the comment says. It rests on keys having two characters or more and
  no `#`: a line that is cut to a character or two, or whose comment holds the
  first `=`, gives a key nobody asks for. `ControlSettings` says it of every
  configuration. `ControlTypeCorrect`, `ControlDescriptors` and `ControlNoOrphans`
  are for any commands, however TCP cuts them, and any number of connections,
  descriptors, files being sent and processes. Their invariant adds where things can be (`Placed`): Sudps
  exist only with a server's configuration, a server has no sockets, and a program that
  does not run has nothing; so a server that starts finds its port free only if no Sudp of an
  earlier run is left.

  Three are about what is in the bytes. `ParsedAsMeant`: for every command body up to its first NUL, what
  `CONF_get_string` finds in the table of `CONF_prase_line` is the value of the last
  field with that key. The fold is replaced by what it
  computes (`ParseIsTable`) by induction over the sets of fields read so far.
  `PiecesRegisterNothing` (`NothingFromPieces`) assumes `TextCommands`: no
  byte of a body is the number of a command, and registrations name their
  application; bodies are texts and the numbers are 0, 1 and 16. Its
  invariant `Pieces` says that every stream of unread bytes is `Framed`: a 0 in it
  begins a whole registration, and what precedes it is text. Reading any number of bytes keeps that.
  A command without a body breaks it, by its length byte 0 (section 4), so the
  property speaks of registrations only where none was sent.
  `ScriptsAreServed` (`ServesScripts`) assumes `ScriptCommands`: a registration's
  limit is a numeral, of any size, and its port is not oversized. Its invariant
  `Scripts` adds `Calm`: as long as peers behave as the scripts do, there is one
  connection, with one command at most, and no ERANGE is left over while
  that command is unanswered, because a new connection is accepted before.
  `MCControlChannel` assumes both of its commands, so TLC finds that the hypotheses can be met.

Only model-checked: liveness (`Delivers` and the other promises in full,
`EachNotifiedOnce`, `CallsReturn`), since fairness and ENABLED are out of the prover's
reach. Every safety invariant of a passing run is stated by a theorem. Not proved
are paced transfers with faults in two files in a row, where `FinishedWhole` is false, and what
`ScriptsAreServed` and `PiecesRegisterNothing` exclude.

## 6. Fairness

Weak fairness for the sender, Sudp's main thread, `File_Process`, each pool
thread: they are kernel threads, and the calls that block are guards. Each pool
worker and each client inside a call; no fairness for calling `add_job` or
`destroy`. `file_thread` polls for ever. Faults, deaths, signals and requests
have none. `ProxyClient`, `SpeedManger`, `ProxyServer` and `ControlChannel` state safety only: of
the last, one thread reads what has arrived and answers in the same step, and
what could keep a command from its answer, an end of the program or a part that never
comes, is nothing fairness rules out.

## 7. Abstractions, and what is left out

* A payload is the packet's identity. Two files of one application have path names of
  the same length: thread_process.c 231 reads a later packet's length field at
  an offset taken from the last header, so a packet that lands in another file
  is written here as a whole.
* `stdio` buffering is ignored: what is written is in the file. `CreateDir` and
  `fopen` are one step. The non-blocking and the blocking `msgsnd` are one step.
  The log of lost packages keeps no state that matters.
* In `Sudp` the pool is the number of its jobs, all alike; `ThreadPool` justifies
  it. `destroy` is never called by Sudp; it is modelled because the pool offers it.
* The network loses datagrams but keeps their order and makes no copies of them. UDP may
  reorder and duplicate, and `File_Process` would count a duplicate like any other packet: what
  is said of order and wholeness is said of paths that do neither.
* A copy between file systems is one step, or stops after any number of packets: it is not
  seen half-way by others, and a packet is not cut in its middle. It does not cut
  the destination (`Overlay`).
* `pack_t`, the number of packets between two pauses, is not modelled. A registration
  with `pack_t=0` passes the check in `file_thread`, and `pack_nu % pack_t` (Cudp.cpp 271)
  then ends the client with SIGFPE.
* In `SendList`, opening, sending and unlinking a file is one step.
* In `ProxyClient`, an `APP_INFO` whose registration was answered `E_EXIST` is never
  freed and never used again. A cancelled thread dies where it next passes a
  cancellation point; that it may take one more file before is left out:
  nobody can see it, since the list it takes from is no longer reachable.
  `DEL_LAST_ONE` and `DEL_LATER` exist, but no command asks for them.
* In `SpeedManger`, time is not modelled: what `usleep` makes of a negative pause is only said.
* In `ControlChannel`, a table keeps the keys the program decides by: `dir1` stands for
  the four texts, and `server_port` for both ports, that `check_server_add_info` asks
  for; `pack_t`, `delect_file`, `move` and file names are left out. The answer goes to
  the peer and is not kept. A file that waits is a count; one that is being sent is a descriptor, and one
  whose sending fails is not told from one that was sent. A thread that cannot be created
  (`E_THREAD`) is in `ProxyClient`. The buffers of libevent are as large as what
  was sent, and a message has any length up to that. A port in use is one a Sudp
  of an earlier run keeps open; sockets of other programs are not modelled. `fork` fails
  when there are `MaxPid` Sudps. A restarted program finds the configuration unchanged.
* In `ProxyServer`, `std::map` and `malloc` are atomic; a signal in their
  middle is listed as a hazard only. The order of names is left open.
* In `SudpProcesses`, an id is 0 or another; why a start fails (a path that cannot be
  written, a queue a crashed Sudp with the same pid has left, no address) is one
  choice, `StartFails`. A port in use is not among the reasons: `SO_REUSEADDR` lets two Sudps bind it. What `execl`
  passes is undefined (`c_str()` of temporaries, proxy_server.cpp 201): a
  Sudp it leaves without usable arguments is one whose start fails.
* Not modelled: logging (output only, and nothing reads it back), `MY_UDP.c`, `Common.c`,
  `mhp_lib`, `browsedir.cpp` (unused), libevent (vendored), the test
  scripts and the installer.

  Of some 14000 lines of C and C++ about 8400 are vendored libevent headers, and about a
  thousand these wrappers and the log: the modules stand for most of the rest.

## 8. What is left

1. Datagrams that are reordered or duplicated: which of the properties of paced files
   survive them.
2. Proofs: the refinement of `FileDelivery`'s safety by paced transfers whose faults are
   scarce, with the files that were hit left out.
3. `ControlChannel` over `ProxyClient` and `ProxyServer` step by step, in place of
   requests that are one step each.
