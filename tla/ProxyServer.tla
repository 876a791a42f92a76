----------------------------- MODULE ProxyServer -----------------------------
(***************************************************************************)
(* The SERVER mode of udp-file-proxy (proxy_server.cpp): one Sudp process  *)
(* per registered application, kept in mp_app.  The program has one        *)
(* thread; requests run in it from libevent, and the SIGCHLD handler       *)
(* sig_chld interrupts it between any two of their steps.  Operations of   *)
(* std::map are atomic here.  Requests that change nothing (E_EXIST,       *)
(* E_NOTFOUND, E_BAD_CMD, E_FORMAT) are stuttering steps.                  *)
(***************************************************************************)
EXTENDS Naturals, Functions

CONSTANTS
  Apps, NoApp,
  Pids, NoPid,
  MaxDeaths,   \* bound: Sudp processes that end without being killed
  MaxStops     \* bound: Sudp processes that are stopped (SIGSTOP)

ASSUME ServerAssumption ==
  /\ NoApp \notin Apps /\ NoPid \notin Pids
  /\ MaxDeaths \in Nat /\ MaxStops \in Nat

VARIABLES
  mp_app,      \* from the registered names to their pids
  proc,        \* proc[p]: "none", "run", "killed" (SIGTERM is on its way), "zombie"
  owner,       \* history: the application process p was forked for
  pc, app, ret,    \* the request: its place, its app_name, its pid
  pending,     \* SIGCHLD is pending; a second one is the same
  handler,     \* sig_chld: "off", "wait" (before wait), "del" (before del_app)
  reaped,      \* what wait returned
  broken,      \* an iterator was used after its entry had gone
  deaths, stops

kernelVars == <<proc, owner, pending, deaths, stops>>
requestVars == <<pc, app, ret>>
signalVars == <<handler, reaped>>
vars == <<mp_app, kernelVars, requestVars, signalVars, broken>>

Init ==
  /\ mp_app = << >>
  /\ proc = [p \in Pids |-> "none"] /\ owner = [p \in Pids |-> NoApp]
  /\ pc = "loop" /\ app = NoApp /\ ret = NoPid
  /\ pending = FALSE /\ handler = "off" /\ reaped = NoPid
  /\ broken = FALSE /\ deaths = 0 /\ stops = 0

(* The thread is in a request, or waits for one, and not in sig_chld.       *)
At(place) == pc = place /\ handler = "off" /\ ~broken
Entry(m, a, p) == [b \in DOMAIN m \cup {a} |-> IF b = a THEN p ELSE m[b]]
Without(m, a) == Restrict(m, DOMAIN m \ {a})

-----------------------------------------------------------------------------
(* CMD_REGISTER                                                             *)

(* Mutation NotChecked: a second registration is accepted.                  *)
NotChecked(a) == a \in Apps
NotRegistered(a) == a \notin DOMAIN mp_app

Register(a) ==
  /\ At("loop") /\ NotRegistered(a)
  /\ pc' = "fork" /\ app' = a
  /\ UNCHANGED <<mp_app, kernelVars, ret, signalVars, broken>>

ForkFails ==
  /\ At("fork")
  /\ pc' = "loop" /\ app' = NoApp
  /\ UNCHANGED <<mp_app, kernelVars, ret, signalVars, broken>>

Fork(p) ==
  /\ At("fork") /\ proc[p] = "none"
  /\ proc' = [proc EXCEPT ![p] = "run"]
  /\ owner' = [owner EXCEPT ![p] = app]
  /\ ret' = p
  /\ pc' = "insert"
  /\ UNCHANGED <<mp_app, pending, deaths, stops, app, signalVars, broken>>

(* mp_app[app_name] = new_server: the pid in new_server was never set.      *)
Insert ==
  /\ At("insert")
  /\ \E garbage \in Pids \cup {NoPid} : mp_app' = Entry(mp_app, app, garbage)
  /\ pc' = "number"
  /\ UNCHANGED <<kernelVars, app, ret, signalVars, broken>>

(* mp_app[app_name].pid = ret, which makes an entry if there is none.       *)
Number ==
  /\ At("number")
  /\ mp_app' = Entry(mp_app, app, ret)
  /\ pc' = "loop" /\ app' = NoApp /\ ret' = NoPid
  /\ UNCHANGED <<kernelVars, signalVars, broken>>

-----------------------------------------------------------------------------
(* CMD_DELECT, del_app(string)                                              *)

Delete(a) ==
  /\ At("loop") /\ a \in DOMAIN mp_app
  /\ pc' = "erase" /\ app' = a
  /\ UNCHANGED <<mp_app, kernelVars, ret, signalVars, broken>>

(* Mutation EraseNot: the entry stays and the next death has to remove it.  *)
EraseNot(a) == mp_app
Erased(a) == Without(mp_app, a)

(* find, mp_app[app_name].pid and erase(app).  If sig_chld has removed the  *)
(* entry since it was counted, app is end() or dangling.                    *)
EraseApp ==
  /\ At("erase")
  /\ IF app \in DOMAIN mp_app
     THEN ret' = mp_app[app] /\ mp_app' = Erased(app) /\ UNCHANGED broken
     ELSE broken' = TRUE /\ UNCHANGED <<ret, mp_app>>
  /\ pc' = "kill"
  /\ UNCHANGED <<kernelVars, app, signalVars>>

(* kill(pid, 15): whatever process has the number now, if any.              *)
Kill ==
  /\ At("kill")
  /\ proc' = IF ret \in Pids /\ proc[ret] = "run"
             THEN [proc EXCEPT ![ret] = "killed"] ELSE proc
  /\ pc' = "loop" /\ app' = NoApp /\ ret' = NoPid
  /\ UNCHANGED <<mp_app, owner, pending, deaths, stops, signalVars, broken>>

-----------------------------------------------------------------------------
(* The kernel                                                               *)

Ends(p) ==
  /\ proc' = [proc EXCEPT ![p] = "zombie"]
  /\ pending' = TRUE
  /\ UNCHANGED <<mp_app, owner, stops, requestVars, signalVars, broken>>

DiesKilled(p) == proc[p] = "killed" /\ Ends(p) /\ UNCHANGED deaths

(* execl fails, or Sudp exits or crashes.                                   *)
DiesAlone(p) ==
  /\ proc[p] = "run" /\ deaths < MaxDeaths
  /\ deaths' = deaths + 1
  /\ Ends(p)

(* signal() does not ask for SA_NOCLDSTOP.                                  *)
Stops(p) ==
  /\ proc[p] = "run" /\ stops < MaxStops
  /\ stops' = stops + 1
  /\ pending' = TRUE
  /\ UNCHANGED <<mp_app, proc, owner, deaths, requestVars, signalVars, broken>>

(* SIGCHLD stays blocked while sig_chld runs.                               *)
Deliver ==
  /\ pending /\ handler = "off" /\ ~broken
  /\ pending' = FALSE /\ handler' = "wait"
  /\ UNCHANGED <<mp_app, proc, owner, deaths, stops, requestVars, reaped, broken>>

-----------------------------------------------------------------------------
(* sig_chld                                                                 *)

(* Mutation WaitUnread: the pid of the ended process is not kept (the       *)
(* commented-out loop would assign the comparison to it).                   *)
WaitUnread(p) == NoPid
WaitResult(p) == p

(* wait() returns one ended child, whichever; while none has ended it       *)
(* blocks.                                                                  *)
Wait(p) ==
  /\ handler = "wait" /\ proc[p] = "zombie"
  /\ proc' = [proc EXCEPT ![p] = "none"]
  /\ reaped' = WaitResult(p)
  /\ handler' = "del"
  /\ UNCHANGED <<mp_app, owner, pending, deaths, stops, requestVars, broken>>

(* wait() fails at once when there is no child at all: pid is -1.           *)
WaitsForNobody ==
  /\ handler = "wait" /\ \A p \in Pids : proc[p] = "none"
  /\ reaped' = NoPid
  /\ handler' = "del"
  /\ UNCHANGED <<mp_app, kernelVars, requestVars, broken>>

(* del_app(int): the first entry with that pid, if any.  The order of the   *)
(* names is left open.                                                      *)
EntriesOf(p) == {a \in DOMAIN mp_app : mp_app[a] = p}

(* Mutation WaitsAgain: sig_chld loops over wait() without WNOHANG.         *)
WaitsAgain == "wait"
Returns == "off"

DelPid ==
  /\ handler = "del"
  /\ IF EntriesOf(reaped) = {}
     THEN UNCHANGED mp_app
     ELSE \E a \in EntriesOf(reaped) : mp_app' = Without(mp_app, a)
  /\ handler' = Returns /\ reaped' = NoPid
  /\ UNCHANGED <<kernelVars, requestVars, broken>>

Next ==
  \/ \E p \in Pids : Fork(p) \/ DiesKilled(p) \/ DiesAlone(p) \/ Stops(p) \/ Wait(p)
  \/ Deliver \/ WaitsForNobody \/ DelPid
  \/ \E a \in Apps : Register(a) \/ Delete(a)
  \/ ForkFails \/ Insert \/ Number \/ EraseApp \/ Kill

Spec == Init /\ [][Next]_vars

-----------------------------------------------------------------------------
(* Types, with what each place of a request and of the handler holds: what  *)
(* wait returned is a pid, unless a stopped Sudp has caused a SIGCHLD.      *)
TypeOK ==
  /\ DOMAIN mp_app \subseteq Apps
  /\ \A a \in DOMAIN mp_app : mp_app[a] \in Pids \cup {NoPid}
  /\ proc \in [Pids -> {"none", "run", "killed", "zombie"}]
  /\ owner \in [Pids -> Apps \cup {NoApp}]
  /\ pc \in {"loop", "fork", "insert", "number", "erase", "kill"}
  /\ pc # "loop" => app \in Apps
  /\ pc \in {"insert", "number"} => ret \in Pids
  /\ app \in Apps \cup {NoApp} /\ ret \in Pids \cup {NoPid}
  /\ pending \in BOOLEAN /\ broken \in BOOLEAN
  /\ handler \in {"off", "wait", "del"}
  /\ handler = "del" /\ stops = 0 => reaped \in Pids
  /\ reaped \in Pids \cup {NoPid}
  /\ deaths \in 0..MaxDeaths /\ stops \in 0..MaxStops

(* sig_chld runs in the only thread of the server: a wait() that finds no   *)
(* ended child stops every request.  It finds one, although two deaths may  *)
(* share a SIGCHLD and one sig_chld may reap another's child, as long as no *)
(* Sudp is stopped (proxy_server.cpp 15).                                   *)
WaitNeverBlocks ==
  handler = "wait" /\ stops = 0 => \E p \in Pids : proc[p] = "zombie"

(* No Sudp is left running that a CMD_DELECT could not end: each has an     *)
(* entry with its pid, except between fork and the insertion, whatever dies *)
(* and whatever pids are reused (proxy_server.cpp 166-174, 251-257, 268-276).*)
JustForked(p) == pc \in {"insert", "number"} /\ ret = p
AboutToKill(p) == pc = "kill" /\ ret = p
NoRunaway ==
  ~broken =>
    \A p \in Pids : proc[p] = "run" =>
      JustForked(p) \/ AboutToKill(p) \/ EntriesOf(p) # {}

(* As long as no Sudp ends on its own, a registered application has a       *)
(* process, and its own: E_EXIST and kill are right (158, 257).  A Sudp     *)
(* that ends before line 173 leaves an entry nothing takes away, which the  *)
(* check that the comment at 171 wishes for would prevent.                  *)
EntriesRun ==
  deaths = 0 /\ pc = "loop" =>
    \A a \in DOMAIN mp_app :
      mp_app[a] \in Pids /\ proc[mp_app[a]] = "run" /\ owner[mp_app[a]] = a

(* As long as no Sudp ends on its own, sig_chld never removes the entry     *)
(* that del_app has found and is about to erase (253-255).                  *)
ErasesOnce == deaths = 0 => ~broken

=============================================================================
