------------------------- MODULE ProxyServer_proofs --------------------------
(***************************************************************************)
(* Proofs about ProxyServer, and about SudpProcesses, which has more of a  *)
(* Sudp to see, for any names, any pids, and any number of deaths.         *)
(***************************************************************************)
EXTENDS SudpProcesses, TLAPS

Zombie(p) == p \in Pids /\ proc[p] = "zombie"

(* A pending SIGCHLD and a sig_chld before its wait() stand for one ended   *)
(* child each.                                                              *)
SignalInv ==
  stops = 0 =>
    /\ pending \/ handler = "wait" => \E p : Zombie(p)
    /\ pending /\ handler = "wait" => \E p, q : p # q /\ Zombie(p) /\ Zombie(q)

(* Before it is inserted, the name of a registration is not in mp_app, and  *)
(* the process sig_chld has waited for is gone.                             *)
RequestInv ==
  /\ pc \in {"fork", "insert"} => app \notin DOMAIN mp_app
  /\ handler = "del" /\ reaped \in Pids => proc[reaped] = "none"

(* NoRunaway, not counting the entry that still has a random pid.           *)
Secure(p) ==
  \/ JustForked(p) \/ AboutToKill(p)
  \/ \E a \in DOMAIN mp_app : mp_app[a] = p /\ ~(pc = "number" /\ a = app)
AllSecure == ~broken => \A p \in Pids : proc[p] = "run" => Secure(p)

(* EntriesRun in every place of a request.  The entry to be erased is there *)
(* when it is, and the process to be killed is nobody else's.               *)
Unfinished(a) == pc = "number" /\ a = app
Runs(p, a) == p \in Pids /\ proc[p] = "run" /\ owner[p] = a
OwnInv ==
  deaths = 0 =>
    /\ ~broken
    /\ \A a \in DOMAIN mp_app : Unfinished(a) \/ Runs(mp_app[a], a)
    /\ pc \in {"insert", "number"} => Runs(ret, app)
    /\ pc = "erase" => app \in DOMAIN mp_app
    /\ pc = "kill" => app \notin DOMAIN mp_app /\ ret \in Pids /\ owner[ret] = app

-----------------------------------------------------------------------------
LEMMA InitType == Init => TypeOK
<1> SUFFICES ASSUME Init PROVE TypeOK
  OBVIOUS
<1>1. DOMAIN mp_app = {}
  BY DEF Init
<1>2. 0 \in 0..MaxDeaths /\ 0 \in 0..MaxStops
  BY ServerAssumption
<1> QED BY <1>1, <1>2 DEF Init, TypeOK

LEMMA StepType == TypeOK /\ SignalInv /\ [Next]_vars => TypeOK'
<1> SUFFICES ASSUME TypeOK, SignalInv, [Next]_vars PROVE TypeOK'
  OBVIOUS
<1> USE ServerAssumption
<1>1. ASSUME NEW p \in Pids, Fork(p) PROVE TypeOK'
  BY <1>1 DEF Fork, At, TypeOK, signalVars
<1>2. ASSUME NEW p \in Pids, DiesKilled(p) PROVE TypeOK'
  BY <1>2 DEF DiesKilled, Ends, TypeOK, requestVars, signalVars
<1>3. ASSUME NEW p \in Pids, DiesAlone(p) PROVE TypeOK'
  BY <1>3 DEF DiesAlone, Ends, TypeOK, requestVars, signalVars
<1>4. ASSUME NEW p \in Pids, Stops(p) PROVE TypeOK'
  <2>1. stops \in Nat /\ stops' = stops + 1
    BY <1>4 DEF Stops, TypeOK
  <2> QED BY <1>4, <2>1 DEF Stops, TypeOK, requestVars, signalVars
<1>5. ASSUME NEW p \in Pids, Wait(p) PROVE TypeOK'
  BY <1>5 DEF Wait, WaitResult, TypeOK, requestVars
<1>6. CASE Deliver
  BY <1>6 DEF Deliver, TypeOK, requestVars
<1>7. CASE DelPid
  <2>1. DOMAIN mp_app' \subseteq DOMAIN mp_app /\ \A a \in DOMAIN mp_app' : mp_app'[a] = mp_app[a]
    <3>1. CASE EntriesOf(reaped) = {}
      BY <1>7, <3>1 DEF DelPid
    <3>2. CASE EntriesOf(reaped) # {}
      <4>1. PICK a : mp_app' = Without(mp_app, a)
        BY <1>7, <3>2 DEF DelPid
      <4> QED BY <4>1 DEF Without, Restrict
    <3> QED BY <3>1, <3>2
  <2> QED BY <1>7, <2>1 DEF DelPid, Returns, TypeOK, kernelVars, requestVars
<1>8. ASSUME NEW a \in Apps, Register(a) PROVE TypeOK'
  BY <1>8 DEF Register, At, TypeOK, kernelVars, signalVars
<1>9. ASSUME NEW a \in Apps, Delete(a) PROVE TypeOK'
  BY <1>9 DEF Delete, At, TypeOK, kernelVars, signalVars
<1>10. CASE ForkFails
  BY <1>10 DEF ForkFails, At, TypeOK, kernelVars, signalVars
<1>11. CASE Insert
  <2>1. PICK g \in Pids \cup {NoPid} : mp_app' = Entry(mp_app, app, g)
    BY <1>11 DEF Insert
  <2>2. app \in Apps
    BY <1>11 DEF Insert, At, TypeOK
  <2>3. DOMAIN mp_app' \subseteq Apps /\ \A a \in DOMAIN mp_app' : mp_app'[a] \in Pids \cup {NoPid}
    <3>1. /\ DOMAIN mp_app' = DOMAIN mp_app \cup {app} /\ mp_app'[app] = g
          /\ \A b \in DOMAIN mp_app : b # app => mp_app'[b] = mp_app[b]
      BY <2>1 DEF Entry
    <3> QED BY <2>2, <3>1 DEF TypeOK
  <2> QED BY <1>11, <2>3 DEF Insert, At, TypeOK, kernelVars, signalVars
<1>12. CASE Number
  <2>1. app \in Apps /\ ret \in Pids /\ mp_app' = Entry(mp_app, app, ret)
    BY <1>12 DEF Number, At, TypeOK
  <2>2. DOMAIN mp_app' \subseteq Apps /\ \A a \in DOMAIN mp_app' : mp_app'[a] \in Pids \cup {NoPid}
    <3>1. /\ DOMAIN mp_app' = DOMAIN mp_app \cup {app} /\ mp_app'[app] = ret
          /\ \A b \in DOMAIN mp_app : b # app => mp_app'[b] = mp_app[b]
      BY <2>1 DEF Entry
    <3> QED BY <2>1, <3>1 DEF TypeOK
  <2> QED BY <1>12, <2>2 DEF Number, At, TypeOK, kernelVars, signalVars
<1>13. CASE EraseApp
  <2>1. DOMAIN mp_app' \subseteq DOMAIN mp_app /\ \A a \in DOMAIN mp_app' : mp_app'[a] = mp_app[a]
    <3>1. mp_app' = mp_app \/ mp_app' = Without(mp_app, app)
      BY <1>13 DEF EraseApp, Erased
    <3> QED BY <3>1 DEF Without, Restrict
  <2>2. ret' \in Pids \cup {NoPid} /\ broken' \in BOOLEAN
    BY <1>13 DEF EraseApp, TypeOK
  <2> QED BY <1>13, <2>1, <2>2 DEF EraseApp, At, TypeOK, kernelVars, signalVars
<1>14. CASE Kill
  BY <1>14 DEF Kill, At, TypeOK, signalVars
<1>15. CASE WaitsForNobody
  <2>1. stops # 0
    BY <1>15 DEF WaitsForNobody, SignalInv, Zombie
  <2> QED BY <1>15, <2>1 DEF WaitsForNobody, TypeOK, kernelVars, requestVars
<1>16. CASE UNCHANGED vars
  BY <1>16 DEF TypeOK, vars, kernelVars, requestVars, signalVars
<1> QED BY <1>1, <1>2, <1>3, <1>4, <1>5, <1>6, <1>7, <1>8, <1>9, <1>10, <1>11, <1>12,
           <1>13, <1>14, <1>15, <1>16 DEF Next

-----------------------------------------------------------------------------
LEMMA StepSignal == TypeOK /\ SignalInv /\ [Next]_vars => SignalInv'
<1> SUFFICES ASSUME TypeOK, SignalInv, [Next]_vars, stops' = 0
             PROVE  /\ pending' \/ handler' = "wait" => \E p : Zombie(p)'
                    /\ pending' /\ handler' = "wait" =>
                         \E p, q : p # q /\ Zombie(p)' /\ Zombie(q)'
  BY DEF SignalInv
<1> DEFINE Goal == /\ pending' \/ handler' = "wait" => \E p : Zombie(p)'
                   /\ pending' /\ handler' = "wait" =>
                        \E p, q : p # q /\ Zombie(p)' /\ Zombie(q)'
<1>1. ASSUME stops' = stops,
             UNCHANGED <<pending, handler>>, \A p : Zombie(p) => Zombie(p)'
      PROVE  Goal
  BY <1>1 DEF SignalInv
<1>2. ASSUME NEW p \in Pids, proc[p] \in {"run", "killed"}, Ends(p) PROVE Goal
  <2>1. /\ Zombie(p)' /\ ~Zombie(p) /\ handler' = handler /\ stops' = stops
        /\ \A q : Zombie(q) => Zombie(q)'
    BY <1>2 DEF Ends, Zombie, TypeOK, signalVars
  <2>2. CASE handler = "wait"
    <3>1. PICK q : Zombie(q)
      BY <2>1, <2>2 DEF SignalInv
    <3> QED BY <2>1, <3>1
  <2>3. CASE handler # "wait"
    BY <2>1, <2>3
  <2> QED BY <2>2, <2>3
<1>3. ASSUME NEW p \in Pids, Fork(p) PROVE Goal
  BY <1>1, <1>3 DEF Fork, Zombie, TypeOK, signalVars
<1>4. ASSUME NEW p \in Pids, Wait(p) PROVE Goal
  <2>1. /\ handler = "wait" /\ handler' = "del" /\ pending' = pending /\ stops' = stops
        /\ \A q : Zombie(q) /\ q # p => Zombie(q)'
    BY <1>4 DEF Wait, Zombie, TypeOK
  <2>2. ASSUME pending PROVE \E q : Zombie(q)'
    <3>1. PICK q, r : q # r /\ Zombie(q) /\ Zombie(r)
      BY <2>1, <2>2 DEF SignalInv
    <3> QED BY <2>1, <3>1
  <2> QED BY <2>1, <2>2
<1>5. CASE Deliver
  BY <1>5 DEF Deliver, SignalInv, Zombie
<1>6. CASE DelPid
  BY <1>6 DEF DelPid, Returns, SignalInv, Zombie, kernelVars
<1>7. CASE Kill
  BY <1>1, <1>7 DEF Kill, Zombie, TypeOK, signalVars
<1>8. ASSUME NEW p \in Pids, DiesKilled(p) PROVE Goal
  BY <1>2, <1>8 DEF DiesKilled
<1>9. ASSUME NEW p \in Pids, DiesAlone(p) PROVE Goal
  BY <1>2, <1>9 DEF DiesAlone
<1>10. ASSUME NEW p \in Pids, Stops(p) PROVE Goal
  <2>1. stops \in Nat /\ stops' = stops + 1
    BY <1>10, ServerAssumption DEF Stops, TypeOK
  <2> QED BY <2>1
<1>11. CASE UNCHANGED kernelVars /\ UNCHANGED signalVars
  BY <1>1, <1>11 DEF kernelVars, signalVars, Zombie
<1>12. /\ ForkFails \/ Insert \/ Number \/ EraseApp \/ UNCHANGED vars =>
            UNCHANGED kernelVars /\ UNCHANGED signalVars
       /\ \A a \in Apps : Register(a) \/ Delete(a) =>
            UNCHANGED kernelVars /\ UNCHANGED signalVars
  BY DEF ForkFails, Insert, Number, EraseApp, Register, Delete, vars
<1>13. CASE WaitsForNobody
  BY <1>13 DEF WaitsForNobody, SignalInv, Zombie, kernelVars
<1> QED BY <1>3, <1>4, <1>5, <1>6, <1>7, <1>8, <1>9, <1>10, <1>11, <1>12, <1>13 DEF Next

LEMMA StepRequest == TypeOK /\ RequestInv /\ [Next]_vars => RequestInv'
<1> SUFFICES ASSUME TypeOK, RequestInv, [Next]_vars PROVE RequestInv'
  OBVIOUS
<1>1. ASSUME NEW p \in Pids, Fork(p) PROVE RequestInv'
  BY <1>1 DEF Fork, At, RequestInv, signalVars
<1>2. ASSUME NEW p \in Pids, proc[p] # "none", Ends(p) PROVE RequestInv'
  BY <1>2 DEF Ends, RequestInv, TypeOK, requestVars, signalVars
<1>3. ASSUME NEW p \in Pids, Stops(p) PROVE RequestInv'
  BY <1>3 DEF Stops, RequestInv, requestVars, signalVars
<1>4. ASSUME NEW p \in Pids, Wait(p) PROVE RequestInv'
  BY <1>4 DEF Wait, WaitResult, RequestInv, TypeOK, requestVars
<1>5. CASE Deliver
  BY <1>5 DEF Deliver, RequestInv, requestVars
<1>6. CASE DelPid
  <2>1. DOMAIN mp_app' \subseteq DOMAIN mp_app
    BY <1>6 DEF DelPid, Without, Restrict
  <2> QED BY <1>6, <2>1 DEF DelPid, Returns, RequestInv, requestVars
<1>7. ASSUME NEW a \in Apps, Register(a) PROVE RequestInv'
  BY <1>7 DEF Register, NotRegistered, At, RequestInv, signalVars
<1>8. ASSUME NEW a \in Apps, Delete(a) PROVE RequestInv'
  BY <1>8 DEF Delete, At, RequestInv, signalVars
<1>9. CASE ForkFails \/ Insert \/ Number \/ EraseApp \/ Kill
  BY <1>9 DEF ForkFails, Insert, Number, EraseApp, Kill, At, RequestInv, signalVars
<1>10. CASE UNCHANGED vars
  BY <1>10 DEF vars, kernelVars, requestVars, signalVars, RequestInv
<1>11. \A p \in Pids : DiesKilled(p) \/ DiesAlone(p) => proc[p] # "none" /\ Ends(p)
  BY DEF DiesKilled, DiesAlone
<1>12. CASE WaitsForNobody
  BY <1>12, ServerAssumption DEF WaitsForNobody, RequestInv, kernelVars, requestVars
<1> QED BY <1>1, <1>2, <1>3, <1>4, <1>5, <1>6, <1>7, <1>8, <1>9, <1>10, <1>11, <1>12 DEF Next

-----------------------------------------------------------------------------
LEMMA StepSecure ==
  TypeOK /\ RequestInv /\ AllSecure /\ [Next]_vars => AllSecure'
<1> SUFFICES ASSUME TypeOK, RequestInv, AllSecure, [Next]_vars, ~broken',
                    NEW q \in Pids, proc'[q] = "run"
             PROVE  Secure(q)'
  BY DEF AllSecure
(* The steps that leave mp_app and the request alone and start no process.  *)
<1>1. ASSUME UNCHANGED <<mp_app, requestVars, broken>>, proc[q] = "run" PROVE Secure(q)'
  BY <1>1 DEF AllSecure, Secure, JustForked, AboutToKill, requestVars
<1>2. ASSUME NEW p \in Pids, Fork(p) PROVE Secure(q)'
  <2>1. CASE q = p
    BY <1>2, <2>1 DEF Fork, Secure, JustForked
  <2>2. CASE q # p
    <3>1. proc[q] = "run"
      BY <1>2, <2>2 DEF Fork, TypeOK
    <3> QED BY <1>2, <3>1 DEF Fork, At, AllSecure, Secure, JustForked, AboutToKill, signalVars
  <2> QED BY <2>1, <2>2
<1>3. ASSUME NEW p \in Pids, Ends(p) PROVE Secure(q)'
  BY <1>1, <1>3 DEF Ends, TypeOK
<1>4. ASSUME NEW p \in Pids, Stops(p) PROVE Secure(q)'
  BY <1>1, <1>4 DEF Stops
<1>5. ASSUME NEW p \in Pids, Wait(p) PROVE Secure(q)'
  BY <1>1, <1>5 DEF Wait, TypeOK
<1>6. CASE Deliver
  BY <1>1, <1>6 DEF Deliver
<1>7. CASE DelPid
  <2>1. proc[q] = "run" /\ q # reaped /\ UNCHANGED <<pc, app, ret, broken>>
    BY <1>7 DEF DelPid, RequestInv, kernelVars, requestVars
  <2>2. /\ DOMAIN mp_app' \subseteq DOMAIN mp_app
        /\ \A a \in DOMAIN mp_app' : mp_app'[a] = mp_app[a]
        /\ \A a \in DOMAIN mp_app : mp_app[a] # reaped => a \in DOMAIN mp_app'
    <3>1. CASE EntriesOf(reaped) = {}
      BY <1>7, <3>1 DEF DelPid
    <3>2. CASE EntriesOf(reaped) # {}
      <4>1. PICK a \in EntriesOf(reaped) : mp_app' = Without(mp_app, a)
        BY <1>7, <3>2 DEF DelPid
      <4> QED BY <4>1 DEF Without, Restrict, EntriesOf
    <3> QED BY <3>1, <3>2
  <2> QED BY <2>1, <2>2 DEF AllSecure, Secure, JustForked, AboutToKill
<1>8. ASSUME NEW a \in Apps, Register(a) \/ Delete(a) PROVE Secure(q)'
  BY <1>8 DEF Register, Delete, At, AllSecure, Secure, JustForked, AboutToKill, kernelVars
<1>9. CASE ForkFails
  BY <1>9 DEF ForkFails, At, AllSecure, Secure, JustForked, AboutToKill, kernelVars
<1>10. CASE Insert
  <2>1. /\ app \notin DOMAIN mp_app /\ proc[q] = "run" /\ ~broken
        /\ pc = "insert" /\ pc' = "number" /\ UNCHANGED <<app, ret>>
    BY <1>10 DEF Insert, At, RequestInv, kernelVars
  <2>2. /\ DOMAIN mp_app' = DOMAIN mp_app \cup {app}
        /\ \A b \in DOMAIN mp_app : mp_app'[b] = mp_app[b]
    BY <1>10, <2>1 DEF Insert, Entry
  <2> QED BY <2>1, <2>2 DEF AllSecure, Secure, JustForked, AboutToKill
<1>11. CASE Number
  <2>1. proc[q] = "run" /\ ~broken /\ pc = "number" /\ pc' = "loop"
    BY <1>11 DEF Number, At, kernelVars
  <2>2. /\ DOMAIN mp_app' = DOMAIN mp_app \cup {app} /\ mp_app'[app] = ret
        /\ \A b \in DOMAIN mp_app : b # app => mp_app'[b] = mp_app[b]
    BY <1>11 DEF Number, Entry
  <2> QED BY <2>1, <2>2 DEF AllSecure, Secure, JustForked, AboutToKill
<1>12. CASE EraseApp
  <2>1. /\ proc[q] = "run" /\ ~broken /\ pc = "erase" /\ pc' = "kill"
        /\ app \in DOMAIN mp_app /\ ret' = mp_app[app] /\ mp_app' = Without(mp_app, app)
    BY <1>12 DEF EraseApp, Erased, At, kernelVars
  <2>2. /\ DOMAIN mp_app' = DOMAIN mp_app \ {app}
        /\ \A b \in DOMAIN mp_app' : mp_app'[b] = mp_app[b]
    BY <2>1 DEF Without, Restrict
  <2>3. PICK a \in DOMAIN mp_app : mp_app[a] = q
    BY <2>1 DEF AllSecure, Secure, JustForked, AboutToKill
  <2> QED BY <2>1, <2>2, <2>3 DEF Secure, AboutToKill
<1>13. CASE Kill
  <2>1. /\ proc[q] = "run" /\ ~broken /\ pc = "kill" /\ pc' = "loop"
        /\ UNCHANGED mp_app /\ q # ret
    BY <1>13 DEF Kill, At, TypeOK
  <2> QED BY <2>1 DEF AllSecure, Secure, JustForked, AboutToKill
<1>14. CASE UNCHANGED vars
  BY <1>1, <1>14 DEF vars, kernelVars
<1>15. \A p \in Pids : DiesKilled(p) \/ DiesAlone(p) => Ends(p)
  BY DEF DiesKilled, DiesAlone
<1>16. CASE WaitsForNobody
  BY <1>1, <1>16 DEF WaitsForNobody, kernelVars
<1> QED BY <1>2, <1>3, <1>4, <1>5, <1>6, <1>7, <1>8, <1>9, <1>10, <1>11, <1>12, <1>13,
           <1>14, <1>15, <1>16 DEF Next

-----------------------------------------------------------------------------
LEMMA StepOwn ==
  TypeOK /\ RequestInv /\ OwnInv /\ [Next]_vars => OwnInv'
<1> SUFFICES ASSUME TypeOK, RequestInv, OwnInv, [Next]_vars, deaths' = 0 PROVE OwnInv'
  BY DEF OwnInv
<1> DEFINE Before ==
      /\ ~broken
      /\ \A a \in DOMAIN mp_app : Unfinished(a) \/ Runs(mp_app[a], a)
      /\ pc \in {"insert", "number"} => Runs(ret, app)
      /\ pc = "erase" => app \in DOMAIN mp_app
      /\ pc = "kill" => app \notin DOMAIN mp_app /\ ret \in Pids /\ owner[ret] = app
<1>1. deaths = 0 => Before
  BY DEF OwnInv
(* The steps that leave mp_app and the request alone.                       *)
<1>2. ASSUME Before, UNCHANGED <<mp_app, requestVars, broken, owner>>,
             \A p \in Pids : proc[p] = "run" => proc'[p] = "run"
      PROVE  OwnInv'
  BY <1>2 DEF OwnInv, Unfinished, Runs, requestVars
<1>3. ASSUME Before, UNCHANGED <<proc, owner>>,
             /\ Insert \/ Number \/ EraseApp \/ ForkFails
                \/ \E a \in Apps : Register(a) \/ Delete(a)
      PROVE  OwnInv'
  <2>1. ASSUME NEW a \in Apps, Register(a) PROVE OwnInv'
    BY <1>3, <2>1 DEF Register, At, OwnInv, Unfinished, Runs
  <2>2. ASSUME NEW a \in Apps, Delete(a) PROVE OwnInv'
    BY <1>3, <2>2 DEF Delete, At, OwnInv, Unfinished, Runs
  <2>3. CASE ForkFails
    BY <1>3, <2>3 DEF ForkFails, At, OwnInv, Unfinished, Runs
  <2>4. CASE Insert
    <3>1. /\ app \notin DOMAIN mp_app /\ pc = "insert" /\ pc' = "number"
          /\ UNCHANGED <<app, ret, broken>>
      BY <2>4 DEF Insert, At, RequestInv
    <3>2. /\ DOMAIN mp_app' = DOMAIN mp_app \cup {app}
          /\ \A b \in DOMAIN mp_app : mp_app'[b] = mp_app[b]
      BY <2>4, <3>1 DEF Insert, Entry
    <3> QED BY <1>3, <3>1, <3>2 DEF OwnInv, Unfinished, Runs
  <2>5. CASE Number
    <3>1. pc = "number" /\ pc' = "loop" /\ broken' = broken
      BY <2>5 DEF Number, At
    <3>2. /\ DOMAIN mp_app' = DOMAIN mp_app \cup {app} /\ mp_app'[app] = ret
          /\ \A b \in DOMAIN mp_app : b # app => mp_app'[b] = mp_app[b]
      BY <2>5 DEF Number, Entry
    <3> QED BY <1>3, <3>1, <3>2 DEF OwnInv, Unfinished, Runs
  <2>6. CASE EraseApp
    <3>1. /\ pc = "erase" /\ pc' = "kill" /\ app \in DOMAIN mp_app /\ broken' = broken
          /\ ret' = mp_app[app] /\ mp_app' = Without(mp_app, app) /\ app' = app
      BY <1>3, <2>6 DEF EraseApp, Erased, At
    <3>2. /\ DOMAIN mp_app' = DOMAIN mp_app \ {app}
          /\ \A b \in DOMAIN mp_app' : mp_app'[b] = mp_app[b]
      BY <3>1 DEF Without, Restrict
    <3> QED BY <1>3, <3>1, <3>2 DEF OwnInv, Unfinished, Runs
  <2> QED BY <1>3, <2>1, <2>2, <2>3, <2>4, <2>5, <2>6
<1>4. ASSUME NEW p \in Pids, Fork(p) PROVE OwnInv'
  <2>1. /\ Before /\ proc[p] = "none" /\ pc = "fork" /\ pc' = "insert" /\ ret' = p
        /\ UNCHANGED <<mp_app, app, broken>>
    BY <1>1, <1>4 DEF Fork, At
  <2>2. /\ \A q \in Pids : q # p => proc'[q] = proc[q] /\ owner'[q] = owner[q]
        /\ proc'[p] = "run" /\ owner'[p] = app
    BY <1>4 DEF Fork, TypeOK
  <2> QED BY <2>1, <2>2 DEF OwnInv, Unfinished, Runs
<1>5. ASSUME NEW p \in Pids, DiesKilled(p) PROVE OwnInv'
  <2>1. Before /\ UNCHANGED <<mp_app, requestVars, broken, owner>> /\ proc[p] = "killed"
    BY <1>1, <1>5 DEF DiesKilled, Ends
  <2>2. \A q \in Pids : proc[q] = "run" => proc'[q] = "run"
    BY <1>5, <2>1 DEF DiesKilled, Ends, TypeOK
  <2> QED BY <1>2, <2>1, <2>2
<1>6. ASSUME NEW p \in Pids, DiesAlone(p) PROVE OwnInv'
  <2>1. deaths \in Nat /\ deaths' = deaths + 1
    BY <1>6, ServerAssumption DEF DiesAlone, TypeOK
  <2> QED BY <2>1
<1>7. ASSUME NEW p \in Pids, Stops(p) PROVE OwnInv'
  BY <1>1, <1>2, <1>7 DEF Stops
<1>8. ASSUME NEW p \in Pids, Wait(p) PROVE OwnInv'
  <2>1. Before /\ UNCHANGED <<mp_app, requestVars, broken, owner>> /\ proc[p] = "zombie"
    BY <1>1, <1>8 DEF Wait
  <2>2. \A q \in Pids : proc[q] = "run" => proc'[q] = "run"
    BY <1>8, <2>1 DEF Wait, TypeOK
  <2> QED BY <1>2, <2>1, <2>2
<1>9. CASE Deliver
  BY <1>1, <1>2, <1>9 DEF Deliver
<1>10. CASE DelPid
  <2>1. /\ Before
        /\ reaped \in Pids => proc[reaped] = "none"
        /\ UNCHANGED <<proc, owner, pc, app, ret, broken>>
    BY <1>1, <1>10 DEF DelPid, RequestInv, kernelVars, requestVars
  <2>2. /\ DOMAIN mp_app' \subseteq DOMAIN mp_app
        /\ \A a \in DOMAIN mp_app' : mp_app'[a] = mp_app[a]
        /\ \A a \in DOMAIN mp_app : mp_app[a] # reaped => a \in DOMAIN mp_app'
    <3>1. CASE EntriesOf(reaped) = {}
      BY <1>10, <3>1 DEF DelPid
    <3>2. CASE EntriesOf(reaped) # {}
      <4>1. PICK a \in EntriesOf(reaped) : mp_app' = Without(mp_app, a)
        BY <1>10, <3>2 DEF DelPid
      <4> QED BY <4>1 DEF Without, Restrict, EntriesOf
    <3> QED BY <3>1, <3>2
  <2>3. ASSUME NEW a \in DOMAIN mp_app, Runs(mp_app[a], a) PROVE mp_app[a] # reaped
    BY <2>1, <2>3 DEF Runs
  <2> QED BY <2>1, <2>2, <2>3 DEF OwnInv, Unfinished, Runs
<1>11. CASE Kill
  <2>1. /\ Before /\ pc = "kill" /\ pc' = "loop" /\ UNCHANGED <<mp_app, owner, broken>>
        /\ \A p \in Pids : p # ret => proc'[p] = proc[p]
    BY <1>1, <1>11 DEF Kill, At, TypeOK
  <2> QED BY <2>1 DEF OwnInv, Unfinished, Runs
<1>12. CASE UNCHANGED vars
  BY <1>1, <1>2, <1>12 DEF vars, kernelVars
<1>13. /\ Insert \/ Number \/ EraseApp \/ ForkFails => UNCHANGED <<proc, owner, deaths>>
       /\ \A a \in Apps : Register(a) \/ Delete(a) => UNCHANGED <<proc, owner, deaths>>
  BY DEF Insert, Number, EraseApp, ForkFails, Register, Delete, kernelVars
<1>14. CASE WaitsForNobody
  BY <1>1, <1>2, <1>14 DEF WaitsForNobody, kernelVars
<1> QED BY <1>1, <1>3, <1>4, <1>5, <1>6, <1>7, <1>8, <1>9, <1>10, <1>11, <1>12, <1>13,
           <1>14 DEF Next

LEMMA ServerInvariant == Spec => [](TypeOK /\ SignalInv)
<1>1. Init => SignalInv
  BY DEF Init, SignalInv
<1> QED BY <1>1, InitType, StepType, StepSignal, PTL DEF Spec

-----------------------------------------------------------------------------
(* Every place of a request and of sig_chld holds what it should, whatever  *)
(* the order of requests, deaths and signals (proxy_server.cpp 10-278).     *)
THEOREM ServerTypeCorrect == Spec => []TypeOK
BY ServerInvariant, PTL

(* sig_chld never stops the server while no Sudp is stopped                 *)
(* (proxy_server.cpp 15).                                                   *)
THEOREM HandlerReturns == Spec => []WaitNeverBlocks
<1>1. SignalInv => WaitNeverBlocks
  BY DEF SignalInv, WaitNeverBlocks, Zombie
<1> QED BY <1>1, ServerInvariant, PTL

(* Every running Sudp can be ended by a CMD_DELECT (proxy_server.cpp        *)
(* 166-174, 251-257, 268-276).                                              *)
THEOREM EveryProcessIsManaged == Spec => []NoRunaway
<1>1. Init => RequestInv /\ AllSecure
  BY DEF Init, RequestInv, AllSecure
<1>2. AllSecure => NoRunaway
  BY DEF AllSecure, Secure, NoRunaway, EntriesOf
<1> QED BY <1>1, <1>2, ServerInvariant, StepRequest, StepSecure, PTL DEF Spec

LEMMA OwnInvariant == Spec => []OwnInv
<1>1. Init => RequestInv /\ OwnInv
  BY DEF Init, RequestInv, OwnInv
<1> QED BY <1>1, ServerInvariant, StepRequest, StepOwn, PTL DEF Spec

(* While no Sudp ends on its own, E_EXIST is never said of an application   *)
(* without its process, and kill never hits another's (158, 257).           *)
THEOREM RegisteredHaveTheirProcess == Spec => []EntriesRun
<1>1. OwnInv => EntriesRun
  BY DEF OwnInv, EntriesRun, Unfinished, Runs
<1> QED BY <1>1, OwnInvariant, PTL

(* And the entry del_app has found is there when it erases it (253-255).    *)
THEOREM FoundIsErased == Spec => []ErasesOnce
<1>1. OwnInv => ErasesOnce
  BY DEF OwnInv, ErasesOnce
<1> QED BY <1>1, OwnInvariant, PTL

-----------------------------------------------------------------------------
(* Queue 0 is made once; after msgget a queue is lost only like the queue   *)
(* of a Sudp that receives.                                                 *)
QueueInv ==
  /\ zero_taken \/ \A p \in Pids : mqid[p] # 0
  /\ \A p \in Pids : stage[p] \in {"save", "serve"} /\ ~live[p] => mqid[p] = 0 /\ early

HostInv == HostTypeOK /\ QueueInv /\ LeavesNothing

-----------------------------------------------------------------------------
LEMMA StepRefines == [HostNext]_<<serverVars, hostVars>> => [Next]_vars
<1> SUFFICES ASSUME [HostNext]_<<serverVars, hostVars>> PROVE [Next]_vars
  OBVIOUS
<1>1. CASE UNCHANGED <<serverVars, hostVars>>
  BY <1>1 DEF serverVars
<1>2. CASE ServerStep
  BY <1>2 DEF ServerStep, Next
<1>3. ASSUME NEW p \in Pids, ForksSudp(p) \/ Reaps(p) PROVE Next
  BY <1>3 DEF ForksSudp, Reaps, Next
<1>4. ASSUME NEW p \in Pids, SudpStep(p) PROVE UNCHANGED vars
  BY <1>4 DEF SudpStep, SetsUp, Msgget, Saves, Goes, serverVars
<1>5. ASSUME NEW p \in Pids, SudpEnds(p) PROVE Next
  BY <1>5 DEF SudpEnds, Terminates, Crashes, StartFails, ServeFails, Next
<1> QED BY <1>1, <1>2, <1>3, <1>4, <1>5 DEF HostNext

(* What ProxyServer does and a Sudp does not see keeps which of them run.   *)
LEMMA ServerStepKeeps ==
  ASSUME TypeOK, HostInv, ServerStep
  PROVE  HostInv'
<1>1. UNCHANGED <<stage, mqid, mqid_save, live, zero_taken, early>>
  BY DEF ServerStep, hostVars
<1>2. \A p \in Pids : proc'[p] \in {"run", "killed"} <=> proc[p] \in {"run", "killed"}
  <2>1. CASE Kill
    BY <2>1 DEF Kill, TypeOK
  <2>2. CASE ~Kill
    <3>1. proc' = proc
      BY <2>2 DEF ServerStep, Register, Delete, ForkFails, Insert, Number, EraseApp,
           Deliver, WaitsForNobody, DelPid, Stops, kernelVars
    <3> QED BY <3>1
  <2> QED BY <2>1, <2>2
<1> QED BY <1>1, <1>2 DEF HostInv, HostTypeOK, QueueInv, LeavesNothing

(* The process of p begins or is forgotten.                                 *)
LEMMA ForgetsKeeps ==
  ASSUME TypeOK, HostInv, NEW p \in Pids, ForksSudp(p) \/ Reaps(p)
  PROVE  HostInv'
<1>1. PICK s \in {"exec", "none"} :
        /\ Forgets(p, s)
        /\ proc' = [proc EXCEPT ![p] = IF s = "exec" THEN "run" ELSE "none"]
  <2>1. CASE ForksSudp(p)
    BY <2>1 DEF ForksSudp, Fork
  <2>2. CASE Reaps(p)
    BY <2>2 DEF Reaps, Wait
  <2> QED BY <2>1, <2>2
<1>2. /\ stage' = [stage EXCEPT ![p] = s] /\ mqid' = [mqid EXCEPT ![p] = NoId]
      /\ mqid_save' = [mqid_save EXCEPT ![p] = 0] /\ live' = [live EXCEPT ![p] = FALSE]
      /\ zero_taken' = zero_taken /\ early' = early
  BY <1>1 DEF Forgets
<1>3. NoId \notin {0, 1}
  BY HostAssumption
<1>4. HostTypeOK'
  BY <1>1, <1>2, <1>3 DEF HostInv, HostTypeOK, TypeOK, Places
<1>5. QueueInv'
  BY <1>1, <1>2, <1>3 DEF HostInv, HostTypeOK, QueueInv
<1>6. LeavesNothing'
  BY <1>1, <1>2 DEF HostInv, HostTypeOK, LeavesNothing
<1> QED BY <1>4, <1>5, <1>6 DEF HostInv

LEMMA SetsUpKeeps ==
  ASSUME TypeOK, HostInv, NEW p \in Pids, SetsUp(p)
  PROVE  HostInv'
<1>1. /\ stage[p] = "exec" /\ stage' = [stage EXCEPT ![p] = "bind"] /\ proc' = proc
      /\ UNCHANGED <<mqid, mqid_save, live, zero_taken, early>>
  BY DEF SetsUp, Goes, serverVars, vars, kernelVars
<1>2. HostTypeOK'
  BY <1>1 DEF HostInv, HostTypeOK, Places
<1>3. QueueInv' /\ LeavesNothing'
  BY <1>1 DEF HostInv, HostTypeOK, QueueInv, LeavesNothing
<1> QED BY <1>2, <1>3 DEF HostInv

LEMMA MsggetKeeps ==
  ASSUME TypeOK, HostInv, NEW p \in Pids, Msgget(p)
  PROVE  HostInv'
<1> DEFINE id == IF zero_taken THEN 1 ELSE 0
<1>1. /\ stage[p] = "bind" /\ stage' = [stage EXCEPT ![p] = "save"] /\ proc' = proc
      /\ mqid' = [mqid EXCEPT ![p] = id] /\ live' = [live EXCEPT ![p] = TRUE]
      /\ zero_taken' = TRUE /\ UNCHANGED <<mqid_save, early>>
  BY DEF Msgget, Goes, serverVars, vars, kernelVars
<1>2. /\ id \in {0, 1} /\ id # NoId
      /\ id = 0 => \A q \in Pids : mqid[q] # 0
  BY HostAssumption DEF HostInv, QueueInv
<1> HIDE DEF id
<1>3. HostTypeOK'
  BY <1>1, <1>2 DEF HostInv, HostTypeOK, Places
<1>4. QueueInv' /\ LeavesNothing'
  BY <1>1, <1>2 DEF HostInv, HostTypeOK, QueueInv, LeavesNothing
<1> QED BY <1>3, <1>4 DEF HostInv

LEMMA SavesKeeps ==
  ASSUME TypeOK, HostInv, NEW p \in Pids, Saves(p)
  PROVE  HostInv'
<1>1. /\ stage[p] = "save" /\ stage' = [stage EXCEPT ![p] = "serve"] /\ proc' = proc
      /\ mqid_save' = [mqid_save EXCEPT ![p] = mqid[p]]
      /\ UNCHANGED <<mqid, live, zero_taken, early>>
  BY DEF Saves, Saved, Goes, serverVars, vars, kernelVars
<1>2. mqid[p] \in {0, 1}
  BY <1>1 DEF HostInv, HostTypeOK
<1>3. HostTypeOK'
  BY <1>1, <1>2 DEF HostInv, HostTypeOK, Places
<1>4. QueueInv' /\ LeavesNothing'
  BY <1>1 DEF HostInv, HostTypeOK, QueueInv, LeavesNothing
<1> QED BY <1>3, <1>4 DEF HostInv

-----------------------------------------------------------------------------
(* A process ends with my_exit1: where it has saved its id it removes its   *)
(* own queue, elsewhere it is early.                                        *)
LEMMA ExitKeeps ==
  ASSUME TypeOK, HostInv, NEW p \in Pids, stage[p] \in Places, my_exit1(p),
         proc' = [proc EXCEPT ![p] = "zombie"]
  PROVE  HostInv'
<1> DEFINE s == IF stage[p] = "serve" THEN "exited" ELSE "early"
<1>1. /\ stage' = [stage EXCEPT ![p] = s]
      /\ live' = [q \in Pids |-> live[q] /\ q \notin Removed(p)]
      /\ early' = (early \/ stage[p] # "serve")
      /\ UNCHANGED <<mqid, mqid_save, zero_taken>>
  BY DEF my_exit1
<1>2. s \in {"exited", "early"} /\ (s = "exited" <=> stage[p] = "serve")
  OBVIOUS
<1> HIDE DEF s
<1>3. HostTypeOK'
  BY <1>1, <1>2 DEF HostInv, HostTypeOK, TypeOK, Places
<1>4. ASSUME NEW q \in Removed(p) PROVE q = p \/ mqid[q] = 0
  BY <1>4 DEF Removed
<1>5. stage[p] = "serve" => p \in Removed(p) /\ \A q \in Removed(p) : q = p
  BY DEF Removed, HostInv, HostTypeOK
<1>6. QueueInv'
  <2> SUFFICES ASSUME NEW q \in Pids, stage'[q] \in {"save", "serve"}, ~live'[q]
               PROVE  mqid[q] = 0 /\ early'
    BY <1>1 DEF HostInv, QueueInv
  <2>1. q # p /\ stage[q] = stage'[q]
    BY <1>1, <1>2 DEF HostInv, HostTypeOK
  <2>2. CASE ~live[q]
    BY <1>1, <2>1, <2>2 DEF HostInv, QueueInv
  <2>3. CASE live[q]
    <3>1. q \in Removed(p)
      BY <1>1, <2>3
    <3> QED BY <1>1, <1>4, <1>5, <2>1, <3>1
  <2> QED BY <2>2, <2>3
<1>7. LeavesNothing'
  <2> SUFFICES ASSUME NEW q \in Pids, stage'[q] = "exited" PROVE ~live'[q]
    BY DEF LeavesNothing
  <2>1. CASE q = p
    BY <1>1, <1>2, <1>5, <2>1 DEF HostInv, HostTypeOK
  <2>2. CASE q # p
    BY <1>1, <2>2 DEF HostInv, HostTypeOK, LeavesNothing
  <2> QED BY <2>1, <2>2
<1> QED BY <1>3, <1>6, <1>7 DEF HostInv

LEMMA VanishesKeeps ==
  ASSUME TypeOK, HostInv, NEW p \in Pids, Vanishes(p),
         proc' = [proc EXCEPT ![p] = "zombie"]
  PROVE  HostInv'
<1>1. /\ stage' = [stage EXCEPT ![p] = "crashed"]
      /\ UNCHANGED <<mqid, mqid_save, live, zero_taken, early>>
  BY DEF Vanishes
<1>2. HostTypeOK'
  BY <1>1 DEF HostInv, HostTypeOK, TypeOK, Places
<1>3. QueueInv' /\ LeavesNothing'
  BY <1>1 DEF HostInv, HostTypeOK, QueueInv, LeavesNothing
<1> QED BY <1>2, <1>3 DEF HostInv

LEMMA EndKeeps ==
  ASSUME TypeOK, HostInv, NEW p \in Pids, SudpEnds(p)
  PROVE  HostInv'
<1>1. proc' = [proc EXCEPT ![p] = "zombie"] /\ proc[p] \in {"run", "killed"}
  BY DEF SudpEnds, Terminates, Crashes, StartFails, ServeFails, DiesKilled, DiesAlone, Ends
<1>2. stage[p] \in Places
  BY <1>1 DEF HostInv, HostTypeOK
<1>3. my_exit1(p) \/ Vanishes(p)
  BY DEF SudpEnds, Terminates, Crashes, StartFails, ServeFails
<1> QED BY <1>1, <1>2, <1>3, ExitKeeps, VanishesKeeps

LEMMA InitHostInv == HostInit => HostInv
<1> SUFFICES ASSUME HostInit PROVE HostInv
  OBVIOUS
<1>1. NoId \notin {0, 1}
  BY HostAssumption
<1>2. HostTypeOK
  BY <1>1 DEF HostInit, Init, HostTypeOK, Places
<1>3. QueueInv /\ LeavesNothing
  BY <1>1 DEF HostInit, QueueInv, LeavesNothing
<1> QED BY <1>2, <1>3 DEF HostInv

LEMMA StepHostInv == TypeOK /\ HostInv /\ [HostNext]_<<serverVars, hostVars>> => HostInv'
<1> SUFFICES ASSUME TypeOK, HostInv, [HostNext]_<<serverVars, hostVars>> PROVE HostInv'
  OBVIOUS
<1>1. CASE UNCHANGED <<serverVars, hostVars>>
  BY <1>1 DEF serverVars, vars, kernelVars, hostVars, HostInv, HostTypeOK, QueueInv,
       LeavesNothing
<1>2. CASE ServerStep
  BY <1>2, ServerStepKeeps
<1>3. ASSUME NEW p \in Pids, ForksSudp(p) \/ Reaps(p) PROVE HostInv'
  BY <1>3, ForgetsKeeps
<1>4. ASSUME NEW p \in Pids, SudpStep(p) PROVE HostInv'
  BY <1>4, SetsUpKeeps, MsggetKeeps, SavesKeeps DEF SudpStep
<1>5. ASSUME NEW p \in Pids, SudpEnds(p) PROVE HostInv'
  BY <1>5, EndKeeps
<1> QED BY <1>1, <1>2, <1>3, <1>4, <1>5 DEF HostNext

-----------------------------------------------------------------------------
(* The server and its Sudps behave as ProxyServer says, so what is proved   *)
(* of it holds here (proxy_server.cpp 222-242, Sudp.c 101-381).             *)
THEOREM HostRefinesServer == HostSpec => Spec
<1>1. HostInit => Init
  BY DEF HostInit
<1> QED BY <1>1, StepRefines, PTL DEF HostSpec, Spec

(* What is said of the Sudps' stages and queues is inductive, in every      *)
(* order of requests, signals and deaths (SudpProcesses.tla).               *)
THEOREM HostInvariant == HostSpec => []HostInv
<1>1. HostSpec => []TypeOK
  BY HostRefinesServer, ServerTypeCorrect, PTL
<1> QED BY <1>1, InitHostInv, StepHostInv, PTL DEF HostSpec

(* What is known of a Sudp at each place of its life (Sudp.c 101-243).      *)
THEOREM StagesAreRight == HostSpec => []HostTypeOK
<1>1. HostInv => HostTypeOK
  BY DEF HostInv
<1> QED BY <1>1, HostInvariant, PTL

(* Only queue 0 is ever taken from a Sudp that receives, and only by one    *)
(* that ended before it had saved its own id (Sudp.c 204, 376).             *)
THEOREM OthersKeepTheirQueue == HostSpec => []OnlyZeroIsLost
<1>1. HostInv => OnlyZeroIsLost
  BY DEF HostInv, QueueInv, OnlyZeroIsLost
<1> QED BY <1>1, HostInvariant, PTL

(* A Sudp that exits once it receives removes its queue (Sudp.c 376).       *)
THEOREM ExitLeavesNothing == HostSpec => []LeavesNothing
<1>1. HostInv => LeavesNothing
  BY DEF HostInv
<1> QED BY <1>1, HostInvariant, PTL

=============================================================================
