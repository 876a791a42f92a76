----------------------------- MODULE SpeedManger -----------------------------
(***************************************************************************)
(* The bandwidth budget that the file_threads of one client share (class   *)
(* SpeedManger, proxy_client.cpp) and the part of SendPack_ex (Cudp.cpp)   *)
(* that takes from it and gives back.  query_speed and return_speed are    *)
(* critical sections under speed_lock.                                     *)
(***************************************************************************)
EXTENDS Integers, FiniteSets, Functions

CONSTANTS
  Threads,    \* file_threads, one per registered application
  MaxSpeeds,  \* what main may set max_speed to: 1..1999, or the default
  BaseSpeed,  \* base_speed: a tenth of the default, which set_speed keeps
  MaxKills    \* bound: applications deleted while they send

ASSUME SpeedAssumption ==
  /\ IsFiniteSet(Threads)
  /\ BaseSpeed \in Nat \ {0}
  /\ MaxSpeeds \subseteq Nat \ {0}
  /\ MaxKills \in Nat

VARIABLES
  max_speed,
  current_speed,
  queryed,   \* queryed[t]: what t has been granted and not returned
  pc,        \* "idle": between files, "query": about to ask, "send"
  crashed,   \* the process got SIGFPE
  lost,      \* history: what killed threads had been granted
  kills

vars == <<max_speed, current_speed, queryed, pc, crashed, lost, kills>>

Init ==
  /\ max_speed \in MaxSpeeds /\ current_speed = 0
  /\ queryed = [t \in Threads |-> 0]
  /\ pc = [t \in Threads |-> "idle"]
  /\ crashed = FALSE /\ lost = 0 /\ kills = 0

-----------------------------------------------------------------------------
idle_speed == max_speed - current_speed

(* n/2, which C rounds towards 0                                            *)
Half(n) == IF n < 0 THEN -((-n) \div 2) ELSE n \div 2

(* Mutations: all that is left; the margin in the wrong branch.             *)
GrantAll == idle_speed
GrantSwapped ==
  IF idle_speed > Half(max_speed) THEN Half(idle_speed) ELSE Half(idle_speed) - BaseSpeed
Grant ==
  IF idle_speed > Half(max_speed) THEN Half(idle_speed) - BaseSpeed ELSE Half(idle_speed)

(* Mutation: return_speed is not given what was granted.                    *)
ReturnedBase(t) == current_speed - BaseSpeed
Returned(t) == current_speed - queryed[t]

(* A file is opened and its first packet read.                              *)
OpensFile(t) ==
  /\ ~crashed /\ pc[t] = "idle"
  /\ pc' = [pc EXCEPT ![t] = "query"]
  /\ UNCHANGED <<max_speed, current_speed, queryed, crashed, lost, kills>>

(* query_speed, then 8016*pack_t / queryed.                                 *)
query_speed(t) ==
  /\ ~crashed /\ pc[t] = "query"
  /\ queryed' = [queryed EXCEPT ![t] = Grant]
  /\ current_speed' = current_speed + Grant
  /\ crashed' = (Grant = 0)
  /\ pc' = [pc EXCEPT ![t] = "send"]
  /\ UNCHANGED <<max_speed, lost, kills>>

(* return_speed: after pack_t packets, before the next query, or at the end *)
(* of SendPack_ex, whether it has sent the file or failed.                  *)
return_speed(t) ==
  /\ ~crashed /\ pc[t] = "send"
  /\ current_speed' = IF Returned(t) < 0 THEN 0 ELSE Returned(t)
  /\ queryed' = [queryed EXCEPT ![t] = 0]
  /\ \E next \in {"query", "idle"} : pc' = [pc EXCEPT ![t] = next]
  /\ UNCHANGED <<max_speed, crashed, lost, kills>>

(* Del_App: pthread_cancel takes effect in sendto, read or usleep, and      *)
(* nothing returns the grant.  Another application's thread takes t's place.*)
Killed(t) ==
  /\ ~crashed /\ pc[t] = "send" /\ kills < MaxKills
  /\ lost' = lost + queryed[t]
  /\ queryed' = [queryed EXCEPT ![t] = 0]
  /\ pc' = [pc EXCEPT ![t] = "idle"]
  /\ kills' = kills + 1
  /\ UNCHANGED <<max_speed, current_speed, crashed>>

Next ==
  \E t \in Threads : OpensFile(t) \/ query_speed(t) \/ return_speed(t) \/ Killed(t)

Spec == Init /\ [][Next]_vars

-----------------------------------------------------------------------------
(* base_speed is kept at 80 whatever max_speed is configured                *)
(* (udp-file-proxy.cpp 122-126, proxy_client.cpp 407-410).                  *)
MarginFits == 2 * BaseSpeed <= max_speed

(* If the margin fits twice into max_speed, the budget is never overdrawn,  *)
(* nor used up to the last unit: half of what is left always stays (line    *)
(* 352).  If not, it goes below zero, by no more than what is missing.      *)
TypeOK ==
  /\ max_speed \in MaxSpeeds
  /\ current_speed \in Int
  /\ MarginFits => current_speed \in 0..(max_speed - 1)
  /\ ~MarginFits => current_speed >= max_speed - 2 * BaseSpeed
  /\ queryed \in [Threads -> Int]
  /\ pc \in [Threads -> {"idle", "query", "send"}]
  /\ crashed \in BOOLEAN /\ lost \in Int /\ kills \in 0..MaxKills

(* One application gets half of max_speed at most, whatever max_speed is    *)
(* (line 353).  The margin that line 355 keeps makes a grant negative,      *)
(* which usleep takes for more than an hour, only if it does not fit twice  *)
(* into max_speed; main accepts such a max_speed, and then it happens.      *)
FairShare ==
  \A t \in Threads :
    /\ queryed[t] <= max_speed \div 2
    /\ MarginFits => queryed[t] >= 0

(* No part of the budget is granted twice: at least what the senders hold   *)
(* and what those that were killed took with them is gone from it.  It is   *)
(* exactly that unless the margin does not fit: then a negative grant makes *)
(* return_speed cut at zero, and what it cuts off is lost (line 372).       *)
Total(f) == FoldFunction(LAMBDA x, y : x + y, 0, f)
Accounted ==
  /\ Total(queryed) + lost <= current_speed
  /\ MarginFits => current_speed = Total(queryed) + lost

(* A full budget is something to wait for (proxy_proto.h 31), not to divide *)
(* by (Cudp.cpp 280).                                                       *)
WaitsWhenFull == ~crashed

=============================================================================
