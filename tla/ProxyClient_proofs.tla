------------------------- MODULE ProxyClient_proofs -------------------------
(***************************************************************************)
(* Proofs about ProxyClient for any names, any addresses and any number of *)
(* failures.  As in SendList_proofs the pointers are tied to a history     *)
(* variable, and a cursor is said to point to the i-th application.        *)
(***************************************************************************)
EXTENDS ProxyClient, SequenceFacts

(* None of the first k applications has the name of the request.            *)
Passed(k) == \A j \in 1..k : app_name[apps[j]] # name

(* Where the cursors of the request are.                                    *)
CursorOK ==
  /\ op \in {"add", "create"} =>
       /\ info \in used /\ info \notin Listed /\ info \notin cancel
       /\ thread[info] = "none" /\ app_name[info] = name
  /\ op \in {"add", "file"} => \E i \in 1..Len(apps) : tmp = apps[i] /\ Passed(i - 1)
  /\ op = "file" => file \in Files
  /\ op = "create" => /\ Passed(Len(apps))
                      /\ tmp = IF apps = << >> THEN NULL ELSE apps[Len(apps)]
  /\ op = "del" =>
       \/ tmp = NULL
       \/ \E i \in 1..Len(apps) : /\ tmp = apps[i] /\ Passed(i - 1)
                                  /\ per = apps[IF i = 1 THEN 1 ELSE i - 1]

(* An address that is free has no thread, a listed one is not free.         *)
AddressOK == Listed \subseteq used /\ \A a \in Apps \ used : thread[a] = "none"

CrashOK == crashed => op = "create" /\ apps = << >>

ClientInv == TypeOK /\ WellLinked /\ NoRunawayThread /\ CursorOK /\ AddressOK /\ CrashOK

LEMMA AppsFacts ==
  ASSUME TypeOK
  PROVE  /\ apps \in Seq(Apps) /\ Len(apps) \in Nat
         /\ \A i \in 1..Len(apps) : apps[i] \in Apps /\ apps[i] \in Listed /\ apps[i] # NULL
         /\ (Len(apps) = 0 <=> apps = << >>)
<1>1. apps \in Seq(Apps)
  BY DEF TypeOK
<1>2. Len(apps) \in Nat /\ (Len(apps) = 0 <=> apps = << >>)
  BY <1>1, EmptyFacts
<1>3. \A i \in 1..Len(apps) : apps[i] \in Apps
  BY <1>1, ElementOfSeq
<1> QED BY <1>1, <1>2, <1>3, ClientAssumption DEF Listed

(* While no application is being created the chain is the registered ones.  *)
LEMMA ChainIsApps ==
  ASSUME TypeOK, WellLinked, op # "create"
  PROVE  /\ applist = IF apps = << >> THEN NULL ELSE apps[1]
         /\ \A i \in 1..Len(apps) :
              next[apps[i]] = IF i = Len(apps) THEN NULL ELSE apps[i + 1]
         /\ \A i, j \in 1..Len(apps) : app_name[apps[i]] = app_name[apps[j]] => i = j
         /\ (applist = NULL <=> apps = << >>)
<1>1. Chain = apps
  BY DEF Chain
<1>2. /\ applist = IF apps = << >> THEN NULL ELSE apps[1]
      /\ \A i \in 1..Len(apps) :
           next[apps[i]] = IF i = Len(apps) THEN NULL ELSE apps[i + 1]
      /\ \A i, j \in 1..Len(apps) : app_name[apps[i]] = app_name[apps[j]] => i = j
  BY <1>1 DEF WellLinked
<1>3. apps # << >> => apps[1] # NULL
  BY AppsFacts
<1> QED BY <1>2, <1>3

LEMMA InitClientInv == Init => ClientInv
<1> SUFFICES ASSUME Init PROVE ClientInv
  OBVIOUS
<1>1. /\ << >> \in Seq(Apps) /\ << >> \in Seq(Files) /\ Len(<< >>) = 0
      /\ apps = << >> /\ 1..Len(apps) = {}
  BY EmptySeq DEF Init
<1>2. Listed = {} /\ Chain = << >>
  BY <1>1 DEF Init, Listed, Chain
<1>3. TypeOK
  <2>1. \A a \in Apps : list_c[a] = << >> /\ Len(list_c[a]) <= MaxLine
    BY <1>1, ClientAssumption DEF Init
  <2>2. list_c \in [Apps -> Seq(Files)]
    BY <1>1 DEF Init
  <2>3. /\ next \in [Apps -> Apps \cup {NULL}] /\ app_name \in [Apps -> Names \cup {NULL}]
        /\ thread \in [Apps -> {"none", "start", "loop", "send", "returned", "dead"}]
    BY DEF Init
  <2>4. faults \in 0..MaxFaults
    BY ClientAssumption DEF Init
  <2>5. applist = NULL /\ used = {} /\ cancel = {} /\ op = "idle" /\ crashed = FALSE
    BY DEF Init
  <2>6. name = NULL /\ file = NULL /\ info = NULL /\ tmp = NULL /\ per = NULL
    BY DEF Init
  <2> QED BY <1>1, <2>1, <2>2, <2>3, <2>4, <2>5, <2>6 DEF TypeOK
<1>4. WellLinked
  BY <1>1, <1>2 DEF Init, WellLinked
<1>5. NoRunawayThread /\ CursorOK /\ AddressOK /\ CrashOK
  BY <1>2 DEF Init, NoRunawayThread, CursorOK, AddressOK, CrashOK
<1> QED BY <1>3, <1>4, <1>5 DEF ClientInv

(* A step that leaves the list alone.                                       *)
LEMMA SameList ==
  ASSUME WellLinked, UNCHANGED <<applist, next, app_name, apps>>,
         op # "create", op' # "create"
  PROVE  WellLinked'
BY DEF WellLinked, Chain

(* It leaves the threads alone too and ends or goes on with a request.      *)
LEMMA SameThreads ==
  ASSUME NoRunawayThread, AddressOK, UNCHANGED <<apps, thread, cancel>>, used' = used
  PROVE  NoRunawayThread' /\ AddressOK'
BY DEF NoRunawayThread, AddressOK, Listed

LEMMA ReturnKeeps ==
  ASSUME ClientInv, NEW c, NEW e, Return(c, e), UNCHANGED <<listVars, thread, cancel, crashed, faults>>,
         op # "create",
         list_c' \in [Apps -> Seq(Files)], \A a \in Apps : Len(list_c'[a]) <= MaxLine
  PROVE  ClientInv'
<1>1. TypeOK /\ WellLinked /\ NoRunawayThread /\ CursorOK /\ AddressOK /\ CrashOK
  BY DEF ClientInv
<1>2. WellLinked' /\ NoRunawayThread' /\ AddressOK'
  BY <1>1, SameList, SameThreads DEF Return, listVars
<1>3. TypeOK'
  BY <1>1 DEF TypeOK, Return, listVars
<1>4. CursorOK' /\ CrashOK'
  BY <1>1 DEF CursorOK, CrashOK, Return, listVars
<1> QED BY <1>2, <1>3, <1>4 DEF ClientInv

-----------------------------------------------------------------------------
(* CMD_REGISTER: a free address has no thread and is on no list.            *)
LEMMA NewFacts ==
  ASSUME ClientInv, NEW n \in Names, NEW a \in Apps, New(n, a)
  PROVE  /\ a \notin Listed /\ a \notin cancel /\ thread[a] = "none"
         /\ app_name'[a] = n
         /\ \A b \in Apps : b # a => app_name'[b] = app_name[b]
         /\ app_name' \in [Apps -> Names \cup {NULL}]
         /\ list_c' \in [Apps -> Seq(Files)] /\ \A b \in Apps : Len(list_c'[b]) <= MaxLine
         /\ Listed' = Listed /\ NoRunawayThread' /\ AddressOK'
<1>1. TypeOK /\ NoRunawayThread /\ AddressOK
  BY DEF ClientInv
<1>2. a \notin Listed /\ a \notin cancel /\ thread[a] = "none"
  BY <1>1 DEF TypeOK, AddressOK, New
<1>3. /\ app_name' \in [Apps -> Names \cup {NULL}] /\ app_name'[a] = n
      /\ \A b \in Apps : b # a => app_name'[b] = app_name[b]
  BY <1>1 DEF TypeOK, New
<1>4. list_c' \in [Apps -> Seq(Files)] /\ \A b \in Apps : Len(list_c'[b]) <= MaxLine
  <2>1. << >> \in Seq(Files) /\ Len(<< >>) = 0
    BY EmptySeq
  <2> QED BY <1>1, <2>1, ClientAssumption DEF TypeOK, New
<1>5. apps' = apps /\ thread' = thread /\ cancel' = cancel /\ used' = used \cup {a}
  BY DEF New
<1>6. Listed' = Listed
  BY <1>5 DEF Listed
<1>7. NoRunawayThread' /\ AddressOK'
  BY <1>1, <1>5, <1>6 DEF NoRunawayThread, AddressOK
<1> QED BY <1>2, <1>3, <1>4, <1>6, <1>7

LEMMA RegisterFirstKeeps ==
  ASSUME ClientInv, NEW n \in Names, NEW a \in Apps, RegisterFirst(n, a)
  PROVE  ClientInv'
<1>1. TypeOK /\ WellLinked /\ New(n, a)
  BY DEF ClientInv, RegisterFirst
<1>2. op # "create" /\ ~crashed /\ apps' = apps /\ applist = NULL
  BY DEF RegisterFirst, New
<1>3. apps = << >> /\ Len(apps) = 0 /\ apps \in Seq(Apps)
  BY <1>1, <1>2, ChainIsApps, AppsFacts
<1>4. op' = "create" /\ info' = a /\ name' = n /\ tmp' = NULL /\ applist' = a
  BY <1>2 DEF RegisterFirst, New
<1>5. TypeOK'
  <2>1. /\ next' \in [Apps -> Apps \cup {NULL}] /\ used' \subseteq Apps /\ cancel' \subseteq used'
    BY <1>1 DEF TypeOK, RegisterFirst, New
  <2>2. /\ applist' \in Apps \cup {NULL} /\ apps' \in Seq(Apps) /\ op' = "create"
        /\ name' \in Names \cup {NULL} /\ info' \in Apps \cup {NULL} /\ tmp' \in Apps \cup {NULL}
    BY <1>2, <1>3, <1>4
  <2>3. thread' = thread /\ file' = file /\ per' = per /\ crashed' = crashed /\ faults' = faults
    BY <1>1 DEF New
  <2>4. /\ app_name' \in [Apps -> Names \cup {NULL}]
        /\ list_c' \in [Apps -> Seq(Files)] /\ \A b \in Apps : Len(list_c'[b]) <= MaxLine
    BY <1>1, NewFacts
  <2> QED BY <1>1, <2>1, <2>2, <2>3, <2>4 DEF TypeOK
<1>6. WellLinked'
  <2>1. Chain' = Append(apps, a)
    BY <1>2, <1>4 DEF Chain
  <2>2. Len(Chain') = 1 /\ Chain'[1] = a /\ Chain' # << >>
    BY <1>3, <2>1, AppendFacts, EmptyFacts
  <2>3. next'[a] = NULL
    BY <1>1 DEF TypeOK, RegisterFirst
  <2> QED BY <1>4, <2>2, <2>3 DEF WellLinked
<1>7. CursorOK'
  <2>1. info' \in used' /\ info' \notin Listed' /\ info' \notin cancel'
        /\ thread'[info'] = "none" /\ app_name'[info'] = name'
    <3>1. a \notin Listed' /\ a \notin cancel /\ thread[a] = "none" /\ app_name'[a] = n
      BY <1>1, NewFacts
    <3>2. used' = used \cup {a} /\ cancel' = cancel /\ thread' = thread
      BY <1>1 DEF New
    <3> QED BY <1>4, <3>1, <3>2
  <2>2. Passed(Len(apps))'
    BY <1>2, <1>3 DEF Passed
  <2> QED BY <1>2, <1>3, <1>4, <2>1, <2>2 DEF CursorOK
<1>8. CrashOK'
  BY <1>1, <1>2 DEF CrashOK, New
<1> QED BY <1>1, <1>5, <1>6, <1>7, <1>8, NewFacts DEF ClientInv

LEMMA RegisterKeeps ==
  ASSUME ClientInv, NEW n \in Names, NEW a \in Apps, Register(n, a)
  PROVE  ClientInv'
<1>1. TypeOK /\ WellLinked /\ New(n, a)
  BY DEF ClientInv, Register
<1>2. op # "create" /\ ~crashed /\ apps' = apps /\ applist # NULL
      /\ applist' = applist /\ next' = next
  BY DEF Register, New
<1>3. apps # << >> /\ Len(apps) \in Nat \ {0} /\ applist = apps[1]
  BY <1>1, <1>2, ChainIsApps, AppsFacts
<1>4. op' = "add" /\ info' = a /\ name' = n /\ tmp' = applist
  BY DEF Register, New
<1>5. TypeOK'
  <2>1. /\ next' \in [Apps -> Apps \cup {NULL}] /\ used' \subseteq Apps /\ cancel' \subseteq used'
    BY <1>1, <1>2 DEF TypeOK, New
  <2>2. /\ applist' \in Apps \cup {NULL} /\ apps' \in Seq(Apps) /\ op' = "add"
        /\ name' \in Names \cup {NULL} /\ info' \in Apps \cup {NULL} /\ tmp' \in Apps \cup {NULL}
    BY <1>1, <1>2, <1>4 DEF TypeOK
  <2>3. thread' = thread /\ file' = file /\ per' = per /\ crashed' = crashed /\ faults' = faults
    BY <1>1 DEF New
  <2>4. /\ app_name' \in [Apps -> Names \cup {NULL}]
        /\ list_c' \in [Apps -> Seq(Files)] /\ \A b \in Apps : Len(list_c'[b]) <= MaxLine
    BY <1>1, NewFacts
  <2> QED BY <1>1, <2>1, <2>2, <2>3, <2>4 DEF TypeOK
<1>6. WellLinked'
  <2>1. Chain = apps /\ Chain' = apps
    BY <1>2, <1>4 DEF Chain
  <2>2. \A i \in 1..Len(apps) : app_name'[apps[i]] = app_name[apps[i]]
    <3>1. \A i \in 1..Len(apps) : apps[i] \in Apps /\ apps[i] \in Listed
      BY <1>1, AppsFacts
    <3>2. a \notin Listed /\ \A b \in Apps : b # a => app_name'[b] = app_name[b]
      BY <1>1, NewFacts
    <3> QED BY <3>1, <3>2
  <2> QED BY <1>1, <1>2, <2>1, <2>2 DEF WellLinked
<1>7. CursorOK'
  <2>1. 1 \in 1..Len(apps') /\ tmp' = apps'[1] /\ Passed(0)'
    BY <1>2, <1>3, <1>4 DEF Passed
  <2>2. \E i \in 1..Len(apps') : tmp' = apps'[i] /\ Passed(i - 1)'
    BY <2>1, 1 - 1 = 0
  <2>3. info' \in used' /\ info' \notin Listed' /\ info' \notin cancel'
        /\ thread'[info'] = "none" /\ app_name'[info'] = name'
    <3>1. a \notin Listed' /\ a \notin cancel /\ thread[a] = "none" /\ app_name'[a] = n
      BY <1>1, NewFacts
    <3>2. used' = used \cup {a} /\ cancel' = cancel /\ thread' = thread
      BY <1>1 DEF New
    <3> QED BY <1>4, <3>1, <3>2
  <2> QED BY <1>4, <2>2, <2>3 DEF CursorOK
<1>8. CrashOK'
  BY <1>1, <1>2 DEF CrashOK, New
<1> QED BY <1>1, <1>5, <1>6, <1>7, <1>8, NewFacts DEF ClientInv

-----------------------------------------------------------------------------
(* The walks.  Where a request is, seen from the list.                      *)
LEMMA CursorFacts ==
  ASSUME ClientInv, op \in {"add", "file"}
  PROVE  \E i \in 1..Len(apps) :
           /\ tmp = apps[i] /\ Passed(i - 1)
           /\ next[tmp] = IF i = Len(apps) THEN NULL ELSE apps[i + 1]
           /\ AtEnd <=> i = Len(apps)
<1>1. TypeOK /\ WellLinked /\ CursorOK /\ op # "create"
  BY DEF ClientInv
<1>2. PICK i \in 1..Len(apps) : tmp = apps[i] /\ Passed(i - 1)
  BY <1>1 DEF CursorOK
<1>3. next[tmp] = IF i = Len(apps) THEN NULL ELSE apps[i + 1]
  BY <1>1, <1>2, ChainIsApps
<1>4. i # Len(apps) => i + 1 \in 1..Len(apps) /\ apps[i + 1] # NULL
  BY <1>1, AppsFacts
<1>5. AtEnd <=> i = Len(apps)
  BY <1>3, <1>4 DEF AtEnd
<1> QED BY <1>2, <1>3, <1>5

(* One more application is passed.                                          *)
LEMMA PassOne ==
  ASSUME TypeOK, NEW i \in 1..Len(apps), tmp = apps[i], Passed(i - 1), ~Matches
  PROVE  Passed(i)
<1>1. \A j \in 1..i : j \in 1..(i - 1) \/ j = i
  BY AppsFacts
<1> QED BY <1>1 DEF Passed, Matches

LEMMA AdvanceKeeps ==
  ASSUME ClientInv, op \in {"add", "file"}, ~Matches, ~AtEnd, Advance
  PROVE  ClientInv'
<1>1. TypeOK /\ WellLinked /\ NoRunawayThread /\ CursorOK /\ AddressOK /\ CrashOK
  BY DEF ClientInv
<1>2. UNCHANGED <<listVars, threadVars, op, name, file, info, per, answer, crashed, faults>>
      /\ tmp' = next[tmp]
  BY DEF Advance
<1>3. UNCHANGED <<applist, next, app_name, used, apps, list_c, thread, cancel>>
  BY <1>2 DEF listVars, threadVars
<1>4. PICK i \in 1..Len(apps) :
        /\ tmp = apps[i] /\ Passed(i - 1) /\ i # Len(apps) /\ next[tmp] = apps[i + 1]
  BY CursorFacts
<1>5. i + 1 \in 1..Len(apps) /\ tmp' = apps[i + 1] /\ tmp' \in Apps
  BY <1>1, <1>2, <1>4, AppsFacts
<1>6. Passed(i)
  BY <1>1, <1>4, PassOne
<1>7. TypeOK'
  BY <1>1, <1>2, <1>3, <1>5 DEF TypeOK
<1>8. WellLinked' /\ NoRunawayThread' /\ AddressOK'
  BY <1>1, <1>2, <1>3, SameList, SameThreads
<1>9. CursorOK'
  <2>1. Listed' = Listed
    BY <1>3 DEF Listed
  <2>2. Passed((i + 1) - 1)'
    BY <1>2, <1>3, <1>6 DEF Passed
  <2>3. \E k \in 1..Len(apps') : tmp' = apps'[k] /\ Passed(k - 1)'
    BY <1>3, <1>5, <2>2
  <2> QED BY <1>1, <1>2, <1>3, <2>1, <2>3 DEF CursorOK
<1>10. CrashOK'
  BY <1>1, <1>2, <1>3 DEF CrashOK
<1> QED BY <1>7, <1>8, <1>9, <1>10 DEF ClientInv

LEMMA AddWalksKeeps ==
  ASSUME ClientInv, AddWalks
  PROVE  ClientInv'
BY AdvanceKeeps DEF AddWalks, Taken

LEMMA FileWalksKeeps ==
  ASSUME ClientInv, FileWalks
  PROVE  ClientInv'
BY AdvanceKeeps DEF FileWalks, WalksOn

(* The answers that leave the list alone.                                   *)
LEMMA AnswersKeep ==
  ASSUME ClientInv, AddExists \/ DelNotFound \/ FileQueued \/ FileRefused
  PROVE  ClientInv'
<1>1. TypeOK
  BY DEF ClientInv
<1>2. ASSUME AddExists \/ DelNotFound \/ FileRefused PROVE ClientInv'
  <2>1. op # "create" /\ UNCHANGED <<listVars, thread, cancel, crashed, faults>> /\ list_c' = list_c
    BY <1>2 DEF AddExists, DelNotFound, FileRefused, threadVars
  <2>2. \E c, e : Return(c, e)
    BY <1>2 DEF AddExists, DelNotFound, FileRefused
  <2>3. list_c' \in [Apps -> Seq(Files)] /\ \A a \in Apps : Len(list_c'[a]) <= MaxLine
    BY <1>1, <2>1 DEF TypeOK
  <2> QED BY <2>1, <2>2, <2>3, ReturnKeeps
<1>3. ASSUME FileQueued PROVE ClientInv'
  <2>1. PICK i \in 1..Len(apps) : tmp = apps[i]
    BY <1>3, CursorFacts DEF FileQueued
  <2>2. tmp \in Apps
    BY <1>1, <2>1, AppsFacts
  <2>3. file \in Files /\ ~IsFull(tmp) /\ list_c' = [list_c EXCEPT ![tmp] = Append(list_c[tmp], file)]
    BY <1>3 DEF FileQueued, ClientInv, CursorOK
  <2>4. /\ Append(list_c[tmp], file) \in Seq(Files) /\ Len(list_c[tmp]) \in Nat
        /\ Len(Append(list_c[tmp], file)) = Len(list_c[tmp]) + 1
    BY <1>1, <2>2, <2>3, AppendFacts DEF TypeOK
  <2>5. Len(list_c[tmp]) + 1 <= MaxLine
    BY <2>3, <2>4, ClientAssumption DEF IsFull
  <2>6. list_c' \in [Apps -> Seq(Files)] /\ \A a \in Apps : Len(list_c'[a]) <= MaxLine
    BY <1>1, <2>2, <2>3, <2>4, <2>5 DEF TypeOK
  <2> QED BY <1>3, <2>6, ReturnKeeps DEF FileQueued
<1> QED BY <1>2, <1>3

(* The end of the list: the new application is linked in after the last.    *)
LEMMA AddLinksKeeps ==
  ASSUME ClientInv, AddLinks
  PROVE  ClientInv'
<1>1. TypeOK /\ WellLinked /\ NoRunawayThread /\ CursorOK /\ AddressOK /\ CrashOK
  BY DEF ClientInv
<1>2. /\ op = "add" /\ ~Matches /\ AtEnd /\ op' = "create" /\ tmp' = tmp
      /\ next' = [next EXCEPT ![tmp] = info, ![info] = NULL]
      /\ UNCHANGED <<applist, app_name, used, apps, list_c, thread, cancel, name, file, info, per,
                      answer, crashed, faults>>
  BY DEF AddLinks, Taken, Link, threadVars
<1>3. PICK i \in 1..Len(apps) : tmp = apps[i] /\ Passed(i - 1) /\ i = Len(apps)
  BY <1>2, CursorFacts
<1>4. /\ apps \in Seq(Apps) /\ Len(apps) \in Nat \ {0} /\ apps # << >>
      /\ \A j \in 1..Len(apps) : apps[j] \in Apps /\ apps[j] \in Listed
  BY <1>1, <1>3, AppsFacts
<1>5. info \in used /\ info \in Apps /\ info \notin Listed /\ app_name[info] = name
  BY <1>1, <1>2 DEF CursorOK, TypeOK
<1>6. Passed(Len(apps))
  BY <1>1, <1>2, <1>3, PassOne
<1>7. TypeOK'
  <2>1. next' \in [Apps -> Apps \cup {NULL}]
    BY <1>1, <1>2, <1>5 DEF TypeOK
  <2> QED BY <1>1, <1>2, <2>1 DEF TypeOK
<1>8. WellLinked'
  <2>1. Chain = apps /\ Chain' = Append(apps, info)
    BY <1>2 DEF Chain
  <2>2. /\ Len(Chain') = Len(apps) + 1 /\ Chain'[Len(apps) + 1] = info
        /\ \A j \in 1..Len(apps) : Chain'[j] = apps[j]
    BY <1>4, <1>5, <2>1, AppendFacts
  <2>3. Chain' # << >>
    <3>1. Len(<< >>) = 0
      BY EmptySeq
    <3> QED BY <1>4, <2>2, <3>1
  <2>4. applist' = Chain'[1]
    BY <1>1, <1>2, <1>4, <2>2, ChainIsApps
  <2>5. \A j \in 1..Len(apps) : apps[j] = tmp => j = Len(apps)
    BY <1>1, <1>2, <1>3, ChainIsApps
  <2>6. /\ next'[info] = NULL /\ next'[tmp] = info
        /\ \A j \in 1..Len(apps) : j # Len(apps) => next'[apps[j]] = apps[j + 1]
    <3>1. next \in [Apps -> Apps \cup {NULL}] /\ tmp \in Apps /\ tmp # info
      BY <1>1, <1>3, <1>4, <1>5 DEF TypeOK
    <3>2. /\ next'[info] = NULL /\ next'[tmp] = info
          /\ \A b \in Apps : b # tmp /\ b # info => next'[b] = next[b]
      BY <1>2, <1>5, <3>1
    <3>3. \A j \in 1..Len(apps) : j # Len(apps) => next[apps[j]] = apps[j + 1]
      BY <1>1, <1>2, ChainIsApps
    <3>4. \A j \in 1..Len(apps) : j # Len(apps) => apps[j] # tmp /\ apps[j] # info
      BY <1>4, <1>5, <2>5
    <3> QED BY <1>4, <3>2, <3>3, <3>4
  <2>7. \A j \in 1..Len(Chain') :
          next'[Chain'[j]] = IF j = Len(Chain') THEN NULL ELSE Chain'[j + 1]
    <3> SUFFICES ASSUME NEW j \in 1..Len(Chain')
                 PROVE  next'[Chain'[j]] = IF j = Len(Chain') THEN NULL ELSE Chain'[j + 1]
      OBVIOUS
    <3>1. CASE j = Len(apps) + 1
      BY <2>2, <2>6, <3>1
    <3>2. CASE j = Len(apps)
      BY <1>3, <1>4, <2>2, <2>6, <3>2
    <3>3. CASE j \in 1..(Len(apps) - 1)
      <4>1. j \in 1..Len(apps) /\ j + 1 \in 1..Len(apps) /\ j # Len(apps)
        BY <1>4, <3>3
      <4> QED BY <1>4, <2>2, <2>6, <4>1
    <3> QED BY <1>4, <2>2, <3>1, <3>2, <3>3
  <2>8. \A j, k \in 1..Len(Chain') : app_name'[Chain'[j]] = app_name'[Chain'[k]] => j = k
    <3>1. \A j, k \in 1..Len(apps) : app_name[apps[j]] = app_name[apps[k]] => j = k
      BY <1>1, <1>2, ChainIsApps
    <3>2. \A j \in 1..Len(apps) : app_name[apps[j]] # app_name[info]
      BY <1>5, <1>6 DEF Passed
    <3>3. \A j \in 1..Len(Chain') : j \in 1..Len(apps) \/ j = Len(apps) + 1
      BY <1>4, <2>2
    <3> QED BY <1>2, <2>2, <3>1, <3>2, <3>3
  <2> QED BY <2>3, <2>4, <2>7, <2>8 DEF WellLinked
<1>9. NoRunawayThread' /\ AddressOK'
  BY <1>1, <1>2, SameThreads
<1>10. CursorOK'
  <2>1. Listed' = Listed
    BY <1>2 DEF Listed
  <2>2. Passed(Len(apps))'
    BY <1>2, <1>6 DEF Passed
  <2> QED BY <1>1, <1>2, <1>3, <1>4, <2>1, <2>2 DEF CursorOK
<1>11. CrashOK'
  BY <1>1, <1>2 DEF CrashOK
<1> QED BY <1>7, <1>8, <1>9, <1>10, <1>11 DEF ClientInv

(* Its thread is created: what was the chain is now the list.               *)
LEMMA CreatesKeeps ==
  ASSUME ClientInv, Creates
  PROVE  ClientInv'
<1>1. TypeOK /\ WellLinked /\ NoRunawayThread /\ CursorOK /\ AddressOK /\ CrashOK
  BY DEF ClientInv
<1>2. /\ op = "create" /\ ~crashed /\ op' = "idle"
      /\ name' = NULL /\ file' = NULL /\ info' = NULL /\ tmp' = NULL /\ per' = NULL
      /\ thread' = [thread EXCEPT ![info] = "start"] /\ apps' = Append(apps, info)
      /\ UNCHANGED <<applist, next, app_name, used, list_c, cancel, crashed, faults>>
  BY DEF Creates, Return
<1>3. info \in used /\ info \in Apps /\ info \notin Listed /\ info \notin cancel
  BY <1>1, <1>2 DEF CursorOK, TypeOK
<1>4. /\ apps' \in Seq(Apps) /\ Len(apps) \in Nat /\ Len(apps') = Len(apps) + 1
      /\ apps'[Len(apps) + 1] = info /\ \A j \in 1..Len(apps) : apps'[j] = apps[j]
  BY <1>1, <1>2, <1>3, AppendFacts DEF TypeOK
<1>5. Listed' = Listed \cup {info}
  <2>1. 1..Len(apps') = 1..Len(apps) \cup {Len(apps) + 1}
    BY <1>4
  <2> QED BY <1>4, <2>1 DEF Listed
<1>6. TypeOK'
  <2>1. thread' \in [Apps -> {"none", "start", "loop", "send", "returned", "dead"}]
    BY <1>1, <1>2 DEF TypeOK
  <2> QED BY <1>1, <1>2, <1>4, <2>1 DEF TypeOK
<1>7. WellLinked'
  <2>1. Chain' = apps' /\ Chain = apps'
    BY <1>2 DEF Chain
  <2> QED BY <1>1, <1>2, <2>1 DEF WellLinked
<1>8. NoRunawayThread' /\ AddressOK'
  <2>1. thread'[info] = "start" /\ \A a \in Apps : a # info => thread'[a] = thread[a]
    BY <1>1, <1>2, <1>3 DEF TypeOK
  <2>2. NoRunawayThread'
    BY <1>1, <1>2, <1>3, <1>5, <2>1 DEF NoRunawayThread
  <2>3. AddressOK'
    BY <1>1, <1>2, <1>3, <1>5, <2>1 DEF AddressOK
  <2> QED BY <2>2, <2>3
<1>9. CursorOK' /\ CrashOK'
  BY <1>2 DEF CursorOK, CrashOK
<1> QED BY <1>6, <1>7, <1>8, <1>9 DEF ClientInv

(* It cannot be created: the chain is cut after the last registered one.    *)
LEMMA CreateFailsKeeps ==
  ASSUME ClientInv, CreateFails
  PROVE  ClientInv'
<1>1. TypeOK /\ WellLinked /\ NoRunawayThread /\ CursorOK /\ AddressOK /\ CrashOK
  BY DEF ClientInv
<1>2. /\ op = "create" /\ ~crashed /\ faults' \in 0..MaxFaults
      /\ UNCHANGED <<list_c, thread, cancel>>
  BY <1>1, ClientAssumption DEF CreateFails, Fault, threadVars, TypeOK
<1>3. /\ info \in used /\ info \in Apps /\ info \notin Listed /\ info \notin cancel
      /\ thread[info] = "none" /\ tmp = IF apps = << >> THEN NULL ELSE apps[Len(apps)]
  BY <1>1, <1>2 DEF CursorOK, TypeOK
<1>4. /\ apps \in Seq(Apps) /\ Len(apps) \in Nat /\ (Len(apps) = 0 <=> apps = << >>)
      /\ \A j \in 1..Len(apps) : apps[j] \in Apps /\ apps[j] \in Listed /\ apps[j] # NULL
  BY <1>1, AppsFacts
<1>5. CASE tmp = NULL
  <2>1. crashed' = TRUE /\ UNCHANGED <<listVars, requestVars, answer>>
    BY <1>5 DEF CreateFails
  <2>2. UNCHANGED <<applist, next, app_name, used, apps, op, name, file, info, tmp, per>>
    BY <2>1 DEF listVars, requestVars
  <2>3. apps = << >>
    BY <1>3, <1>4, <1>5
  <2>4. TypeOK'
    BY <1>1, <1>2, <2>1, <2>2 DEF TypeOK
  <2>5. WellLinked'
    BY <1>1, <2>2 DEF WellLinked, Chain
  <2>6. NoRunawayThread' /\ AddressOK'
    BY <1>1, <1>2, <2>2, SameThreads
  <2>7. CursorOK' /\ CrashOK'
    BY <1>1, <1>2, <2>1, <2>2, <2>3 DEF CursorOK, CrashOK, Passed, Listed
  <2> QED BY <2>4, <2>5, <2>6, <2>7 DEF ClientInv
<1>6. CASE tmp # NULL
  <2>1. /\ next' = [next EXCEPT ![tmp] = NULL] /\ used' = used \ {info}
        /\ op' = "idle" /\ name' = NULL /\ file' = NULL /\ info' = NULL /\ tmp' = NULL /\ per' = NULL
        /\ UNCHANGED <<applist, app_name, apps, crashed>>
    BY <1>6 DEF CreateFails, Return
  <2>2. apps # << >> /\ Len(apps) \in Nat \ {0} /\ tmp = apps[Len(apps)]
    BY <1>3, <1>4, <1>6
  <2>3. Listed' = Listed
    BY <2>1 DEF Listed
  <2>4. TypeOK'
    <3>1. next' \in [Apps -> Apps \cup {NULL}] /\ used' \subseteq Apps /\ cancel' \subseteq used'
      BY <1>1, <1>2, <1>3, <2>1 DEF TypeOK
    <3> QED BY <1>1, <1>2, <2>1, <3>1 DEF TypeOK
  <2>5. WellLinked'
    <3>1. Chain = Append(apps, info) /\ Chain' = apps
      BY <1>2, <2>1 DEF Chain
    <3>2. /\ Len(Chain) = Len(apps) + 1 /\ Chain[Len(apps) + 1] = info
          /\ \A j \in 1..Len(apps) : Chain[j] = apps[j]
      BY <1>3, <1>4, <3>1, AppendFacts
    <3>3. Chain # << >>
      <4>1. Len(<< >>) = 0
        BY EmptySeq
      <4> QED BY <1>4, <3>2, <4>1
    <3>4. /\ applist = Chain[1]
          /\ \A j \in 1..Len(Chain) :
               next[Chain[j]] = IF j = Len(Chain) THEN NULL ELSE Chain[j + 1]
          /\ \A j, k \in 1..Len(Chain) : app_name[Chain[j]] = app_name[Chain[k]] => j = k
      BY <1>1, <3>3 DEF WellLinked
    <3>5. /\ 1..Len(apps) \subseteq 1..Len(Chain)
          /\ \A j \in 1..Len(apps) : j # Len(apps) => j + 1 \in 1..Len(apps)
      BY <1>4, <3>2
    <3>6. \A j, k \in 1..Len(apps) : app_name[apps[j]] = app_name[apps[k]] => j = k
      BY <3>2, <3>4, <3>5
    <3>7. \A j \in 1..Len(apps) :
            next'[apps[j]] = IF j = Len(apps) THEN NULL ELSE apps[j + 1]
      <4> SUFFICES ASSUME NEW j \in 1..Len(apps)
                   PROVE  next'[apps[j]] = IF j = Len(apps) THEN NULL ELSE apps[j + 1]
        OBVIOUS
      <4>1. CASE j = Len(apps)
        BY <1>1, <1>4, <2>1, <2>2, <4>1 DEF TypeOK
      <4>2. CASE j # Len(apps)
        <5>1. apps[j] # tmp
          BY <2>2, <3>6, <4>2
        <5>2. next'[apps[j]] = next[apps[j]]
          BY <1>1, <1>4, <2>1, <5>1 DEF TypeOK
        <5>3. next[apps[j]] = apps[j + 1]
          BY <1>4, <3>2, <3>4, <3>5, <4>2
        <5> QED BY <4>2, <5>2, <5>3
      <4> QED BY <4>1, <4>2
    <3>8. applist' = apps[1]
      BY <2>1, <2>2, <3>2, <3>4
    <3> QED BY <2>1, <2>2, <3>1, <3>6, <3>7, <3>8 DEF WellLinked
  <2>6. NoRunawayThread' /\ AddressOK'
    BY <1>1, <1>2, <1>3, <2>1, <2>3 DEF NoRunawayThread, AddressOK
  <2>7. CursorOK' /\ CrashOK'
    BY <1>2, <2>1 DEF CursorOK, CrashOK
  <2> QED BY <2>4, <2>5, <2>6, <2>7 DEF ClientInv
<1> QED BY <1>5, <1>6

-----------------------------------------------------------------------------
(* CMD_DELECT and CMD_ADD_FILE: the cursor starts at the first application. *)
LEMMA StartsKeep ==
  ASSUME ClientInv, NEW n \in Names, Delete(n) \/ \E f \in Files : AddFile(n, f)
  PROVE  ClientInv'
<1>1. TypeOK /\ WellLinked /\ NoRunawayThread /\ CursorOK /\ AddressOK /\ CrashOK
  BY DEF ClientInv
<1>2. op = "idle" /\ ~crashed /\ UNCHANGED <<listVars, threadVars, crashed, faults>>
  BY DEF Delete, AddFile, Refuse
<1>3. UNCHANGED <<applist, next, app_name, used, apps, list_c, thread, cancel>>
  BY <1>2 DEF listVars, threadVars
<1>4. op' # "create" /\ Listed' = Listed
  BY <1>2, <1>3 DEF Delete, AddFile, Refuse, requestVars, Listed
<1>5. WellLinked' /\ NoRunawayThread' /\ AddressOK' /\ CrashOK'
  BY <1>1, <1>2, <1>3, <1>4, SameList, SameThreads DEF CrashOK
<1>6. CASE applist = NULL
  <2>1. UNCHANGED <<op, name, file, info, tmp, per>>
    BY <1>6 DEF Delete, AddFile, Refuse, requestVars
  <2>2. TypeOK'
    BY <1>1, <1>2, <1>3, <2>1 DEF TypeOK
  <2>3. CursorOK'
    BY <1>2, <2>1 DEF CursorOK
  <2> QED BY <1>5, <2>2, <2>3 DEF ClientInv
<1>7. CASE applist # NULL
  <2>1. Len(apps) \in Nat \ {0} /\ applist = apps[1] /\ 1 \in 1..Len(apps)
    BY <1>1, <1>2, <1>7, ChainIsApps, AppsFacts
  <2>2. Passed(1 - 1)'
    BY DEF Passed
  <2>3. CASE Delete(n)
    <3>1. /\ op' = "del" /\ name' = n /\ tmp' = applist /\ per' = applist
          /\ UNCHANGED <<file, info, crashed, faults>>
      BY <1>7, <2>3 DEF Delete
    <3>2. TypeOK'
      BY <1>1, <1>3, <3>1 DEF TypeOK
    <3>3. \E i \in 1..Len(apps') : /\ tmp' = apps'[i] /\ Passed(i - 1)'
                                   /\ per' = apps'[IF i = 1 THEN 1 ELSE i - 1]
      BY <1>3, <2>1, <2>2, <3>1
    <3>4. CursorOK'
      BY <3>1, <3>3 DEF CursorOK
    <3> QED BY <1>5, <3>2, <3>4 DEF ClientInv
  <2>4. CASE \E f \in Files : AddFile(n, f)
    <3>1. /\ op' = "file" /\ name' = n /\ tmp' = applist /\ file' \in Files
          /\ UNCHANGED <<per, info, crashed, faults>>
      BY <1>7, <2>4 DEF AddFile
    <3>2. TypeOK'
      BY <1>1, <1>3, <3>1 DEF TypeOK
    <3>3. \E i \in 1..Len(apps') : tmp' = apps'[i] /\ Passed(i - 1)'
      BY <1>3, <2>1, <2>2, <3>1
    <3>4. CursorOK'
      BY <3>1, <3>3 DEF CursorOK
    <3> QED BY <1>5, <3>2, <3>4 DEF ClientInv
  <2> QED BY <2>3, <2>4
<1> QED BY <1>6, <1>7

(* Where Del_App's two cursors are.                                         *)
LEMMA DelCursor ==
  ASSUME ClientInv, op = "del", tmp # NULL
  PROVE  \E i \in 1..Len(apps) :
           /\ tmp = apps[i] /\ Passed(i - 1)
           /\ per = apps[IF i = 1 THEN 1 ELSE i - 1]
           /\ next[tmp] = IF i = Len(apps) THEN NULL ELSE apps[i + 1]
<1>1. TypeOK /\ WellLinked /\ CursorOK /\ op # "create"
  BY DEF ClientInv
<1>2. PICK i \in 1..Len(apps) : /\ tmp = apps[i] /\ Passed(i - 1)
                                /\ per = apps[IF i = 1 THEN 1 ELSE i - 1]
  BY <1>1 DEF CursorOK
<1>3. next[tmp] = IF i = Len(apps) THEN NULL ELSE apps[i + 1]
  BY <1>1, <1>2, ChainIsApps
<1> QED BY <1>2, <1>3

LEMMA DelWalksKeeps ==
  ASSUME ClientInv, DelWalks
  PROVE  ClientInv'
<1>1. TypeOK /\ WellLinked /\ NoRunawayThread /\ CursorOK /\ AddressOK /\ CrashOK
  BY DEF ClientInv
<1>2. /\ op = "del" /\ tmp # NULL /\ ~Matches /\ per' = tmp /\ tmp' = next[tmp]
      /\ UNCHANGED <<listVars, threadVars, op, name, file, info, crashed, faults>>
  BY DEF DelWalks
<1>3. UNCHANGED <<applist, next, app_name, used, apps, list_c, thread, cancel>>
  BY <1>2 DEF listVars, threadVars
<1>4. PICK i \in 1..Len(apps) :
        /\ tmp = apps[i] /\ Passed(i - 1)
        /\ next[tmp] = IF i = Len(apps) THEN NULL ELSE apps[i + 1]
  BY <1>2, DelCursor
<1>5. Passed(i) /\ Len(apps) \in Nat
  BY <1>1, <1>2, <1>4, PassOne, AppsFacts
<1>6. TypeOK'
  <2>1. next[tmp] \in Apps \cup {NULL} /\ tmp \in Apps
    BY <1>1, <1>2 DEF TypeOK
  <2> QED BY <1>1, <1>2, <1>3, <2>1 DEF TypeOK
<1>7. WellLinked' /\ NoRunawayThread' /\ AddressOK' /\ CrashOK'
  BY <1>1, <1>2, <1>3, SameList, SameThreads DEF CrashOK
<1>8. CursorOK'
  <2>1. CASE i = Len(apps)
    BY <1>2, <1>4, <2>1 DEF CursorOK
  <2>2. CASE i # Len(apps)
    <3>1. i + 1 \in 1..Len(apps) /\ tmp' = apps[i + 1]
      BY <1>2, <1>4, <1>5, <2>2
    <3>2. Passed((i + 1) - 1)'
      BY <1>2, <1>3, <1>5 DEF Passed
    <3>3. per' = apps'[IF i + 1 = 1 THEN 1 ELSE (i + 1) - 1]
      BY <1>2, <1>3, <1>4
    <3>4. \E k \in 1..Len(apps') : /\ tmp' = apps'[k] /\ Passed(k - 1)'
                                   /\ per' = apps'[IF k = 1 THEN 1 ELSE k - 1]
      BY <1>3, <3>1, <3>2, <3>3
    <3> QED BY <1>2, <3>4 DEF CursorOK
  <2> QED BY <2>1, <2>2
<1> QED BY <1>6, <1>7, <1>8 DEF ClientInv

(* The i-th application is unlinked: its predecessor points past it.        *)
LEMMA UnlinkShortens ==
  ASSUME TypeOK, WellLinked, op = "del", op' = "idle", app_name' = app_name,
         NEW i \in 1..Len(apps), tmp = apps[i], per = apps[IF i = 1 THEN 1 ELSE i - 1],
         apps' = RemoveAt(apps, i), Unlink
  PROVE  WellLinked'
<1> DEFINE n == Len(apps)
<1>1. /\ n \in Nat /\ apps' \in Seq(Apps) /\ Len(apps') = n - 1
      /\ \A k \in 1..(n - 1) : apps'[k] = IF k < i THEN apps[k] ELSE apps[k + 1]
      /\ \A k \in 1..n : apps[k] \in Apps
  BY AppsFacts, RemoveAtProperties
<1>2. /\ applist = apps[1]
      /\ \A k \in 1..n : next[apps[k]] = IF k = n THEN NULL ELSE apps[k + 1]
      /\ \A j, k \in 1..n : app_name[apps[j]] = app_name[apps[k]] => j = k
  <2>1. apps # << >>
    BY <1>1, AppsFacts
  <2> QED BY <2>1, ChainIsApps
<1>3. Chain' = apps' /\ next \in [Apps -> Apps \cup {NULL}]
  BY DEF Chain, TypeOK
<1>4. apps' = << >> <=> n = 1
  <2>1. apps' = << >> <=> Len(apps') = 0
    BY <1>1, EmptyFacts
  <2> QED BY <1>1, <2>1
<1>5. \A j, k \in 1..(n - 1) : app_name'[apps'[j]] = app_name'[apps'[k]] => j = k
  <2> SUFFICES ASSUME NEW j \in 1..(n - 1), NEW k \in 1..(n - 1),
                      app_name[apps'[j]] = app_name[apps'[k]]
               PROVE  j = k
    OBVIOUS
  <2> DEFINE At(m) == IF m < i THEN m ELSE m + 1
  <2>1. At(j) \in 1..n /\ At(k) \in 1..n /\ (At(j) = At(k) => j = k)
    BY <1>1
  <2>2. apps'[j] = apps[At(j)] /\ apps'[k] = apps[At(k)]
    BY <1>1
  <2> HIDE DEF At
  <2> QED BY <1>2, <2>1, <2>2
<1>6. /\ applist' = IF apps' = << >> THEN NULL ELSE apps'[1]
      /\ \A k \in 1..(n - 1) : next'[apps'[k]] = IF k = n - 1 THEN NULL ELSE apps'[k + 1]
      => WellLinked'
  <2>1. Len(Chain') = n - 1 /\ Chain' = apps'
    BY <1>1, <1>3
  <2> HIDE DEF n
  <2> QED BY <1>5, <2>1 DEF WellLinked
<1>7. CASE i = 1
  <2>1. applist' = next[apps[1]] /\ next' = next
    BY <1>7 DEF Unlink
  <2>2. applist' = IF apps' = << >> THEN NULL ELSE apps'[1]
    BY <1>1, <1>2, <1>4, <1>7, <2>1
  <2>3. \A k \in 1..(n - 1) : next'[apps'[k]] = IF k = n - 1 THEN NULL ELSE apps'[k + 1]
    <3> SUFFICES ASSUME NEW k \in 1..(n - 1)
                 PROVE  next'[apps'[k]] = IF k = n - 1 THEN NULL ELSE apps'[k + 1]
      OBVIOUS
    <3>1. k + 1 \in 1..n /\ apps'[k] = apps[k + 1] /\ (k + 1 = n <=> k = n - 1)
      BY <1>1, <1>7
    <3>2. k # n - 1 => apps'[k + 1] = apps[(k + 1) + 1]
      <4> SUFFICES ASSUME k # n - 1 PROVE apps'[k + 1] = apps[(k + 1) + 1]
        OBVIOUS
      <4>1. k + 1 \in 1..(n - 1) /\ ~(k + 1 < i)
        BY <1>1, <1>7
      <4> QED BY <1>1, <4>1
    <3> QED BY <1>2, <2>1, <3>1, <3>2
  <2> QED BY <1>6, <2>2, <2>3
<1>8. CASE i # 1
  <2>1. i - 1 \in 1..n /\ per = apps[i - 1] /\ n # 1
    BY <1>1, <1>8
  <2>2. per # tmp /\ per \in Apps
    BY <1>1, <1>2, <2>1
  <2>3. applist' = applist /\ next' = [next EXCEPT ![per] = next[tmp]]
    BY <2>2 DEF Unlink
  <2>4. applist' = IF apps' = << >> THEN NULL ELSE apps'[1]
    <3>1. 1 \in 1..(n - 1) /\ 1 < i
      BY <1>1, <1>8, <2>1
    <3> QED BY <1>1, <1>2, <1>4, <2>1, <2>3, <3>1
  <2>5. next'[per] = next[tmp] /\ \A k \in 1..n : k # i - 1 => next'[apps[k]] = next[apps[k]]
    BY <1>1, <1>2, <1>3, <2>1, <2>2, <2>3
  <2>6. \A k \in 1..(n - 1) : next'[apps'[k]] = IF k = n - 1 THEN NULL ELSE apps'[k + 1]
    <3> SUFFICES ASSUME NEW k \in 1..(n - 1)
                 PROVE  next'[apps'[k]] = IF k = n - 1 THEN NULL ELSE apps'[k + 1]
      OBVIOUS
    <3>1. CASE k < i - 1
      <4>1. k \in 1..n /\ k + 1 \in 1..(n - 1) /\ k # n /\ k < i /\ k + 1 < i /\ k # n - 1
        BY <1>1, <3>1
      <4>2. apps'[k] = apps[k] /\ apps'[k + 1] = apps[k + 1]
        BY <1>1, <4>1
      <4> QED BY <1>2, <2>5, <3>1, <4>1, <4>2
    <3>2. CASE k = i - 1
      <4>1. apps'[k] = per
        BY <1>1, <2>1, <3>2
      <4>2. next[tmp] = IF i = n THEN NULL ELSE apps[i + 1]
        BY <1>2
      <4>3. i # n => apps'[k + 1] = apps[i + 1]
        <5> SUFFICES ASSUME i # n PROVE apps'[k + 1] = apps[i + 1]
          OBVIOUS
        <5>1. k + 1 = i /\ i \in 1..(n - 1) /\ ~(i < i)
          BY <1>1, <3>2
        <5> QED BY <1>1, <5>1
      <4> QED BY <1>1, <2>5, <3>2, <4>1, <4>2, <4>3
    <3>3. CASE k > i - 1
      <4>1. k + 1 \in 1..n /\ k + 1 # i - 1 /\ apps'[k] = apps[k + 1]
        BY <1>1, <3>3
      <4>2. k # n - 1 => apps'[k + 1] = apps[(k + 1) + 1]
        <5> SUFFICES ASSUME k # n - 1 PROVE apps'[k + 1] = apps[(k + 1) + 1]
          OBVIOUS
        <5>1. k + 1 \in 1..(n - 1) /\ ~(k + 1 < i)
          BY <1>1, <3>3
        <5> QED BY <1>1, <5>1
      <4> QED BY <1>1, <1>2, <2>5, <4>1, <4>2
    <3> QED BY <1>1, <3>1, <3>2, <3>3
  <2> QED BY <1>6, <2>4, <2>6
<1> QED BY <1>7, <1>8

LEMMA DelFoundList ==
  ASSUME ClientInv, DelFound
  PROVE  \E i \in 1..Len(apps) :
           /\ tmp = apps[i] /\ per = apps[IF i = 1 THEN 1 ELSE i - 1]
           /\ apps' = RemoveAt(apps, i) /\ apps' \in Seq(Apps)
           /\ Listed' = Listed \ {tmp}
<1>1. TypeOK /\ WellLinked /\ op = "del" /\ tmp # NULL
  BY DEF ClientInv, DelFound
<1>2. PICK i \in 1..Len(apps) :
        tmp = apps[i] /\ per = apps[IF i = 1 THEN 1 ELSE i - 1]
  BY <1>1, DelCursor
<1>3. PICK j \in 1..Len(apps) : apps[j] = tmp /\ apps' = RemoveAt(apps, j)
  BY DEF DelFound
<1>4. \A k, m \in 1..Len(apps) : app_name[apps[k]] = app_name[apps[m]] => k = m
  BY <1>1, ChainIsApps
<1>5. i = j /\ apps' = RemoveAt(apps, i)
  BY <1>2, <1>3, <1>4
<1>6. /\ apps' \in Seq(Apps) /\ Len(apps) \in Nat /\ Len(apps') = Len(apps) - 1
      /\ \A k \in 1..(Len(apps) - 1) : apps'[k] = IF k < i THEN apps[k] ELSE apps[k + 1]
  BY <1>1, <1>5, AppsFacts, RemoveAtProperties
<1>7. Listed' = Listed \ {tmp}
  <2>1. ASSUME NEW k \in 1..(Len(apps) - 1)
        PROVE  \E m \in 1..Len(apps) : m # i /\ apps'[k] = apps[m]
    <3>1. CASE k < i
      BY <1>6, <3>1
    <3>2. CASE ~(k < i)
      <4>1. k + 1 \in 1..Len(apps) /\ k + 1 # i /\ apps'[k] = apps[k + 1]
        BY <1>6, <3>2
      <4> QED BY <4>1
    <3> QED BY <3>1, <3>2
  <2>2. ASSUME NEW m \in 1..Len(apps), m # i
        PROVE  \E k \in 1..(Len(apps) - 1) : apps'[k] = apps[m]
    <3>1. CASE m < i
      <4>1. m \in 1..(Len(apps) - 1) /\ apps'[m] = apps[m]
        BY <1>6, <3>1
      <4> QED BY <4>1
    <3>2. CASE ~(m < i)
      <4>1. m - 1 \in 1..(Len(apps) - 1) /\ ~(m - 1 < i) /\ (m - 1) + 1 = m
        BY <1>6, <2>2, <3>2
      <4>2. apps'[m - 1] = apps[m]
        BY <1>6, <4>1
      <4> QED BY <4>1, <4>2
    <3> QED BY <3>1, <3>2
  <2>3. \A m \in 1..Len(apps) : m # i => apps[m] # tmp
    BY <1>2, <1>4
  <2>4. Listed' \subseteq Listed \ {tmp}
    <3>1. 1..Len(apps') = 1..(Len(apps) - 1)
      BY <1>6
    <3> QED BY <2>1, <2>3, <3>1 DEF Listed
  <2>5. Listed \ {tmp} \subseteq Listed'
    <3> SUFFICES ASSUME NEW a \in Listed, a # tmp PROVE a \in Listed'
      OBVIOUS
    <3>1. PICK m \in 1..Len(apps) : a = apps[m] /\ m # i
      BY <1>2 DEF Listed
    <3>2. PICK k \in 1..(Len(apps) - 1) : apps'[k] = a
      BY <2>2, <3>1
    <3> QED BY <1>6, <3>2 DEF Listed
  <2> QED BY <2>4, <2>5
<1> QED BY <1>2, <1>5, <1>6, <1>7

LEMMA DelFoundKeeps ==
  ASSUME ClientInv, DelFound
  PROVE  ClientInv'
<1>1. TypeOK /\ WellLinked /\ NoRunawayThread /\ CursorOK /\ AddressOK /\ CrashOK
  BY DEF ClientInv
<1>2. /\ op = "del" /\ tmp # NULL /\ Unlink /\ cancel' = cancel \cup {tmp} /\ op' = "idle"
      /\ name' = NULL /\ file' = NULL /\ info' = NULL /\ tmp' = NULL /\ per' = NULL
      /\ UNCHANGED <<app_name, used, list_c, thread, crashed, faults>>
  BY DEF DelFound, Return, Cancel
<1>3. PICK i \in 1..Len(apps) :
        /\ tmp = apps[i] /\ per = apps[IF i = 1 THEN 1 ELSE i - 1]
        /\ apps' = RemoveAt(apps, i) /\ apps' \in Seq(Apps)
        /\ Listed' = Listed \ {tmp}
  BY DelFoundList
<1>4. tmp \in Listed /\ tmp \in Apps /\ tmp \in used
  BY <1>1, <1>3, AppsFacts DEF AddressOK
<1>5. TypeOK'
  <2>1. cancel' \subseteq used'
    BY <1>1, <1>2, <1>4 DEF TypeOK
  <2>2. applist' \in Apps \cup {NULL} /\ next' \in [Apps -> Apps \cup {NULL}]
    BY <1>1, <1>2, <1>4 DEF TypeOK, Unlink
  <2> QED BY <1>1, <1>2, <1>3, <2>1, <2>2 DEF TypeOK
<1>6. WellLinked'
  BY <1>1, <1>2, <1>3, UnlinkShortens
<1>7. NoRunawayThread' /\ AddressOK'
  BY <1>1, <1>2, <1>3 DEF NoRunawayThread, AddressOK
<1>8. CursorOK' /\ CrashOK'
  BY <1>1, <1>2 DEF CursorOK, CrashOK
<1> QED BY <1>5, <1>6, <1>7, <1>8 DEF ClientInv

-----------------------------------------------------------------------------
(* A thread that runs belongs to an address that is in use and not to the   *)
(* one that is being registered.                                            *)
LEMMA MovesKeeps ==
  ASSUME ClientInv, NEW a \in Apps, NEW p \in {"loop", "send", "returned", "dead"}, Moves(a, p),
         thread[a] \in {"start", "loop", "send"}, faults' \in 0..MaxFaults,
         list_c' \in [Apps -> Seq(Files)], \A b \in Apps : Len(list_c'[b]) <= MaxLine
  PROVE  ClientInv'
<1>1. TypeOK /\ WellLinked /\ NoRunawayThread /\ CursorOK /\ AddressOK /\ CrashOK
  BY DEF ClientInv
<1>2. /\ thread' = [thread EXCEPT ![a] = p]
      /\ UNCHANGED <<applist, next, app_name, used, apps, cancel, op, name, file, info, tmp, per,
                      crashed>>
  BY DEF Moves, listVars, requestVars
<1>3. /\ thread'[a] = p /\ \A b \in Apps : b # a => thread'[b] = thread[b]
      /\ thread' \in [Apps -> {"none", "start", "loop", "send", "returned", "dead"}]
  BY <1>1, <1>2 DEF TypeOK
<1>4. Listed' = Listed
  BY <1>2 DEF Listed
<1>5. TypeOK'
  BY <1>1, <1>2, <1>3 DEF TypeOK
<1>6. WellLinked'
  BY <1>1, <1>2 DEF WellLinked, Chain
<1>7. NoRunawayThread' /\ AddressOK'
  BY <1>1, <1>2, <1>3, <1>4 DEF NoRunawayThread, AddressOK
<1>8. CursorOK'
  <2>1. op \in {"add", "create"} => info # a /\ info \in Apps
    BY <1>1 DEF CursorOK, TypeOK
  <2>2. \A k : Passed(k)' <=> Passed(k)
    BY <1>2 DEF Passed
  <2> QED BY <1>1, <1>2, <1>3, <1>4, <2>1, <2>2 DEF CursorOK
<1>9. CrashOK'
  BY <1>1, <1>2 DEF CrashOK
<1> QED BY <1>5, <1>6, <1>7, <1>8, <1>9 DEF ClientInv

LEMMA ThreadsKeep ==
  ASSUME ClientInv, NEW a \in Apps, FileThread(a) \/ SocketFails(a)
  PROVE  ClientInv'
<1>1. TypeOK
  BY DEF ClientInv
<1>2. ASSUME list_c' = list_c
      PROVE  list_c' \in [Apps -> Seq(Files)] /\ \A b \in Apps : Len(list_c'[b]) <= MaxLine
  BY <1>1, <1>2 DEF TypeOK
<1>3. faults \in 0..MaxFaults
  BY <1>1 DEF TypeOK
<1>4. ASSUME ThreadStarts(a) PROVE ClientInv'
  BY <1>2, <1>3, <1>4, MovesKeeps DEF ThreadStarts
<1>5. ASSUME SocketFails(a) PROVE ClientInv'
  <2>1. faults' \in 0..MaxFaults
    BY <1>3, <1>5, ClientAssumption DEF SocketFails, Fault
  <2> QED BY <1>2, <1>5, <2>1, MovesKeeps DEF SocketFails
<1>6. ASSUME TakesFile(a) PROVE ClientInv'
  <2>1. /\ list_c[a] \in Seq(Files) /\ list_c[a] # << >> /\ Len(list_c[a]) <= MaxLine
        /\ list_c' = [list_c EXCEPT ![a] = Tail(list_c[a])]
    BY <1>1, <1>6 DEF TakesFile, TypeOK
  <2>2. Len(list_c[a]) # 0
    BY <2>1, EmptyFacts
  <2>3. /\ Tail(list_c[a]) \in Seq(Files) /\ Len(list_c[a]) \in Nat
        /\ Len(Tail(list_c[a])) = Len(list_c[a]) - 1
    BY <2>1, <2>2, TailFacts
  <2>4. Len(Tail(list_c[a])) <= MaxLine
    BY <2>1, <2>3, ClientAssumption
  <2>5. list_c' \in [Apps -> Seq(Files)] /\ \A b \in Apps : Len(list_c'[b]) <= MaxLine
    BY <1>1, <2>1, <2>3, <2>4 DEF TypeOK
  <2> QED BY <1>3, <1>6, <2>5, MovesKeeps DEF TakesFile
<1>7. ASSUME DealsWithFile(a) PROVE ClientInv'
  BY <1>2, <1>3, <1>7, MovesKeeps DEF DealsWithFile
<1>8. ASSUME Dies(a) PROVE ClientInv'
  BY <1>2, <1>3, <1>8, MovesKeeps DEF Dies
<1> QED BY <1>4, <1>5, <1>6, <1>7, <1>8 DEF FileThread

LEMMA StutterKeeps ==
  ASSUME ClientInv, UNCHANGED vars
  PROVE  ClientInv'
<1>1. UNCHANGED <<applist, next, app_name, used, apps, list_c, thread, cancel,
                  op, name, file, info, tmp, per, answer, crashed, faults>>
  BY DEF vars, listVars, threadVars, requestVars
<1>2. TypeOK /\ WellLinked /\ NoRunawayThread /\ CursorOK /\ AddressOK /\ CrashOK
  BY DEF ClientInv
<1>3. TypeOK'
  BY <1>1, <1>2 DEF TypeOK
<1>4. WellLinked'
  BY <1>1, <1>2 DEF WellLinked, Chain
<1>5. NoRunawayThread' /\ AddressOK'
  BY <1>1, <1>2, SameThreads
<1>6. CursorOK'
  BY <1>1, <1>2 DEF CursorOK, Listed, Passed
<1>7. CrashOK'
  BY <1>1, <1>2 DEF CrashOK
<1> QED BY <1>3, <1>4, <1>5, <1>6, <1>7 DEF ClientInv

LEMMA StepClientInv == ClientInv /\ [Next]_vars => ClientInv'
<1> SUFFICES ASSUME ClientInv, [Next]_vars PROVE ClientInv'
  OBVIOUS
<1>1. ASSUME NEW n \in Names, NEW a \in Apps, RegisterFirst(n, a) \/ Register(n, a)
      PROVE  ClientInv'
  BY <1>1, RegisterFirstKeeps, RegisterKeeps
<1>2. ASSUME NEW n \in Names, Delete(n) \/ \E f \in Files : AddFile(n, f)
      PROVE  ClientInv'
  BY <1>2, StartsKeep
<1>3. ASSUME AddApp PROVE ClientInv'
  BY <1>3, AddWalksKeeps, AnswersKeep, AddLinksKeeps, CreatesKeeps, CreateFailsKeeps DEF AddApp
<1>4. ASSUME DelApp PROVE ClientInv'
  BY <1>4, DelWalksKeeps, DelFoundKeeps, AnswersKeep DEF DelApp
<1>5. ASSUME AddSendFile PROVE ClientInv'
  BY <1>5, FileWalksKeeps, AnswersKeep DEF AddSendFile
<1>6. ASSUME NEW a \in Apps, FileThread(a) \/ SocketFails(a) PROVE ClientInv'
  BY <1>6, ThreadsKeep
<1>7. ASSUME UNCHANGED vars PROVE ClientInv'
  BY <1>7, StutterKeeps
<1> QED BY <1>1, <1>2, <1>3, <1>4, <1>5, <1>6, <1>7 DEF Next, RequestStep

(* The list, the cursors and the threads agree in every reachable state.    *)
THEOREM ClientInvariant == Spec => []ClientInv
BY InitClientInv, StepClientInv, PTL DEF Spec

(* Every variable keeps its type, and no list of files outgrows max_file.   *)
THEOREM TypesHold == Spec => []TypeOK
<1>1. ClientInv => TypeOK
  BY DEF ClientInv
<1> QED BY <1>1, ClientInvariant, PTL

(* The pointers lead through the registered applications in the order of    *)
(* their registration, and no two have one name (Add_App, Del_App).         *)
THEOREM AlwaysWellLinked == Spec => []WellLinked
<1>1. ClientInv => WellLinked
  BY DEF ClientInv
<1> QED BY <1>1, ClientInvariant, PTL

(* No thread outlives its application without having been cancelled, and    *)
(* none of a registered one is cancelled (proxy_client.cpp 203-211, 249).   *)
THEOREM NoThreadRunsAway == Spec => []NoRunawayThread
<1>1. ClientInv => NoRunawayThread
  BY DEF ClientInv
<1> QED BY <1>1, ClientInvariant, PTL

(* The loops of Add_App and Add_Send_File never read through NULL.          *)
THEOREM CursorNeverNull == Spec => []NeverNull
<1>1. ClientInv => NeverNull
  <2> SUFFICES ASSUME ClientInv, op \in {"add", "file"} PROVE tmp # NULL
    BY DEF NeverNull
  <2> QED BY CursorFacts, AppsFacts DEF ClientInv
<1> QED BY <1>1, ClientInvariant, PTL

(* A failed pthread_create ends the client only when its application would  *)
(* have been the only one (proxy_client.cpp 208).                           *)
THEOREM OnlyTheFirstCrashes == Spec => []SurvivesUnlessFirst
<1>1. ClientInv => SurvivesUnlessFirst
  BY DEF ClientInv, CrashOK, SurvivesUnlessFirst
<1> QED BY <1>1, ClientInvariant, PTL

-----------------------------------------------------------------------------
(* The promise of AppRegistry.  What a request has found out so far, beside *)
(* ClientInv: it has a name, a new APP_INFO has an empty queue, and Del_App *)
(* has no cursor left only when it has compared every name.                 *)
RegistryOK ==
  /\ op # "idle" => name \in Names
  /\ op \in {"add", "create"} => list_c[info] = << >>
  /\ op = "del" /\ tmp = NULL => Passed(Len(apps))
  /\ \A a \in Listed : app_name[a] \in Names

LEMMA CreatesLists ==
  ASSUME ClientInv, Creates
  PROVE  Listed' = Listed \cup {info} /\ info \in Apps \ Listed
<1>1. apps \in Seq(Apps) /\ info \in Apps /\ info \notin Listed /\ apps' = Append(apps, info)
  BY DEF Creates, ClientInv, TypeOK, CursorOK
<1>2. /\ Len(apps) \in Nat /\ Len(apps') = Len(apps) + 1
      /\ apps'[Len(apps) + 1] = info /\ \A j \in 1..Len(apps) : apps'[j] = apps[j]
  BY <1>1, AppendFacts
<1>3. 1..Len(apps') = 1..Len(apps) \cup {Len(apps) + 1}
  BY <1>2
<1> QED BY <1>1, <1>2, <1>3 DEF Listed

(* A request that ends, or nothing but an answer.                           *)
LEMMA EndsRegistry ==
  ASSUME RegistryOK, op' = "idle", Listed' \subseteq Listed, app_name' = app_name
  PROVE  RegistryOK'
BY DEF RegistryOK

LEMMA RequestKeepsRegistry ==
  ASSUME ClientInv, RegistryOK, RequestStep
  PROVE  RegistryOK'
<1>1. CASE AddExists \/ DelNotFound \/ FileQueued \/ FileRefused
  <2>1. op' = "idle" /\ apps' = apps /\ app_name' = app_name
    BY <1>1 DEF AddExists, DelNotFound, FileQueued, FileRefused, Return, listVars
  <2> QED BY <2>1, EndsRegistry DEF Listed
<1>2. CASE AddWalks \/ FileWalks
  <2>1. /\ op \in {"add", "file"}
        /\ UNCHANGED <<listVars, threadVars, op, name, info>>
    BY <1>2 DEF AddWalks, FileWalks, Advance
  <2>2. UNCHANGED <<apps, app_name, list_c>>
    BY <2>1 DEF listVars, threadVars
  <2> QED BY <2>1, <2>2 DEF RegistryOK, Listed
<1>3. CASE AddLinks
  <2>1. /\ op = "add" /\ op' = "create"
        /\ UNCHANGED <<apps, app_name, list_c, name, info>>
    BY <1>3 DEF AddLinks, threadVars
  <2> QED BY <2>1 DEF RegistryOK, Listed
<1>4. CASE Creates
  <2>1. op = "create" /\ op' = "idle" /\ app_name' = app_name
    BY <1>4 DEF Creates, Return
  <2>2. app_name[info] \in Names
    BY <2>1 DEF RegistryOK, ClientInv, CursorOK
  <2> QED BY <1>4, <2>1, <2>2, CreatesLists DEF RegistryOK
<1>5. CASE CreateFails
  <2>1. op = "create" /\ UNCHANGED <<list_c, app_name, apps>>
    BY <1>5 DEF CreateFails, threadVars, listVars
  <2>2. op' = "idle" \/ UNCHANGED <<op, name, info, tmp>>
    BY <1>5 DEF CreateFails, Return, requestVars
  <2>3. CASE op' = "idle"
    BY <2>1, <2>3, EndsRegistry DEF Listed
  <2>4. CASE UNCHANGED <<op, name, info, tmp>>
    BY <2>1, <2>4 DEF RegistryOK, Listed
  <2> QED BY <2>2, <2>3, <2>4
<1>6. CASE DelWalks
  <2>1. /\ op = "del" /\ tmp # NULL /\ ~Matches /\ tmp' = next[tmp]
        /\ UNCHANGED <<op, name, info, apps, app_name, list_c>>
    BY <1>6 DEF DelWalks, listVars, threadVars
  <2>2. PICK i \in 1..Len(apps) :
          /\ tmp = apps[i] /\ Passed(i - 1)
          /\ next[tmp] = IF i = Len(apps) THEN NULL ELSE apps[i + 1]
    BY <2>1, DelCursor
  <2>3. TypeOK
    BY DEF ClientInv
  <2>4. i # Len(apps) => apps[i + 1] # NULL
    <3>1. i # Len(apps) => i + 1 \in 1..Len(apps)
      BY <2>3, AppsFacts
    <3> QED BY <2>3, <3>1, AppsFacts
  <2>5. tmp' = NULL => Passed(Len(apps))
    BY <2>1, <2>2, <2>3, <2>4, PassOne
  <2>6. (Passed(Len(apps)))' <=> Passed(Len(apps))
    BY <2>1 DEF Passed
  <2> QED BY <2>1, <2>5, <2>6 DEF RegistryOK, Listed
<1>7. CASE DelFound
  <2>1. op' = "idle" /\ app_name' = app_name
    BY <1>7 DEF DelFound, Return
  <2>2. Listed' \subseteq Listed
    BY <1>7, DelFoundList
  <2> QED BY <2>1, <2>2, EndsRegistry
<1> QED BY <1>1, <1>2, <1>3, <1>4, <1>5, <1>6, <1>7 DEF RequestStep, AddApp, DelApp, AddSendFile

LEMMA NewKeepsRegistry ==
  ASSUME ClientInv, RegistryOK, NEW n \in Names, NEW a \in Apps,
         RegisterFirst(n, a) \/ Register(n, a)
  PROVE  RegistryOK'
<1>1. New(n, a) /\ op' \in {"add", "create"}
  BY DEF RegisterFirst, Register
<1>2. /\ name' = n /\ info' = a /\ list_c' = [list_c EXCEPT ![a] = << >>] /\ apps' = apps
  BY <1>1 DEF New
<1>3. list_c'[a] = << >>
  BY <1>2 DEF ClientInv, TypeOK
<1>4. \A b \in Listed : b \in Apps /\ b # a
  BY <1>1, NewFacts, AppsFacts DEF Listed, ClientInv
<1>5. \A b \in Listed : app_name'[b] = app_name[b]
  BY <1>1, <1>4, NewFacts
<1> QED BY <1>1, <1>2, <1>3, <1>5 DEF RegistryOK, Listed

LEMMA StartKeepsRegistry ==
  ASSUME ClientInv, RegistryOK, NEW n \in Names, Delete(n) \/ \E f \in Files : AddFile(n, f)
  PROVE  RegistryOK'
<1>1. UNCHANGED <<apps, app_name, list_c>>
  BY DEF Delete, AddFile, Refuse, listVars, threadVars
<1>2. \/ UNCHANGED <<op, name, info, tmp>>
      \/ op' \in {"del", "file"} /\ name' = n /\ tmp' # NULL
  BY DEF Delete, AddFile, Refuse, requestVars
<1> QED BY <1>1, <1>2 DEF RegistryOK, Listed, Passed

LEMMA ThreadKeepsRegistry ==
  ASSUME ClientInv, RegistryOK, NEW a \in Apps, FileThread(a) \/ SocketFails(a)
  PROVE  RegistryOK'
<1>1. /\ thread[a] \in {"start", "loop", "send"}
      /\ UNCHANGED <<apps, app_name, op, name, info, tmp>>
  BY DEF FileThread, ThreadStarts, TakesFile, DealsWithFile, Dies, SocketFails, Moves,
              listVars, requestVars
<1>2. \A b \in Apps : b # a => list_c'[b] = list_c[b]
  BY DEF FileThread, ThreadStarts, TakesFile, DealsWithFile, Dies, SocketFails,
              ClientInv, TypeOK
<1>3. op \in {"add", "create"} => info \in Apps /\ info # a
  BY <1>1 DEF ClientInv, CursorOK, TypeOK
<1> QED BY <1>1, <1>2, <1>3 DEF RegistryOK, Listed, Passed

LEMMA StepRegistry == ClientInv /\ RegistryOK /\ [Next]_vars => RegistryOK'
<1> SUFFICES ASSUME ClientInv, RegistryOK, [Next]_vars PROVE RegistryOK'
  OBVIOUS
<1>1. CASE UNCHANGED vars
  <2>1. UNCHANGED <<op, name, info, tmp, apps, app_name, list_c>>
    BY <1>1 DEF vars, listVars, threadVars, requestVars
  <2> QED BY <2>1 DEF RegistryOK, Listed, Passed
<1> QED
  BY <1>1, RequestKeepsRegistry, NewKeepsRegistry, StartKeepsRegistry, ThreadKeepsRegistry DEF Next

-----------------------------------------------------------------------------
(* What Queues is: one queue for each registered name.                      *)
Registered == {app_name[a] : a \in Listed}
QueuesOK ==
  /\ \A a, b \in Listed : app_name[a] = app_name[b] => a = b
  /\ DOMAIN Queues = Registered /\ Queues = [n \in Registered |-> Queues[n]]
  /\ \A a \in Listed : Queues[app_name[a]] = list_c[a]

LEMMA QueuesFacts == ClientInv => QueuesOK
<1> SUFFICES ASSUME ClientInv PROVE QueuesOK
  OBVIOUS
<1>1. TypeOK /\ WellLinked /\ CursorOK
  BY DEF ClientInv
<1>2. \A i, j \in 1..Len(apps) : app_name[apps[i]] = app_name[apps[j]] => i = j
  <2>1. CASE op # "create"
    BY <1>1, <2>1, ChainIsApps
  <2>2. CASE op = "create"
    <3>1. apps \in Seq(Apps) /\ info \in Apps /\ Chain = Append(apps, info)
      BY <1>1, <2>2 DEF TypeOK, CursorOK, Chain
    <3>2. /\ Len(apps) \in Nat /\ Len(Chain) = Len(apps) + 1
          /\ \A i \in 1..Len(apps) : Chain[i] = apps[i]
      BY <3>1, AppendFacts
    <3>3. 1..Len(apps) \subseteq 1..Len(Chain)
      BY <3>2
    <3> QED BY <1>1, <3>2, <3>3 DEF WellLinked
  <2> QED BY <2>1, <2>2
<1>3. \A a, b \in Listed : app_name[a] = app_name[b] => a = b
  BY <1>2 DEF Listed
<1>4. DOMAIN Queues = Registered /\ Queues = [n \in Registered |-> Queues[n]]
  BY DEF Queues, Registered
<1>5. ASSUME NEW a \in Listed PROVE Queues[app_name[a]] = list_c[a]
  <2> DEFINE b == CHOOSE b \in Listed : app_name[b] = app_name[a]
  <2>1. b \in Listed /\ app_name[b] = app_name[a]
    OBVIOUS
  <2>2. b = a
    BY <1>3, <2>1
  <2>3. Queues[app_name[a]] = list_c[b]
    BY DEF Queues
  <2> QED BY <2>2, <2>3
<1> QED BY <1>3, <1>4, <1>5 DEF QueuesOK

LEMMA SameQueues ==
  ASSUME QueuesOK, QueuesOK', Listed' = Listed,
         \A a \in Listed : app_name'[a] = app_name[a] /\ list_c'[a] = list_c[a]
  PROVE  Queues' = Queues
<1>1. Registered' = Registered
  BY DEF Registered
<1>2. \A n \in Registered : Queues'[n] = Queues[n]
  BY DEF QueuesOK, Registered
<1> QED BY <1>1, <1>2 DEF QueuesOK

(* What the walks have found: the name's application, or that there is none.*)
LEMMA FoundFacts ==
  ASSUME ClientInv, RegistryOK, op \in {"add", "del", "file"}, tmp # NULL, Matches
  PROVE  /\ tmp \in Listed /\ tmp \in Apps /\ name \in Names
         /\ name \in DOMAIN Queues /\ Queues[name] = list_c[tmp]
<1>1. \E i \in 1..Len(apps) : tmp = apps[i]
  BY CursorFacts, DelCursor
<1>2. tmp \in Listed /\ tmp \in Apps
  BY <1>1, AppsFacts DEF ClientInv
<1> QED BY <1>2, QueuesFacts DEF QueuesOK, Registered, Matches, RegistryOK

LEMMA PassedFacts ==
  ASSUME ClientInv, RegistryOK, op # "idle", Passed(Len(apps))
  PROVE  name \in Names /\ name \notin DOMAIN Queues
BY QueuesFacts DEF QueuesOK, Registered, Listed, Passed, RegistryOK

LEMMA AtEndFacts ==
  ASSUME ClientInv, op \in {"add", "file"}, AtEnd, ~Matches
  PROVE  Passed(Len(apps))
<1>1. TypeOK
  BY DEF ClientInv
<1>2. PICK i \in 1..Len(apps) : tmp = apps[i] /\ Passed(i - 1) /\ i = Len(apps)
  BY CursorFacts
<1> QED BY <1>1, <1>2, PassOne

Stutters == UNCHANGED <<Queues, answer>>

(* A request begins: the old answer is no longer the last one.  With an     *)
(* empty list some are answered at once.                                    *)
LEMMA NewAsks ==
  ASSUME ClientInv, QueuesOK, QueuesOK', NEW n \in Names, NEW a \in Apps,
         RegisterFirst(n, a) \/ Register(n, a)
  PROVE  Promise!Ask
<1>1. New(n, a) /\ answer' = NoAnswer
  BY DEF RegisterFirst, Register, New
<1>2. \A b \in Listed : b \in Apps /\ b # a
  BY <1>1, NewFacts, AppsFacts DEF Listed, ClientInv
<1>3. \A b \in Listed : app_name'[b] = app_name[b] /\ list_c'[b] = list_c[b]
  BY <1>1, <1>2, NewFacts DEF New, ClientInv, TypeOK
<1>4. Queues' = Queues
  BY <1>1, <1>3, NewFacts, SameQueues
<1> QED BY <1>1, <1>4 DEF Promise!Ask, Promise!NoAnswer, NoAnswer

LEMMA StartAsks ==
  ASSUME ClientInv, QueuesOK, QueuesOK', NEW n \in Names,
         Delete(n) \/ \E f \in Files : AddFile(n, f)
  PROVE  Promise!Ask \/ Promise!Refuse(n)
<1>1. UNCHANGED <<apps, app_name, list_c>> /\ op = "idle"
  BY DEF Delete, AddFile, Refuse, listVars, threadVars
<1>2. Queues' = Queues
  BY <1>1, SameQueues DEF Listed
<1>3. CASE applist # NULL
  BY <1>2, <1>3 DEF Delete, AddFile, Promise!Ask, Promise!NoAnswer, NoAnswer
<1>4. CASE applist = NULL
  <2>1. apps = << >> /\ Len(apps) = 0
    BY <1>1, <1>4, ChainIsApps, AppsFacts DEF ClientInv
  <2>2. n \notin DOMAIN Queues
    BY <2>1 DEF QueuesOK, Registered, Listed
  <2>3. answer' = [cmd |-> "CMD_DELECT", app |-> n, code |-> "E_NOTFOUND"]
        \/ answer' = [cmd |-> "CMD_ADD_FILE", app |-> n, code |-> "E_NOTFOUND"]
    BY <1>4 DEF Delete, AddFile, Refuse
  <2> QED BY <1>2, <2>2, <2>3 DEF Promise!Refuse, Promise!Says
<1> QED BY <1>3, <1>4

(* Walking and linking in answers nothing and changes no queue.             *)
LEMMA WalksStutter ==
  ASSUME QueuesOK, QueuesOK',
         AddWalks \/ FileWalks \/ DelWalks \/ AddLinks \/ (CreateFails /\ tmp = NULL)
  PROVE  Stutters
<1>1. UNCHANGED <<apps, app_name, list_c, answer>>
  BY DEF AddWalks, FileWalks, DelWalks, AddLinks, CreateFails, Advance, listVars, threadVars
<1> QED BY <1>1, SameQueues DEF Listed, Stutters

(* What is refused is refused for the reason that the answer gives.         *)
LEMMA RefusesTruly ==
  ASSUME ClientInv, RegistryOK, QueuesOK, QueuesOK',
         AddExists \/ DelNotFound \/ FileRefused \/ (CreateFails /\ tmp # NULL)
  PROVE  name \in Names /\ Promise!Refuse(name)
<1>1. UNCHANGED <<apps, app_name, list_c>>
  BY DEF AddExists, DelNotFound, FileRefused, CreateFails, listVars, threadVars
<1>2. Queues' = Queues
  BY <1>1, SameQueues DEF Listed
<1>3. CASE AddExists
  <2>1. op = "add" /\ Matches /\ answer' = [cmd |-> "CMD_REGISTER", app |-> name, code |-> "E_EXIST"]
    BY <1>3 DEF AddExists, Taken, Return
  <2>2. tmp # NULL
    BY <2>1, CursorFacts, AppsFacts DEF ClientInv
  <2> QED BY <1>2, <2>1, <2>2, FoundFacts DEF Promise!Refuse, Promise!Says
<1>4. CASE DelNotFound
  <2>1. op = "del" /\ tmp = NULL /\ answer' = [cmd |-> "CMD_DELECT", app |-> name, code |-> "E_NOTFOUND"]
    BY <1>4 DEF DelNotFound, Return
  <2>2. Passed(Len(apps))
    BY <2>1 DEF RegistryOK
  <2> QED BY <1>2, <2>1, <2>2, PassedFacts DEF Promise!Refuse, Promise!Says
<1>5. CASE CreateFails /\ tmp # NULL
  <2>1. op = "create" /\ answer' = [cmd |-> "CMD_REGISTER", app |-> name, code |-> "E_THREAD"]
    BY <1>5 DEF CreateFails, Return
  <2>2. Passed(Len(apps))
    BY <2>1 DEF ClientInv, CursorOK
  <2> QED BY <1>2, <2>1, <2>2, PassedFacts DEF Promise!Refuse, Promise!Says
<1>6. CASE FileRefused
  <2>1. op = "file"
    BY <1>6 DEF FileRefused
  <2>2. CASE Matches /\ IsFull(tmp) /\ Return("CMD_ADD_FILE", "E_FULL")
    <3>1. tmp # NULL
      BY <2>1, CursorFacts, AppsFacts DEF ClientInv
    <3>2. name \in Names /\ name \in DOMAIN Queues /\ Len(Queues[name]) >= MaxLine
      BY <2>1, <2>2, <3>1, FoundFacts DEF IsFull
    <3> QED BY <1>2, <2>2, <3>2 DEF Promise!Refuse, Promise!Says, Return
  <2>3. CASE ~Matches /\ AtEnd /\ Return("CMD_ADD_FILE", "E_NOTFOUND")
    <3>1. Passed(Len(apps))
      BY <2>1, <2>3, AtEndFacts
    <3> QED BY <1>2, <2>1, <2>3, <3>1, PassedFacts DEF Promise!Refuse, Promise!Says, Return
  <2> QED BY <1>6, <2>2, <2>3 DEF FileRefused
<1> QED BY <1>3, <1>4, <1>5, <1>6

(* What is done is done to the queue of the name, and to no other.          *)
LEMMA CreatesRegisters ==
  ASSUME ClientInv, RegistryOK, QueuesOK, QueuesOK', Creates
  PROVE  name \in Names /\ Promise!Register(name)
<1>1. /\ op = "create" /\ UNCHANGED <<app_name, list_c>>
      /\ answer' = [cmd |-> "CMD_REGISTER", app |-> name, code |-> "E_OK"]
  BY DEF Creates, Return
<1>2. /\ Passed(Len(apps)) /\ app_name[info] = name /\ list_c[info] = << >>
  BY <1>1 DEF ClientInv, CursorOK, RegistryOK
<1>3. name \in Names /\ name \notin DOMAIN Queues
  BY <1>1, <1>2, PassedFacts
<1>4. Listed' = Listed \cup {info}
  BY CreatesLists
<1>5. DOMAIN Queues' = DOMAIN Queues \cup {name}
  BY <1>1, <1>2, <1>4 DEF QueuesOK, Registered
<1>6. Queues'[name] = << >>
  BY <1>1, <1>2, <1>4 DEF QueuesOK
<1>7. \A n \in DOMAIN Queues : Queues'[n] = Queues[n]
  BY <1>1, <1>4 DEF QueuesOK, Registered
<1>8. Queues' = [n \in DOMAIN Queues' |-> Queues'[n]]
  BY DEF QueuesOK
<1>9. Queues' = [n \in DOMAIN Queues \cup {name} |-> IF n = name THEN << >> ELSE Queues[n]]
  BY <1>3, <1>5, <1>6, <1>7, <1>8
<1> QED BY <1>1, <1>3, <1>9 DEF Promise!Register, Promise!Says

LEMMA DelFoundDeletes ==
  ASSUME ClientInv, RegistryOK, QueuesOK, QueuesOK', DelFound
  PROVE  name \in Names /\ Promise!Delete(name)
<1>1. /\ op = "del" /\ tmp # NULL /\ Matches /\ UNCHANGED <<app_name, list_c>>
      /\ answer' = [cmd |-> "CMD_DELECT", app |-> name, code |-> "E_OK"]
  BY DEF DelFound, Return
<1>2. tmp \in Listed /\ name \in Names /\ name \in DOMAIN Queues /\ app_name[tmp] = name
  BY <1>1, FoundFacts DEF Matches
<1>3. Listed' = Listed \ {tmp}
  BY DelFoundList
<1>4. DOMAIN Queues' = DOMAIN Queues \ {name}
  BY <1>1, <1>2, <1>3 DEF QueuesOK, Registered
<1>5. \A n \in DOMAIN Queues \ {name} : Queues'[n] = Queues[n]
  BY <1>1, <1>2, <1>3 DEF QueuesOK, Registered
<1>6. Queues' = [n \in DOMAIN Queues' |-> Queues'[n]]
  BY DEF QueuesOK
<1>7. Queues' = [n \in DOMAIN Queues \ {name} |-> Queues[n]]
  BY <1>4, <1>5, <1>6
<1> QED BY <1>1, <1>2, <1>7 DEF Promise!Delete, Promise!Says

(* One queue changes.                                                       *)
LEMMA OneQueue ==
  ASSUME TypeOK, QueuesOK, QueuesOK', UNCHANGED <<apps, app_name>>, NEW a \in Listed, NEW q,
         a \in Apps, list_c' = [list_c EXCEPT ![a] = q]
  PROVE  Queues' = [Queues EXCEPT ![app_name[a]] = q]
<1>1. Listed' = Listed /\ Registered' = Registered
  BY DEF Listed, Registered
<1>2. \A b \in Listed : b \in Apps
  BY AppsFacts DEF Listed
<1>3. list_c'[a] = q /\ \A b \in Listed : b # a => list_c'[b] = list_c[b]
  BY <1>2 DEF TypeOK
<1>4. Queues'[app_name[a]] = q
  BY <1>1, <1>3 DEF QueuesOK
<1>5. \A n \in Registered : n # app_name[a] => Queues'[n] = Queues[n]
  BY <1>1, <1>3 DEF QueuesOK, Registered
<1>6. Queues' = [n \in Registered |-> Queues'[n]] /\ Queues = [n \in Registered |-> Queues[n]]
  BY <1>1 DEF QueuesOK
<1> QED BY <1>4, <1>5, <1>6

LEMMA FileQueuedAdds ==
  ASSUME ClientInv, RegistryOK, QueuesOK, QueuesOK', FileQueued
  PROVE  name \in Names /\ file \in Files /\ Promise!AddFile(name, file)
<1>1. /\ op = "file" /\ Matches /\ ~IsFull(tmp) /\ UNCHANGED <<apps, app_name>>
      /\ list_c' = [list_c EXCEPT ![tmp] = Append(list_c[tmp], file)]
      /\ answer' = [cmd |-> "CMD_ADD_FILE", app |-> name, code |-> "E_OK"]
  BY DEF FileQueued, Return, listVars
<1>2. TypeOK /\ file \in Files
  BY <1>1 DEF ClientInv, CursorOK
<1>3. tmp # NULL
  BY <1>1, <1>2, CursorFacts, AppsFacts
<1>4. /\ tmp \in Listed /\ tmp \in Apps /\ name \in Names
      /\ name \in DOMAIN Queues /\ Queues[name] = list_c[tmp] /\ app_name[tmp] = name
  BY <1>1, <1>3, FoundFacts DEF Matches
<1>5. Queues' = [Queues EXCEPT ![name] = Append(Queues[name], file)]
  BY <1>1, <1>2, <1>4, OneQueue
<1>6. Len(Queues[name]) < MaxLine
  <2>1. Len(list_c[tmp]) \in Nat
    BY <1>2, <1>4, EmptyFacts DEF TypeOK
  <2> QED BY <1>1, <1>4, <2>1, ClientAssumption DEF IsFull
<1> QED BY <1>1, <1>2, <1>4, <1>5, <1>6 DEF Promise!AddFile, Promise!Says

(* A thread that takes a file sends for a registered application: it has    *)
(* not been cancelled.                                                      *)
LEMMA TakesFileTakes ==
  ASSUME ClientInv, RegistryOK, QueuesOK, QueuesOK', NEW a \in Apps, TakesFile(a)
  PROVE  app_name[a] \in Names /\ Promise!Take(app_name[a])
<1>1. /\ thread[a] = "loop" /\ a \notin cancel /\ list_c[a] # << >>
      /\ list_c' = [list_c EXCEPT ![a] = Tail(list_c[a])]
      /\ UNCHANGED <<apps, app_name, answer>>
  BY DEF TakesFile, Moves, listVars
<1>2. a \in Listed
  BY <1>1 DEF ClientInv, NoRunawayThread
<1>3. app_name[a] \in Names /\ app_name[a] \in DOMAIN Queues /\ Queues[app_name[a]] = list_c[a]
  BY <1>2 DEF RegistryOK, QueuesOK, Registered
<1>4. Queues' = [Queues EXCEPT ![app_name[a]] = Tail(Queues[app_name[a]])]
  BY <1>1, <1>2, <1>3, OneQueue DEF ClientInv
<1> QED BY <1>1, <1>3, <1>4 DEF Promise!Take

LEMMA OtherThreadsStutter ==
  ASSUME QueuesOK, QueuesOK', NEW a \in Apps, FileThread(a) \/ SocketFails(a), ~TakesFile(a)
  PROVE  Stutters
<1>1. UNCHANGED <<apps, app_name, list_c, answer>>
  BY DEF FileThread, ThreadStarts, DealsWithFile, Dies, SocketFails, Moves, listVars
<1> QED BY <1>1, SameQueues DEF Listed, Stutters

LEMMA StepPromise ==
  ASSUME ClientInv, RegistryOK, QueuesOK, QueuesOK', Next
  PROVE  Promise!Next \/ Stutters
<1>1. CASE RequestStep
  <2>1. CASE Creates
    BY <2>1, CreatesRegisters DEF Promise!Next
  <2>2. CASE DelFound
    BY <2>2, DelFoundDeletes DEF Promise!Next
  <2>3. CASE FileQueued
    BY <2>3, FileQueuedAdds DEF Promise!Next
  <2>4. CASE AddExists \/ DelNotFound \/ FileRefused \/ (CreateFails /\ tmp # NULL)
    BY <2>4, RefusesTruly DEF Promise!Next
  <2>5. CASE AddWalks \/ FileWalks \/ DelWalks \/ AddLinks \/ (CreateFails /\ tmp = NULL)
    BY <2>5, WalksStutter
  <2> QED
    BY <1>1, <2>1, <2>2, <2>3, <2>4, <2>5 DEF RequestStep, AddApp, DelApp, AddSendFile
<1>2. ASSUME NEW n \in Names, NEW a \in Apps, RegisterFirst(n, a) \/ Register(n, a)
      PROVE  Promise!Next
  BY <1>2, NewAsks DEF Promise!Next
<1>3. ASSUME NEW n \in Names, Delete(n) \/ \E f \in Files : AddFile(n, f)
      PROVE  Promise!Next
  BY <1>3, StartAsks DEF Promise!Next
<1>4. ASSUME NEW a \in Apps, FileThread(a) \/ SocketFails(a)
      PROVE  Promise!Next \/ Stutters
  <2>1. CASE TakesFile(a)
    BY <2>1, TakesFileTakes DEF Promise!Next
  <2>2. CASE ~TakesFile(a)
    BY <1>4, <2>2, OtherThreadsStutter
  <2> QED BY <2>1, <2>2
<1> QED BY <1>1, <1>2, <1>3, <1>4 DEF Next

(* However the requests, the failures and the senders interleave, every     *)
(* answer the client gives is true of the list when it gives it, and a      *)
(* queue changes by its own requests and its own sender only                *)
(* (proxy_client.cpp 92-312).                                               *)
THEOREM ImplementsRegistry == Spec => KeepsPromise
<1>1. Init => RegistryOK /\ Promise!Init
  <2> SUFFICES ASSUME Init PROVE RegistryOK /\ Promise!Init
    OBVIOUS
  <2>1. apps = << >> /\ Len(apps) = 0 /\ op = "idle" /\ answer = NoAnswer
    BY EmptySeq DEF Init
  <2>2. Listed = {} /\ Registered = {}
    BY <2>1 DEF Listed, Registered
  <2>3. QueuesOK
    BY InitClientInv, QueuesFacts
  <2>4. Queues = [n \in {} |-> << >>]
    BY <2>2, <2>3 DEF QueuesOK
  <2> QED
    BY <2>1, <2>2, <2>4 DEF RegistryOK, Promise!Init, Promise!NoAnswer, NoAnswer
<1>2. ClientInv /\ RegistryOK /\ QueuesOK /\ QueuesOK' /\ [Next]_vars
      => [Promise!Next]_(Promise!registryVars)
  <2>1. ASSUME ClientInv, RegistryOK, QueuesOK, QueuesOK', Next
        PROVE  [Promise!Next]_(Promise!registryVars)
    BY <2>1, StepPromise DEF Stutters, Promise!registryVars
  <2>2. ASSUME QueuesOK, QueuesOK', UNCHANGED vars
        PROVE  UNCHANGED Promise!registryVars
    <3>1. UNCHANGED <<apps, app_name, list_c, answer>>
      BY <2>2 DEF vars, listVars, threadVars
    <3> QED BY <2>2, <3>1, SameQueues DEF Listed, Promise!registryVars
  <2> QED BY <2>1, <2>2
<1> QED
  BY <1>1, <1>2, InitClientInv, StepClientInv, StepRegistry, QueuesFacts, PTL
  DEF Spec, KeepsPromise, Promise!Safety

=============================================================================
