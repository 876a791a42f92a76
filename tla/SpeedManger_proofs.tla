------------------------- MODULE SpeedManger_proofs -------------------------
(***************************************************************************)
(* Proofs about SpeedManger for any number of senders and any max_speed    *)
(* and base_speed.                                                         *)
(***************************************************************************)
EXTENDS SpeedManger, SequenceFacts

(* What is left is never more than max_speed or twice the margin: a grant   *)
(* below that is negative only by what is missing to it.                    *)
Bounded ==
  /\ idle_speed <= max_speed \/ idle_speed <= 2 * BaseSpeed
  /\ \A t \in Threads : queryed[t] <= max_speed \div 2

(* Below four times base_speed the margin would exceed half of max_speed:   *)
(* what keeps grants from being negative there is that twice base_speed     *)
(* always stays idle.                                                       *)
MarginLeft ==
  MarginFits => /\ 0 <= current_speed /\ current_speed < max_speed
                /\ max_speed < 4 * BaseSpeed => 2 * BaseSpeed <= idle_speed
                /\ \A t \in Threads : 0 <= queryed[t]

Types ==
  /\ max_speed \in MaxSpeeds
  /\ current_speed \in Int
  /\ queryed \in [Threads -> Int]
  /\ pc \in [Threads -> {"idle", "query", "send"}]
  /\ crashed \in BOOLEAN /\ lost \in Int /\ kills \in 0..MaxKills

SpeedInv == Types /\ Bounded /\ MarginLeft

LEMMA SpeedFacts ==
  ASSUME Types
  PROVE  /\ max_speed \in Nat \ {0} /\ BaseSpeed \in Nat \ {0} /\ MaxKills \in Nat
         /\ current_speed \in Int /\ idle_speed \in Int
         /\ idle_speed = max_speed - current_speed
BY SpeedAssumption DEF Types, idle_speed

LEMMA LessTaken ==
  ASSUME NEW m \in Int, NEW b \in Int, NEW c \in Int, NEW d \in Int, d <= c, b <= m - c
  PROVE  b <= m - d
OBVIOUS

(* What a grant is, in terms of what is left before (i) and after it.       *)
LEMMA GrantFacts ==
  ASSUME Types, Bounded
  PROVE  /\ Grant \in Int /\ Grant <= max_speed \div 2
         /\ idle_speed - Grant <= max_speed \/ idle_speed - Grant <= 2 * BaseSpeed
         /\ MarginLeft /\ MarginFits =>
              /\ 0 <= Grant /\ 0 < idle_speed - Grant
              /\ max_speed < 4 * BaseSpeed => 2 * BaseSpeed <= idle_speed - Grant
<1> DEFINE i == idle_speed
           m == max_speed \div 2
           h == Half(i)
           b == BaseSpeed
<1>1. /\ max_speed \in Nat \ {0} /\ b \in Nat \ {0} /\ i \in Int
      /\ i <= max_speed \/ i <= 2 * b
      /\ i = max_speed - current_speed /\ current_speed \in Int
  BY SpeedFacts DEF Bounded
<1>2. /\ m \in Nat /\ 2 * m <= max_speed /\ max_speed <= 2 * m + 1 /\ Half(max_speed) = m
  BY <1>1 DEF Half
<1>3. /\ h \in Int
      /\ i >= 0 => h \in Nat /\ 2 * h <= i /\ i <= 2 * h + 1
      /\ i < 0 => h <= 0 /\ i <= 2 * h /\ 2 * h <= i + 1
  <2>1. CASE i >= 0
    BY <1>1, <2>1 DEF Half
  <2>2. CASE i < 0
    <3>1. PICK n \in Nat : n = -i
      BY <1>1, <2>2
    <3>2. n \div 2 \in Nat /\ 2 * (n \div 2) <= n /\ n <= 2 * (n \div 2) + 1
      BY <3>1
    <3>3. h = -(n \div 2)
      BY <2>2, <3>1 DEF Half
    <3> QED BY <1>1, <2>2, <3>1, <3>2, <3>3
  <2> QED BY <1>1, <2>1, <2>2
<1>4. Grant = IF i > m THEN h - b ELSE h
  BY <1>2 DEF Grant
<1>5. MarginLeft /\ MarginFits =>
        /\ 2 * b <= max_speed /\ 0 < i
        /\ max_speed < 4 * b => 2 * b <= i
  BY <1>1 DEF MarginLeft, MarginFits
<1> HIDE DEF i, m, h, b
<1>6. CASE i > m
  <2>1. Grant = h - b /\ 0 <= i
    BY <1>1, <1>2, <1>4, <1>6
  <2>2. Grant <= m /\ (i - Grant <= max_speed \/ i - Grant <= 2 * b)
    BY <1>1, <1>2, <1>3, <2>1
  <2>3. ASSUME 2 * b <= max_speed, max_speed < 4 * b => 2 * b <= i
        PROVE  /\ 0 <= Grant /\ 0 < i - Grant
               /\ max_speed < 4 * b => 2 * b <= i - Grant
    <3>1. 2 * b <= i
      BY <1>1, <1>2, <1>3, <1>6, <2>3
    <3> QED BY <1>1, <1>2, <1>3, <2>1, <2>3, <3>1
  <2> QED BY <1>1, <1>3, <1>5, <2>1, <2>2, <2>3 DEF i, m, b
<1>7. CASE ~(i > m)
  <2>1. Grant = h
    BY <1>4, <1>7
  <2>2. Grant <= m /\ i - Grant <= max_speed
    BY <1>1, <1>2, <1>3, <1>7, <2>1
  <2>3. ASSUME 0 < i, max_speed < 4 * b => 2 * b <= i
        PROVE  /\ 0 <= Grant /\ 0 < i - Grant
               /\ ~(max_speed < 4 * b)
    BY <1>1, <1>2, <1>3, <1>7, <2>1, <2>3
  <2> QED BY <1>1, <1>3, <1>5, <2>1, <2>2, <2>3 DEF i, m, b
<1> QED BY <1>6, <1>7

LEMMA InitSpeedInv == Init => SpeedInv
<1> SUFFICES ASSUME Init PROVE SpeedInv
  OBVIOUS
<1>1. max_speed \in MaxSpeeds /\ max_speed \in Nat \ {0} /\ max_speed \div 2 \in Nat
  BY SpeedAssumption DEF Init
<1>2. Types
  <2>1. queryed \in [Threads -> Int] /\ lost \in Int /\ kills \in 0..MaxKills
    BY SpeedAssumption DEF Init
  <2>2. pc \in [Threads -> {"idle", "query", "send"}] /\ crashed \in BOOLEAN
    BY DEF Init
  <2> QED BY <1>1, <2>1, <2>2 DEF Init, Types
<1>3. Bounded
  BY <1>1 DEF Init, Bounded, idle_speed
<1>4. MarginLeft
  BY <1>1, SpeedAssumption DEF Init, MarginLeft, MarginFits, idle_speed
<1> QED BY <1>2, <1>3, <1>4 DEF SpeedInv

(* Giving back raises the budget to zero at least, or takes nothing.        *)
LEMMA StepSpeedInv == SpeedInv /\ [Next]_vars => SpeedInv'
<1> SUFFICES ASSUME SpeedInv, [Next]_vars PROVE SpeedInv'
  OBVIOUS
<1>1. /\ Types /\ Bounded /\ MarginLeft
      /\ max_speed \in Nat \ {0} /\ BaseSpeed \in Nat \ {0} /\ MaxKills \in Nat
      /\ current_speed \in Int /\ idle_speed \in Int
      /\ idle_speed = max_speed - current_speed /\ max_speed \div 2 \in Nat
  BY SpeedFacts DEF SpeedInv
<1>2. ASSUME NEW t \in Threads, OpensFile(t) PROVE SpeedInv'
  <2>1. Types'
    BY <1>1, <1>2 DEF OpensFile, Types
  <2> QED BY <1>1, <1>2, <2>1
          DEF OpensFile, SpeedInv, Bounded, MarginLeft, MarginFits, idle_speed
<1>3. ASSUME NEW t \in Threads, query_speed(t) PROVE SpeedInv'
  <2>1. /\ Grant \in Int /\ Grant <= max_speed \div 2
        /\ idle_speed - Grant <= max_speed \/ idle_speed - Grant <= 2 * BaseSpeed
        /\ MarginFits =>
              /\ 0 <= Grant /\ 0 < idle_speed - Grant
              /\ max_speed < 4 * BaseSpeed => 2 * BaseSpeed <= idle_speed - Grant
    BY <1>1, GrantFacts
  <2>2. /\ queryed' = [queryed EXCEPT ![t] = Grant] /\ current_speed' = current_speed + Grant
        /\ crashed' \in BOOLEAN /\ pc' = [pc EXCEPT ![t] = "send"]
        /\ max_speed' = max_speed /\ lost' = lost /\ kills' = kills
    BY <1>3 DEF query_speed
  <2>3. Types'
    BY <1>1, <2>1, <2>2 DEF Types
  <2>4. idle_speed' = idle_speed - Grant
    BY <1>1, <2>1, <2>2 DEF idle_speed
  <2>5. Bounded'
    <3>1. \A s \in Threads : queryed'[s] <= max_speed' \div 2
      BY <1>1, <2>1, <2>2 DEF Types, Bounded
    <3>2. idle_speed' <= max_speed' \/ idle_speed' <= 2 * BaseSpeed
      BY <2>1, <2>2, <2>4
    <3> QED BY <3>1, <3>2 DEF Bounded
  <2>6. MarginLeft'
    <3>1. MarginFits' = MarginFits
      BY <2>2 DEF MarginFits
    <3>2. ASSUME MarginFits PROVE \A s \in Threads : 0 <= queryed'[s]
      BY <1>1, <2>1, <2>2, <3>2 DEF Types, MarginLeft
    <3>3. ASSUME MarginFits
          PROVE  /\ 0 <= current_speed' /\ current_speed' < max_speed'
                 /\ max_speed' < 4 * BaseSpeed => 2 * BaseSpeed <= idle_speed'
      <4>1. 0 <= current_speed
        BY <1>1, <3>3 DEF MarginLeft
      <4> QED BY <1>1, <2>1, <2>2, <2>4, <3>3, <4>1
    <3> QED BY <3>1, <3>2, <3>3 DEF MarginLeft
  <2> QED BY <2>3, <2>5, <2>6 DEF SpeedInv
<1>4. ASSUME NEW t \in Threads, return_speed(t) PROVE SpeedInv'
  <2>1. /\ queryed' = [queryed EXCEPT ![t] = 0]
        /\ current_speed' = IF Returned(t) < 0 THEN 0 ELSE Returned(t)
        /\ max_speed' = max_speed /\ crashed' = crashed /\ lost' = lost /\ kills' = kills
    BY <1>4 DEF return_speed
  <2>2. queryed[t] \in Int /\ Returned(t) = current_speed - queryed[t]
    BY <1>1 DEF Types, Returned
  <2>3. current_speed' \in Int /\ 0 <= current_speed' /\ idle_speed' = max_speed - current_speed'
    BY <1>1, <2>1, <2>2 DEF idle_speed
  <2>4. pc' \in [Threads -> {"idle", "query", "send"}]
    BY <1>1, <1>4 DEF return_speed, Types
  <2>5. Types'
    <3>1. queryed' \in [Threads -> Int]
      BY <1>1, <2>1 DEF Types
    <3>2. crashed' \in BOOLEAN /\ lost' \in Int /\ kills' \in 0..MaxKills
      BY <1>1, <2>1 DEF Types
    <3>3. max_speed' \in MaxSpeeds
      BY <1>1, <2>1 DEF Types
    <3> QED BY <2>3, <2>4, <3>1, <3>2, <3>3 DEF Types
  <2>6. Bounded'
    <3>1. \A s \in Threads : queryed'[s] <= max_speed' \div 2
      BY <1>1, <2>1 DEF Types, Bounded
    <3>2. idle_speed' <= max_speed'
      BY <1>1, <2>1, <2>3
    <3> QED BY <3>1, <3>2 DEF Bounded
  <2>7. MarginLeft'
    <3>1. MarginFits' = MarginFits
      BY <2>1 DEF MarginFits
    <3>2. ASSUME MarginFits PROVE \A s \in Threads : 0 <= queryed'[s]
      BY <1>1, <2>1, <3>2 DEF Types, MarginLeft
    <3>3. ASSUME MarginFits
          PROVE  /\ current_speed' < max_speed'
                 /\ max_speed' < 4 * BaseSpeed => 2 * BaseSpeed <= idle_speed'
      <4>1. /\ 0 <= queryed[t] /\ 0 <= current_speed /\ current_speed < max_speed
            /\ max_speed < 4 * BaseSpeed => 2 * BaseSpeed <= idle_speed
        BY <1>1, <3>3 DEF MarginLeft
      <4>2. current_speed' <= current_speed
        BY <1>1, <2>1, <2>2, <4>1
      <4>3. current_speed' < max_speed
        BY <1>1, <2>3, <4>1, <4>2
      <4>4. ASSUME max_speed < 4 * BaseSpeed PROVE 2 * BaseSpeed <= idle_speed'
        <5>1. PICK c \in Int : c = current_speed' /\ c <= current_speed
          BY <2>3, <4>2
        <5>2. /\ 2 * BaseSpeed <= max_speed - current_speed /\ 2 * BaseSpeed \in Int
              /\ max_speed \in Int /\ current_speed \in Int
          BY <1>1, <4>1, <4>4
        <5>3. 2 * BaseSpeed <= max_speed - c
          BY <5>1, <5>2, LessTaken
        <5> QED BY <2>3, <5>1, <5>3
      <4> QED BY <2>1, <4>3, <4>4
    <3> QED BY <2>3, <3>1, <3>2, <3>3 DEF MarginLeft
  <2> QED BY <2>5, <2>6, <2>7 DEF SpeedInv
<1>5. ASSUME NEW t \in Threads, Killed(t) PROVE SpeedInv'
  <2>1. /\ queryed' = [queryed EXCEPT ![t] = 0] /\ pc' = [pc EXCEPT ![t] = "idle"]
        /\ current_speed' = current_speed /\ crashed' = crashed /\ max_speed' = max_speed
        /\ lost' = lost + queryed[t] /\ kills < MaxKills /\ kills' = kills + 1
    BY <1>5 DEF Killed
  <2>2. Types'
    BY <1>1, <2>1 DEF Types
  <2>3. Bounded'
    BY <1>1, <2>1 DEF Types, Bounded, idle_speed
  <2>4. MarginLeft'
    BY <1>1, <2>1 DEF Types, MarginLeft, MarginFits, idle_speed
  <2> QED BY <2>2, <2>3, <2>4 DEF SpeedInv
<1>6. CASE UNCHANGED vars
  BY <1>1, <1>6 DEF vars, SpeedInv, Types, Bounded, MarginLeft, MarginFits, idle_speed
<1> QED BY <1>2, <1>3, <1>4, <1>5, <1>6 DEF Next

LEMMA SpeedInvSays == SpeedInv => TypeOK /\ FairShare
<1> SUFFICES ASSUME SpeedInv PROVE TypeOK /\ FairShare
  OBVIOUS
<1>1. /\ Types /\ Bounded /\ MarginLeft
      /\ max_speed \in Nat \ {0} /\ BaseSpeed \in Nat \ {0}
      /\ current_speed \in Int /\ idle_speed = max_speed - current_speed
  BY SpeedFacts DEF SpeedInv
<1>2. MarginFits => current_speed \in 0..(max_speed - 1)
  BY <1>1 DEF MarginLeft
<1>3. ~MarginFits => current_speed >= max_speed - 2 * BaseSpeed
  BY <1>1 DEF Bounded, MarginFits
<1>4. TypeOK
  BY <1>1, <1>2, <1>3 DEF Types, TypeOK
<1>5. FairShare
  BY <1>1 DEF Types, Bounded, MarginLeft, FairShare
<1> QED BY <1>4, <1>5

-----------------------------------------------------------------------------
(* Sums.  Total is a fold over the set of senders: what is shown of it is     *)
(* shown of a function that gives the sum over each subset.                 *)

(* g[s] is the sum of f over s, for every s in D.                           *)
Sums(f, g, D) ==
  \A s \in D :
    g[s] = IF s = {} THEN 0 ELSE f[CHOOSE x \in s : TRUE] + g[s \ {CHOOSE x \in s : TRUE}]

LEMMA ChosenIsIn ==
  ASSUME NEW s, s # {}
  PROVE  (CHOOSE x \in s : TRUE) \in s
OBVIOUS

(* There is such a function, by the number of elements.                     *)
LEMMA SumsExist ==
  ASSUME NEW S, IsFiniteSet(S), NEW f
  PROVE  \E g : g = [s \in SUBSET S |-> g[s]] /\ Sums(f, g, SUBSET S)
<1> DEFINE Upto(n) == {s \in SUBSET S : Cardinality(s) <= n}
           Done == {n \in Nat : \E g : Sums(f, g, Upto(n))}
           Onemore(g) == [s \in SUBSET S |->
             IF s = {} THEN 0 ELSE f[CHOOSE x \in s : TRUE] + g[s \ {CHOOSE x \in s : TRUE}]]
<1>1. \A s \in SUBSET S : IsFiniteSet(s) /\ Cardinality(s) \in Nat /\ Cardinality(s) <= Cardinality(S)
  BY FS_Subset, FS_CardinalityType
<1>2. 0 \in Done
  <2>1. \A s \in Upto(0) : s = {}
    BY <1>1, FS_EmptySet
  <2>2. Sums(f, [s \in SUBSET S |-> 0], Upto(0))
    BY <2>1 DEF Sums
  <2> QED BY <2>2
<1>3. ASSUME NEW n \in Nat, n \in Done PROVE n + 1 \in Done
  <2>1. PICK g : Sums(f, g, Upto(n))
    BY <1>3
  <2>2. ASSUME NEW s \in Upto(n + 1), s # {}
        PROVE  LET r == s \ {CHOOSE x \in s : TRUE} IN Onemore(g)[r] = g[r]
    <3> DEFINE r == s \ {CHOOSE x \in s : TRUE}
    <3>1. r \in SUBSET S /\ Cardinality(r) = Cardinality(s) - 1
      BY <1>1, <2>2, ChosenIsIn, FS_RemoveElement
    <3>2. r \in Upto(n)
      BY <1>1, <3>1
    <3> HIDE DEF r
    <3>3. Onemore(g)[r] = g[r]
      BY <2>1, <3>1, <3>2 DEF Sums
    <3> QED BY <3>3 DEF r
  <2>3. ASSUME NEW s \in Upto(n + 1)
        PROVE  Onemore(g)[s] = IF s = {} THEN 0
                 ELSE f[CHOOSE x \in s : TRUE] + Onemore(g)[s \ {CHOOSE x \in s : TRUE}]
    <3>1. CASE s = {}
      BY <3>1
    <3>2. CASE s # {}
      <4>1. Onemore(g)[s] = f[CHOOSE x \in s : TRUE] + g[s \ {CHOOSE x \in s : TRUE}]
        BY <3>2
      <4> HIDE DEF Onemore
      <4>2. Onemore(g)[s \ {CHOOSE x \in s : TRUE}] = g[s \ {CHOOSE x \in s : TRUE}]
        BY <2>2, <3>2
      <4> QED BY <3>2, <4>1, <4>2
    <3> QED BY <3>1, <3>2
  <2> HIDE DEF Onemore
  <2>4. Sums(f, Onemore(g), Upto(n + 1))
    BY <2>3 DEF Sums
  <2>5. n + 1 \in Nat
    OBVIOUS
  <2> QED BY <2>4, <2>5
<1>4. Cardinality(S) \in Done
  <2> HIDE DEF Done
  <2> QED BY <1>2, <1>3, NatSetInduction, FS_CardinalityType
<1>5. PICK g : Sums(f, g, Upto(Cardinality(S)))
  BY <1>4
<1>6. Sums(f, g, SUBSET S)
  BY <1>1, <1>5 DEF Sums
<1> DEFINE h == [s \in SUBSET S |-> g[s]]
<1>7. Sums(f, h, SUBSET S)
  BY <1>6, ChosenIsIn DEF Sums
<1>8. h = [s \in SUBSET S |-> h[s]]
  OBVIOUS
<1> QED BY <1>7, <1>8

(* Total is the value at the whole of it.                                     *)
LEMMA SumIsFold ==
  ASSUME NEW S, IsFiniteSet(S), NEW f, DOMAIN f = S
  PROVE  \E g : Sums(f, g, SUBSET S) /\ Total(f) = g[S]
<1> DEFINE Equation(g) == g = [s \in SUBSET S |->
             IF s = {} THEN 0 ELSE f[CHOOSE x \in s : TRUE] + g[s \ {CHOOSE x \in s : TRUE}]]
           iter == CHOOSE g : Equation(g)
<1>1. \E g : Equation(g)
  <2>1. PICK g : g = [s \in SUBSET S |-> g[s]] /\ Sums(f, g, SUBSET S)
    BY SumsExist
  <2>2. g = [s \in SUBSET S |->
          IF s = {} THEN 0 ELSE f[CHOOSE x \in s : TRUE] + g[s \ {CHOOSE x \in s : TRUE}]]
    BY <2>1 DEF Sums
  <2> QED BY <2>2
<1>2. Equation(iter)
  BY <1>1
<1>3. Total(f) = iter[S]
  BY DEF Total, FoldFunction, FoldFunctionOnSet, MapThenFoldSet
<1> HIDE DEF iter
<1>4. Sums(f, iter, SUBSET S)
  BY <1>2 DEF Sums
<1> QED BY <1>3, <1>4

(* The sum of numbers is a number, negative only if one of them is.         *)
LEMMA SumOfNumbers ==
  ASSUME NEW S, IsFiniteSet(S), NEW f \in [S -> Int]
  PROVE  /\ Total(f) \in Int
         /\ (\A x \in S : 0 <= f[x]) => 0 <= Total(f)
         /\ (\A x \in S : f[x] = 0) => Total(f) = 0
<1>1. PICK g : Sums(f, g, SUBSET S) /\ Total(f) = g[S]
  BY SumIsFold
<1> DEFINE G == {s \in SUBSET S : /\ g[s] \in Int
                                  /\ (\A x \in S : 0 <= f[x]) => 0 <= g[s]
                                  /\ (\A x \in S : f[x] = 0) => g[s] = 0}
<1>2. {} \in G
  <2>1. g[{}] = 0
    BY <1>1 DEF Sums
  <2> QED BY <2>1
<1>3. ASSUME NEW T \in SUBSET S, T # {}, \A x \in T : T \ {x} \in G
      PROVE  T \in G
  <2>1. PICK x \in T : g[T] = f[x] + g[T \ {x}]
    BY <1>1, <1>3, ChosenIsIn DEF Sums
  <2>2. f[x] \in Int /\ g[T \ {x}] \in Int
    BY <1>3, <2>1
  <2> QED BY <1>3, <2>1, <2>2
<1>4. S \in G
  <2> HIDE DEF G
  <2> QED BY <1>2, <1>3, SubsetInduction
<1> QED BY <1>1, <1>4

(* A sum changes by what one of its numbers does.                           *)
LEMMA SumExcept ==
  ASSUME NEW S, IsFiniteSet(S), NEW f \in [S -> Int], NEW t \in S, NEW v \in Int
  PROVE  Total([f EXCEPT ![t] = v]) = Total(f) + (v - f[t])
<1> DEFINE h == [f EXCEPT ![t] = v]
<1>1. /\ h \in [S -> Int] /\ h[t] = v /\ f[t] \in Int
      /\ \A x \in S : x # t => h[x] = f[x]
  OBVIOUS
<1> HIDE DEF h
<1>2. PICK g : Sums(f, g, SUBSET S) /\ Total(f) = g[S]
  BY SumIsFold
<1>3. PICK k : Sums(h, k, SUBSET S) /\ Total(h) = k[S]
  BY <1>1, SumIsFold
<1> DEFINE G == {s \in SUBSET S : /\ g[s] \in Int /\ k[s] \in Int
                                  /\ k[s] = g[s] + (IF t \in s THEN v - f[t] ELSE 0)}
<1>4. {} \in G
  <2>1. g[{}] = 0 /\ k[{}] = 0
    BY <1>2, <1>3 DEF Sums
  <2> QED BY <2>1
<1>5. ASSUME NEW T \in SUBSET S, T # {}, \A x \in T : T \ {x} \in G
      PROVE  T \in G
  <2>1. PICK x \in T : g[T] = f[x] + g[T \ {x}] /\ k[T] = h[x] + k[T \ {x}]
    BY <1>2, <1>3, <1>5, ChosenIsIn DEF Sums
  <2>2. /\ f[x] \in Int /\ h[x] \in Int /\ g[T \ {x}] \in Int /\ k[T \ {x}] \in Int
        /\ k[T \ {x}] = g[T \ {x}] + (IF t \in T \ {x} THEN v - f[t] ELSE 0)
    BY <1>1, <1>5, <2>1
  <2>3. CASE x = t
    BY <1>1, <2>1, <2>2, <2>3
  <2>4. CASE x # t
    BY <1>1, <2>1, <2>2, <2>4
  <2> QED BY <2>3, <2>4
<1>6. S \in G
  <2> HIDE DEF G
  <2> QED BY <1>4, <1>5, SubsetInduction
<1> QED BY <1>1, <1>2, <1>3, <1>6 DEF h

LEMMA SumWithout ==
  ASSUME NEW S, IsFiniteSet(S), NEW f \in [S -> Int], NEW t \in S
  PROVE  Total([f EXCEPT ![t] = 0]) = Total(f) - f[t]
<1>1. PICK v \in Int : v = 0
  OBVIOUS
<1>2. Total([f EXCEPT ![t] = v]) = Total(f) + (v - f[t])
  BY SumExcept
<1>3. Total(f) \in Int /\ f[t] \in Int
  BY SumOfNumbers
<1> QED BY <1>1, <1>2, <1>3

-----------------------------------------------------------------------------
(* The budget.  Only a sender that is sending holds a part of it, so that a *)
(* query adds to what was held; if the margin fits, what killed ones took   *)
(* is no negative amount.                                                   *)
OnlySendersHold == \A t \in Threads : pc[t] # "send" => queryed[t] = 0
Balanced == Accounted /\ OnlySendersHold /\ (MarginFits => lost >= 0)
AccountInv == SpeedInv /\ Balanced

LEMMA InitAccount == Init => Balanced
<1> SUFFICES ASSUME Init PROVE Balanced
  OBVIOUS
<1>1. Total(queryed) = 0
  BY SumOfNumbers, SpeedAssumption DEF Init
<1> QED BY <1>1 DEF Init, Balanced, Accounted, OnlySendersHold

LEMMA StepAccount == AccountInv /\ [Next]_vars => Balanced'
<1> SUFFICES ASSUME AccountInv, [Next]_vars PROVE Balanced'
  OBVIOUS
<1> DEFINE T == Total(queryed)
<1>1. /\ queryed \in [Threads -> Int] /\ IsFiniteSet(Threads) /\ lost \in Int
      /\ current_speed \in Int /\ T \in Int /\ T + lost <= current_speed
      /\ Types /\ Bounded /\ MarginLeft /\ OnlySendersHold
      /\ pc \in [Threads -> {"idle", "query", "send"}]
  BY SumOfNumbers, SpeedAssumption DEF AccountInv, SpeedInv, Types, Balanced, Accounted
<1>2. MarginFits =>
        /\ current_speed = T + lost /\ lost >= 0
        /\ \A t \in Threads : queryed[t] >= 0
  BY <1>1 DEF AccountInv, Balanced, Accounted, MarginLeft
<1>3. ASSUME NEW t \in Threads, query_speed(t) PROVE Balanced'
  <2>1. /\ queryed' = [queryed EXCEPT ![t] = Grant]
        /\ current_speed' = current_speed + Grant /\ lost' = lost /\ max_speed' = max_speed
        /\ queryed[t] = 0 /\ Grant \in Int
    BY <1>1, <1>3, GrantFacts DEF query_speed, OnlySendersHold
  <2>2. Total(queryed') = T + (Grant - queryed[t])
    BY <1>1, <2>1, SumExcept
  <2>3. OnlySendersHold'
    BY <1>1, <1>3 DEF query_speed, OnlySendersHold
  <2> HIDE DEF T
  <2> QED BY <1>1, <1>2, <2>1, <2>2, <2>3 DEF Balanced, Accounted, MarginFits
<1>4. ASSUME NEW t \in Threads, return_speed(t) PROVE Balanced'
  <2>1. /\ queryed' = [queryed EXCEPT ![t] = 0] /\ lost' = lost /\ max_speed' = max_speed
        /\ current_speed' = IF Returned(t) < 0 THEN 0 ELSE Returned(t)
        /\ queryed[t] \in Int /\ Returned(t) = current_speed - queryed[t]
    BY <1>1, <1>4 DEF return_speed, Returned
  <2>2. Total(queryed') = T - queryed[t]
    BY <1>1, <2>1, SumWithout
  <2>3. Total(queryed') + lost <= Returned(t) /\ Returned(t) <= current_speed'
    BY <1>1, <2>1, <2>2
  <2>4. ASSUME MarginFits PROVE current_speed' = Total(queryed') + lost
    <3>1. queryed' \in [Threads -> Int] /\ \A s \in Threads : 0 <= queryed'[s]
      BY <1>1, <1>2, <2>1, <2>4
    <3>2. 0 <= Total(queryed')
      BY <1>1, <3>1, SumOfNumbers
    <3> HIDE DEF T
    <3> QED BY <1>1, <1>2, <2>1, <2>2, <2>4, <3>2
  <2>5. OnlySendersHold'
    BY <1>1, <1>4 DEF return_speed, OnlySendersHold
  <2>6. Total(queryed') + lost' <= current_speed'
    <3> HIDE DEF T
    <3> QED BY <1>1, <2>1, <2>2, <2>3
  <2> QED BY <1>2, <2>1, <2>4, <2>5, <2>6 DEF Balanced, Accounted, MarginFits
<1>5. ASSUME NEW t \in Threads, Killed(t) PROVE Balanced'
  <2>1. /\ queryed' = [queryed EXCEPT ![t] = 0] /\ max_speed' = max_speed
        /\ current_speed' = current_speed /\ lost' = lost + queryed[t] /\ queryed[t] \in Int
    BY <1>1, <1>5 DEF Killed
  <2>2. Total(queryed') = T - queryed[t]
    BY <1>1, <2>1, SumWithout
  <2>3. OnlySendersHold'
    BY <1>1, <1>5 DEF Killed, OnlySendersHold
  <2>4. MarginFits => queryed[t] >= 0
    BY <1>2
  <2> HIDE DEF T
  <2> QED BY <1>1, <1>2, <2>1, <2>2, <2>3, <2>4 DEF Balanced, Accounted, MarginFits
<1>6. ASSUME NEW t \in Threads, OpensFile(t) PROVE Balanced'
  BY <1>1, <1>2, <1>6 DEF OpensFile, Balanced, Accounted, OnlySendersHold, MarginFits
<1>7. CASE UNCHANGED vars
  BY <1>1, <1>2, <1>7 DEF vars, Balanced, Accounted, OnlySendersHold, MarginFits
<1> QED BY <1>3, <1>4, <1>5, <1>6, <1>7 DEF Next

(* Whatever the senders do, the budget is never overdrawn and never used up *)
(* if the margin fits twice into max_speed, and goes below zero by no more  *)
(* than what is missing if it does not (proxy_client.cpp 346-376).          *)
THEOREM BudgetIsKept == Spec => []TypeOK
BY InitSpeedInv, StepSpeedInv, SpeedInvSays, PTL DEF Spec

(* No grant is above half of max_speed, for every max_speed and base_speed, *)
(* and none is negative if the margin fits (proxy_client.cpp 352-359).      *)
THEOREM SharesAreFair == Spec => []FairShare
BY InitSpeedInv, StepSpeedInv, SpeedInvSays, PTL DEF Spec

(* No part of the budget is granted twice; and if the margin fits, what is  *)
(* taken from it is exactly what the senders hold and what killed ones took *)
(* with them: return_speed never has to cut at zero (346-376).              *)
THEOREM BudgetIsAccounted == Spec => []Accounted
<1>1. Balanced => Accounted
  BY DEF Balanced
<1>2. AccountInv /\ [Next]_vars => Balanced'
  BY StepAccount
<1> QED BY <1>1, <1>2, InitSpeedInv, StepSpeedInv, InitAccount, PTL DEF Spec, AccountInv

=============================================================================
