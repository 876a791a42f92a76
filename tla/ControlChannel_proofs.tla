------------------------ MODULE ControlChannel_proofs ------------------------
(***************************************************************************)
(* Proofs about Settings and ControlChannel for every line of text, any    *)
(* commands, however TCP cuts them, and any number of connections,         *)
(* descriptors and processes.                                              *)
(***************************************************************************)
EXTENDS ControlChannel, SequenceFacts, FiniteSetTheorems, WellFoundedInduction

-----------------------------------------------------------------------------
(* Settings                                                                 *)

LEMMA MinFacts ==
  ASSUME NEW T, T \subseteq Nat, T # {}
  PROVE  Min(T) \in T /\ \A y \in T : Min(T) <= y
<1>1. PICK x \in T : \A y \in T : ~(<<y, x>> \in OpToRel(<, Nat))
  BY WFMin, NatLessThanWellFounded
<1>2. ASSUME NEW y \in T PROVE x <= y
  <2>1. y < x => <<y, x>> \in OpToRel(<, Nat)
    BY DEF OpToRel
  <2>2. ~(y < x) /\ x \in Nat /\ y \in Nat
    BY <1>1, <2>1
  <2> QED BY <2>2
<1> QED BY <1>2 DEF Min

LEMMA MaxFacts ==
  ASSUME NEW n \in Nat, NEW T, T \subseteq 1..n, T # {}
  PROVE  Max(T) \in T /\ \A y \in T : y <= Max(T)
<1> DEFINE U == {n - i : i \in T}
<1>1. U \subseteq Nat /\ U # {}
  <2>1. \A i \in T : n - i \in Nat
    OBVIOUS
  <2>2. PICK i \in T : TRUE
    OBVIOUS
  <2>3. n - i \in U
    OBVIOUS
  <2> QED BY <2>1, <2>3
<1>2. Min(U) \in U /\ \A u \in U : Min(U) <= u
  BY <1>1, MinFacts
<1>3. PICK x \in T : Min(U) = n - x
  BY <1>2
<1>4. \A y \in T : n - x <= n - y
  BY <1>2, <1>3
<1>5. \A y \in T : y <= x
  BY <1>4
<1> QED BY <1>5 DEF Max

(* find returns the first place of a character, or 0.                       *)
LEMMA FindFacts ==
  ASSUME NEW c, NEW s \in Seq(Nat)
  PROVE  /\ Find(c, s) \in 0..Len(s)
         /\ Find(c, s) # 0 => s[Find(c, s)] = c
         /\ \A i \in 1..Len(s) : s[i] = c => Find(c, s) # 0 /\ Find(c, s) <= i
<1> DEFINE at == {i \in DOMAIN s : s[i] = c}
<1>1. DOMAIN s = 1..Len(s) /\ Len(s) \in Nat
  BY LenProperties
<1>2. CASE at = {}
  BY <1>1, <1>2 DEF Find
<1>3. CASE at # {}
  <2>1. Find(c, s) = Min(at)
    BY <1>3 DEF Find
  <2>2. at \subseteq Nat
    BY <1>1
  <2>3. \A i \in 1..Len(s) : s[i] = c => i \in at
    BY <1>1
  <2>4. \A i \in at : i \in 1..Len(s) /\ s[i] = c
    BY <1>1
  <2> HIDE DEF at
  <2>5. Min(at) \in at /\ \A y \in at : Min(at) <= y
    BY <1>3, <2>2, MinFacts
  <2> QED BY <1>1, <2>1, <2>3, <2>4, <2>5
<1> QED BY <1>2, <1>3

(* A trimmed text is a part of the text that has all its ink.               *)
LEMMA TrimFacts ==
  ASSUME NEW s \in Seq(Nat)
  PROVE  \/ Trim(s) = << >> /\ \A i \in 1..Len(s) : IsSpace(s[i])
         \/ \E a, b \in 1..Len(s) :
              /\ a <= b /\ Trim(s) = SubSeq(s, a, b)
              /\ \A i \in 1..Len(s) : ~IsSpace(s[i]) => i \in a..b
<1> DEFINE ink == {i \in DOMAIN s : ~IsSpace(s[i])}
<1>1. DOMAIN s = 1..Len(s) /\ Len(s) \in Nat
  BY LenProperties
<1>2. CASE ink = {}
  BY <1>1, <1>2 DEF Trim
<1>3. CASE ink # {}
  <2>1. Trim(s) = SubSeq(s, Min(ink), Max(ink))
    BY <1>3 DEF Trim
  <2>2. \A i \in 1..Len(s) : ~IsSpace(s[i]) => i \in ink
    BY <1>1
  <2>3. ink \subseteq 1..Len(s)
    BY <1>1
  <2> HIDE DEF ink
  <2>4. ink \subseteq Nat
    BY <1>1, <2>3
  <2>5. Min(ink) \in ink /\ \A y \in ink : Min(ink) <= y
    BY <1>3, <2>4, MinFacts
  <2>6. Max(ink) \in ink /\ \A y \in ink : y <= Max(ink)
    BY <1>1, <1>3, <2>3, MaxFacts
  <2>7. Min(ink) \in 1..Len(s) /\ Max(ink) \in 1..Len(s) /\ Min(ink) <= Max(ink)
    BY <2>3, <2>5, <2>6
  <2>8. \A i \in 1..Len(s) : ~IsSpace(s[i]) => i \in Min(ink)..Max(ink)
    BY <1>1, <2>2, <2>5, <2>6, <2>7
  <2> QED BY <2>1, <2>7, <2>8
<1> QED BY <1>2, <1>3

(* What a trimmed text is not: a key if it has a comment sign or too few    *)
(* characters.                                                              *)
LEMMA NotAKey ==
  ASSUME NEW s \in Seq(Nat),
         Len(s) < 2 \/ \E i \in 1..Len(s) : s[i] = HASH
  PROVE  Trim(s) \notin Keys
<1> SUFFICES ASSUME Trim(s) \in Keys PROVE FALSE
  OBVIOUS
<1>1. /\ Trim(s) \in Seq(Nat) /\ Len(Trim(s)) >= 2
      /\ \A i \in DOMAIN Trim(s) : Trim(s)[i] # HASH
  BY KeysAssumption
<1>2. Trim(s) # << >>
  BY <1>1, EmptySeq
<1>3. PICK a, b \in 1..Len(s) :
        /\ a <= b /\ Trim(s) = SubSeq(s, a, b)
        /\ \A i \in 1..Len(s) : ~IsSpace(s[i]) => i \in a..b
  BY <1>2, TrimFacts
<1>4. \A i \in a..b : s[i] \in Nat
  BY <1>3, LenProperties
<1>5. /\ Len(Trim(s)) = b - a + 1
      /\ \A i \in 1..(b - a + 1) : Trim(s)[i] = s[a + i - 1]
  BY <1>3, <1>4, SubSeqProperties, LenProperties
<1>6. Len(s) >= 2
  BY <1>1, <1>5, LenProperties
<1>7. PICK i \in 1..Len(s) : s[i] = HASH
  BY <1>6, LenProperties
<1>8. i \in a..b
  <2>1. ~IsSpace(s[i])
    BY <1>7 DEF IsSpace, HASH, TAB, SPACE
  <2> QED BY <1>3, <2>1
<1>9. i - a + 1 \in 1..(b - a + 1) /\ Trim(s)[i - a + 1] = HASH
  <2>1. i - a + 1 \in 1..(b - a + 1)
    BY <1>8
  <2>2. Trim(s)[i - a + 1] = s[a + (i - a + 1) - 1]
    BY <1>5, <2>1
  <2> QED BY <1>7, <2>1, <2>2
<1>10. DOMAIN Trim(s) = 1..Len(Trim(s))
  BY <1>1, LenProperties
<1> QED BY <1>1, <1>5, <1>9, <1>10

(* The beginning of a text, and parts of it.                                *)
LEMMA PartFacts ==
  ASSUME NEW s \in Seq(Nat), NEW a \in 1..(Len(s) + 1), NEW b \in 0..Len(s)
  PROVE  /\ SubSeq(s, a, b) \in Seq(Nat)
         /\ Len(SubSeq(s, a, b)) = IF a <= b THEN b - a + 1 ELSE 0
         /\ \A i \in 1..(b - a + 1) : SubSeq(s, a, b)[i] = s[a + i - 1]
<1>1. Len(s) \in Nat
  BY LenProperties
<1>2. \A i \in a..b : s[i] \in Nat
  BY <1>1, ElementOfSeq
<1> QED BY <1>1, <1>2, SubSeqProperties

LEMMA PartOfBeginning ==
  ASSUME NEW s \in Seq(Nat), NEW n \in 0..Len(s), NEW a \in 1..(n + 1), NEW b \in 0..n
  PROVE  SubSeq(SubSeq(s, 1, n), a, b) = SubSeq(s, a, b)
<1> DEFINE t == SubSeq(s, 1, n)
<1>1. Len(s) \in Nat /\ 1 \in 1..(Len(s) + 1)
  BY LenProperties
<1>2. t \in Seq(Nat) /\ Len(t) = n /\ \A i \in 1..n : t[i] = s[i]
  BY <1>1, PartFacts
<1>3. a \in 1..(Len(s) + 1) /\ b \in 0..Len(s) /\ a \in 1..(Len(t) + 1) /\ b \in 0..Len(t)
  BY <1>1, <1>2
<1> HIDE DEF t
<1>4. /\ SubSeq(s, a, b) \in Seq(Nat)
      /\ Len(SubSeq(s, a, b)) = IF a <= b THEN b - a + 1 ELSE 0
      /\ \A i \in 1..(b - a + 1) : SubSeq(s, a, b)[i] = s[a + i - 1]
  BY <1>3, PartFacts
<1>5. /\ SubSeq(t, a, b) \in Seq(Nat)
      /\ Len(SubSeq(t, a, b)) = IF a <= b THEN b - a + 1 ELSE 0
      /\ \A i \in 1..(b - a + 1) : SubSeq(t, a, b)[i] = t[a + i - 1]
  BY <1>2, <1>3, PartFacts
<1>6. \A i \in 1..(b - a + 1) : a + i - 1 \in 1..n
  BY <1>1
<1>7. ASSUME NEW i \in 1..Len(SubSeq(t, a, b)) PROVE SubSeq(t, a, b)[i] = SubSeq(s, a, b)[i]
  <2>1. i \in 1..(b - a + 1)
    BY <1>5
  <2>2. SubSeq(t, a, b)[i] = t[a + i - 1] /\ SubSeq(s, a, b)[i] = s[a + i - 1]
    BY <1>4, <1>5, <2>1
  <2>3. t[a + i - 1] = s[a + i - 1]
    BY <1>2, <1>6, <2>1
  <2> QED BY <2>2, <2>3
<1>8. SubSeq(t, a, b) = SubSeq(s, a, b)
  BY <1>4, <1>5, <1>7, SeqEqual
<1> QED BY <1>8 DEF t

LEMMA FindInBeginning ==
  ASSUME NEW c, NEW s \in Seq(Nat), NEW n \in 0..Len(s)
  PROVE  Find(c, SubSeq(s, 1, n)) = IF Find(c, s) <= n THEN Find(c, s) ELSE 0
<1> DEFINE t == SubSeq(s, 1, n)
<1>1. Len(s) \in Nat /\ 1 \in 1..(Len(s) + 1)
  BY LenProperties
<1>2. t \in Seq(Nat) /\ Len(t) = n /\ \A i \in 1..n : t[i] = s[i]
  BY <1>1, PartFacts
<1> HIDE DEF t
<1>3. /\ Find(c, s) \in 0..Len(s)
      /\ Find(c, s) # 0 => s[Find(c, s)] = c
      /\ \A i \in 1..Len(s) : s[i] = c => Find(c, s) # 0 /\ Find(c, s) <= i
  BY FindFacts
<1>4. /\ Find(c, t) \in 0..n
      /\ Find(c, t) # 0 => t[Find(c, t)] = c
      /\ \A i \in 1..n : t[i] = c => Find(c, t) # 0 /\ Find(c, t) <= i
  BY <1>2, FindFacts
<1>5. CASE Find(c, t) = 0
  <2>1. Find(c, s) = 0 \/ Find(c, s) > n
    BY <1>1, <1>2, <1>3, <1>4, <1>5
  <2> QED BY <1>1, <1>3, <1>5, <2>1 DEF t
<1>6. CASE Find(c, t) # 0
  <2>1. Find(c, t) \in 1..Len(s) /\ s[Find(c, t)] = c
    BY <1>1, <1>2, <1>4, <1>6
  <2>2. Find(c, s) # 0 /\ Find(c, s) <= Find(c, t)
    BY <1>3, <2>1
  <2>3. Find(c, s) \in 1..n
    BY <1>1, <1>3, <1>4, <2>2
  <2>4. t[Find(c, s)] = c
    BY <1>2, <1>3, <2>2, <2>3
  <2>5. Find(c, t) <= Find(c, s)
    BY <1>4, <2>3, <2>4
  <2> QED BY <1>1, <1>3, <1>4, <2>2, <2>3, <2>5 DEF t
<1> QED BY <1>5, <1>6

(* Two settings that set the same.                                          *)
Same(s, r) == s = r \/ (s.key \notin Keys /\ r.key \notin Keys)

LEMMA SamePut ==
  ASSUME NEW s, NEW r, Same(s, r), NEW table
  PROVE  Put(table, s) = Put(table, r)
BY DEF Same, Put

(* AnalyseLine, config.cpp 57-82: whatever its arithmetic does with short   *)
(* lines and with comments, a line sets what it means.                      *)
THEOREM LineAsMeant ==
  ASSUME NEW line \in Seq(Nat)
  PROVE  Same(AnalyseLine(line), Meant(line))
<1> DEFINE n == End(line)
           part == SubSeq(line, 1, n)
           pos == Find(EQUALS, line)
<1>1. Len(line) \in Nat /\ 1 \in 1..(Len(line) + 1)
  BY LenProperties
<1>2. n \in 0..Len(line) /\ (n < Len(line) => line[n + 1] = HASH)
  <2>1. /\ Find(HASH, line) \in 0..Len(line)
        /\ Find(HASH, line) # 0 => line[Find(HASH, line)] = HASH
    BY FindFacts
  <2> QED BY <1>1, <2>1 DEF End
<1>3. pos \in 0..Len(line)
  BY FindFacts
<1>4. part \in Seq(Nat) /\ Len(part) = n
  BY <1>1, <1>2, PartFacts
<1>5. Find(EQUALS, part) = IF pos <= n THEN pos ELSE 0
  BY <1>2, FindInBeginning
<1>6. << >> \notin Keys
  BY KeysAssumption, EmptySeq
<1>7. NoSetting.key \notin Keys
  BY <1>6 DEF NoSetting
<1> HIDE DEF n, part, pos
<1>8. Meant(line) = IF Find(EQUALS, part) = 0 THEN NoSetting
                    ELSE [key |-> Trim(SubSeq(part, 1, Find(EQUALS, part) - 1)),
                          value |-> Trim(SubSeq(part, Find(EQUALS, part) + 1, Len(part)))]
  BY DEF Meant, n, part
<1>9. CASE n > 2
  <2>1. Kept(line) = line
    BY <1>9 DEF Kept, n
  <2>2. CASE pos \in 1..n
    <3>1. Find(EQUALS, part) = pos
      BY <1>5, <2>2
    <3>2. SubSeq(part, 1, pos - 1) = SubSeq(line, 1, pos - 1)
      BY <1>1, <1>2, <2>2, PartOfBeginning DEF part
    <3>3. SubSeq(part, pos + 1, n) = SubSeq(line, pos + 1, n)
      BY <1>1, <1>2, <2>2, PartOfBeginning DEF part
    <3>4. Meant(line) = [key |-> Trim(SubSeq(line, 1, pos - 1)),
                         value |-> Trim(SubSeq(line, pos + 1, n))]
      <4>1. Find(EQUALS, part) # 0
        BY <1>3, <2>2, <3>1
      <4>2. Meant(line) = [key |-> Trim(SubSeq(part, 1, pos - 1)),
                           value |-> Trim(SubSeq(part, pos + 1, n))]
        BY <1>4, <1>8, <3>1, <4>1
      <4> QED BY <3>2, <3>3, <4>2
    <3>5. Value(line, pos) = SubSeq(line, pos + 1, n)
      BY <1>1, <1>2, <1>3, <2>1, <2>2 DEF Value, n
    <3>6. CASE Trim(SubSeq(line, 1, pos - 1)) = << >>
      <4>1. AnalyseLine(line) = NoSetting
        BY <2>1, <3>6 DEF AnalyseLine, pos
      <4> QED BY <1>6, <1>7, <3>4, <3>6, <4>1 DEF Same
    <3>7. CASE Trim(SubSeq(line, 1, pos - 1)) # << >>
      <4>1. AnalyseLine(line) = [key |-> Trim(SubSeq(line, 1, pos - 1)),
                                 value |-> Trim(SubSeq(line, pos + 1, n))]
        BY <1>9, <2>1, <2>2, <3>5, <3>7 DEF AnalyseLine, pos, n
      <4> QED BY <3>4, <4>1 DEF Same
    <3> QED BY <3>6, <3>7
  <2>3. CASE pos \notin 1..n
    <3>1. Meant(line) = NoSetting
      BY <1>2, <1>3, <1>5, <1>8, <2>3
    <3>2. CASE pos = 0
      BY <2>1, <3>1, <3>2 DEF AnalyseLine, Same, pos
    <3>3. CASE pos > n
      <4> DEFINE front == SubSeq(line, 1, pos - 1)
      <4>1. /\ front \in Seq(Nat) /\ Len(front) = pos - 1
            /\ \A i \in 1..(pos - 1) : front[i] = line[i]
        BY <1>1, <1>2, <1>3, <3>3, PartFacts
      <4>2. line[n + 1] = HASH /\ n + 1 # pos
        <5>1. line[n + 1] = HASH /\ line[pos] = EQUALS
          BY <1>2, <1>3, <3>3, FindFacts DEF pos
        <5> QED BY <5>1 DEF HASH, EQUALS
      <4>3. n + 1 \in 1..Len(front) /\ front[n + 1] = HASH
        BY <1>2, <1>3, <3>3, <4>1, <4>2
      <4>4. Trim(front) \notin Keys
        BY <4>1, <4>3, NotAKey
      <4>5. AnalyseLine(line).key \notin Keys
        BY <1>7, <2>1, <4>4 DEF AnalyseLine, pos
      <4> QED BY <1>7, <3>1, <4>5 DEF Same
    <3> QED BY <1>2, <1>3, <2>3, <3>2, <3>3
  <2> QED BY <2>2, <2>3
<1>10. CASE n <= 2
  <2>1. Kept(line) = SubSeq(line, 1, 2 - n)
    BY <1>2, <1>10 DEF Kept, n
  <2>2. Meant(line).key \notin Keys
    <3>1. CASE Find(EQUALS, part) = 0
      BY <1>7, <1>8, <3>1
    <3>2. CASE Find(EQUALS, part) # 0
      <4>1. Find(EQUALS, part) \in 1..n
        BY <1>2, <1>3, <1>5, <3>2
      <4>2. /\ SubSeq(part, 1, Find(EQUALS, part) - 1) \in Seq(Nat)
            /\ Len(SubSeq(part, 1, Find(EQUALS, part) - 1)) < 2
        BY <1>2, <1>4, <1>10, <4>1, PartFacts
      <4>3. Trim(SubSeq(part, 1, Find(EQUALS, part) - 1)) \notin Keys
        BY <4>2, NotAKey
      <4> QED BY <1>8, <3>2, <4>3
    <3> QED BY <3>1, <3>2
  <2>3. AnalyseLine(line).key \notin Keys
    <3>1. CASE n = 0
      BY <1>7, <3>1 DEF AnalyseLine, n
    <3>2. CASE n # 0
      <4> DEFINE kept == Kept(line)
                 at == Find(EQUALS, kept)
      <4>1. 2 - n \in 0..Len(line) /\ 2 - n <= 1
        BY <1>1, <1>2, <1>10, <3>2
      <4>2. kept \in Seq(Nat) /\ Len(kept) <= 1 /\ Len(kept) \in Nat
        BY <1>1, <2>1, <4>1, PartFacts
      <4> HIDE DEF kept
      <4>3. at \in 0..Len(kept)
        BY <4>2, FindFacts
      <4>4. CASE at = 0
        BY <1>7, <4>4 DEF AnalyseLine, kept
      <4>5. CASE at # 0
        <5>1. at = 1
          BY <4>2, <4>3, <4>5
        <5>2. SubSeq(kept, 1, at - 1) \in Seq(Nat) /\ Len(SubSeq(kept, 1, at - 1)) < 2
          BY <4>2, <4>3, <5>1, PartFacts
        <5>3. Trim(SubSeq(kept, 1, at - 1)) \notin Keys
          BY <5>2, NotAKey
        <5> QED BY <1>7, <5>3 DEF AnalyseLine, kept
      <4> QED BY <4>4, <4>5
    <3> QED BY <3>1, <3>2
  <2> QED BY <2>2, <2>3 DEF Same
<1> QED BY <1>2, <1>9, <1>10

-----------------------------------------------------------------------------
(* The fields of a command: what CONF_prase_line's loop makes of them, and  *)
(* that it is what they mean.                                               *)

(* What the fields that end at the places T set: the last one that names a  *)
(* key gives its value.                                                     *)
Sets(str, i) == AnalyseLine(Field(str, i))
Naming(str, T, key) == {i \in T : Sets(str, i).key = key}
Table(str, T) ==
  [key \in {k \in Keys : Naming(str, T, k) # {}} |-> Sets(str, Max(Naming(str, T, key))).value]

LEMMA MaxIs ==
  ASSUME NEW n \in Nat, NEW T, T \subseteq 1..n, NEW x \in T, \A y \in T : y <= x
  PROVE  Max(T) = x
<1>1. Max(T) \in T /\ \A y \in T : y <= Max(T)
  BY MaxFacts
<1>2. x <= Max(T) /\ Max(T) <= x
  BY <1>1
<1>3. x \in 1..n /\ Max(T) \in 1..n
  BY <1>1
<1> QED BY <1>2, <1>3

(* One field more, the last.                                                *)
LEMMA TableStep ==
  ASSUME NEW str, NEW n \in Nat, NEW T, T \subseteq 1..n, T # {}
  PROVE  Table(str, T) = Put(Table(str, T \ {Max(T)}), Sets(str, Max(T)))
<1> DEFINE m == Max(T)
           U == T \ {m}
           old == Table(str, U)
           new == Put(old, Sets(str, m))
<1>1. m \in T /\ \A y \in T : y <= m
  BY MaxFacts
<1> HIDE DEF m
<1>2. ASSUME NEW k, k # Sets(str, m).key
      PROVE  Naming(str, T, k) = Naming(str, U, k)
  BY <1>2 DEF Naming
<1>3. Max(Naming(str, T, Sets(str, m).key)) = m /\ m \in Naming(str, T, Sets(str, m).key)
  <2>1. /\ Naming(str, T, Sets(str, m).key) \subseteq 1..n
        /\ m \in Naming(str, T, Sets(str, m).key)
        /\ \A y \in Naming(str, T, Sets(str, m).key) : y <= m
    BY <1>1 DEF Naming
  <2> QED BY <2>1, MaxIs
<1>4. DOMAIN Table(str, T) = {k \in Keys : Naming(str, T, k) # {}}
  BY DEF Table
<1>5. DOMAIN old = {k \in Keys : Naming(str, U, k) # {}}
  BY DEF Table
<1>6. CASE Sets(str, m).key \notin Keys
  <2>1. \A k \in Keys : Naming(str, T, k) = Naming(str, U, k)
    BY <1>2, <1>6
  <2>2. Table(str, T) = old
    BY <2>1 DEF Table
  <2> QED BY <1>6, <2>2 DEF Put, m
<1>7. CASE Sets(str, m).key \in Keys
  <2>1. new = [k \in DOMAIN old \cup {Sets(str, m).key} |->
                 IF k = Sets(str, m).key THEN Sets(str, m).value ELSE old[k]]
    BY <1>7 DEF Put
  <2>2. DOMAIN Table(str, T) = DOMAIN old \cup {Sets(str, m).key}
    BY <1>2, <1>3, <1>4, <1>5, <1>7
  <2>3. ASSUME NEW k \in DOMAIN Table(str, T)
        PROVE  Table(str, T)[k] =
                 IF k = Sets(str, m).key THEN Sets(str, m).value ELSE old[k]
    <3>1. Table(str, T)[k] = Sets(str, Max(Naming(str, T, k))).value
      BY DEF Table
    <3>2. CASE k = Sets(str, m).key
      BY <1>3, <3>1, <3>2
    <3>3. CASE k # Sets(str, m).key
      <4>1. k \in DOMAIN old /\ Naming(str, T, k) = Naming(str, U, k)
        BY <1>2, <2>2, <3>3
      <4>2. old[k] = Sets(str, Max(Naming(str, U, k))).value
        BY <4>1 DEF Table
      <4> QED BY <3>1, <3>3, <4>1, <4>2
    <3> QED BY <3>2, <3>3
  <2>4. Table(str, T) = [k \in DOMAIN Table(str, T) |-> Table(str, T)[k]]
    BY DEF Table
  <2>5. Table(str, T) = [k \in DOMAIN old \cup {Sets(str, m).key} |->
                 IF k = Sets(str, m).key THEN Sets(str, m).value ELSE old[k]]
    <3> HIDE DEF old
    <3> QED BY <2>2, <2>3, <2>4
  <2> QED BY <2>1, <2>5 DEF m
<1> QED BY <1>6, <1>7

(* A C string of bytes is a text of bytes.                                  *)
LEMMA CStringType ==
  ASSUME NEW body \in Seq(Nat)
  PROVE  CString(body) \in Seq(Nat)
<1>1. Find(NUL, body) \in 0..Len(body) /\ Len(body) \in Nat
  BY FindFacts, LenProperties
<1>2. CASE Find(NUL, body) = 0
  BY <1>2 DEF CString
<1>3. CASE Find(NUL, body) # 0
  <2>1. 1 \in 1..(Len(body) + 1) /\ Find(NUL, body) - 1 \in 0..Len(body)
    BY <1>1, <1>3
  <2> QED BY <1>3, <2>1, PartFacts DEF CString
<1> QED BY <1>2, <1>3

(* CONF_prase_line makes that table, whatever its text.                     *)
LEMMA ParseIsTable ==
  ASSUME NEW body \in Seq(Nat)
  PROVE  LET str == Append(CString(body), COMMA)
         IN CONF_prase_line(body) = Table(str, Ends(str))
<1> DEFINE data == CString(body)
           str == Append(data, COMMA)
           S == Ends(str)
           n == Len(str)
           Equation(g) == g = [s \in SUBSET S |->
             IF s = {} THEN NoSettings ELSE Put(g[s \ {Max(s)}], Sets(str, Max(s)))]
           iter == CHOOSE g : Equation(g)
           closed == [s \in SUBSET S |-> Table(str, s)]
<1>1. n \in Nat /\ S \subseteq 1..n /\ IsFiniteSet(S)
  <2>1. COMMA \in Nat
    BY DEF COMMA
  <2>2. str \in Seq(Nat) /\ n \in Nat
    <3>1. data \in Seq(Nat)
      BY CStringType
    <3> HIDE DEF data
    <3> QED BY <2>1, <3>1, AppendProperties, LenProperties
  <2>3. S \subseteq 1..n
    BY <2>2, LenProperties DEF Ends
  <2>4. IsFiniteSet(1..n)
    BY <2>2, FS_Interval
  <2> QED BY <2>2, <2>3, <2>4, FS_Subset
<1>2. CONF_prase_line(body) = iter[S]
  BY DEF CONF_prase_line, MapThenFoldSet, Sets
<1> HIDE DEF data, str, S, n
<1>3. ASSUME NEW s \in SUBSET S, s # {}
      PROVE  Table(str, s) = Put(Table(str, s \ {Max(s)}), Sets(str, Max(s)))
  BY <1>1, <1>3, TableStep
<1>4. Table(str, {}) = NoSettings
  BY DEF Table, Naming, NoSettings
<1>5. Equation(closed)
  <2>1. ASSUME NEW s \in SUBSET S
        PROVE  closed[s] = IF s = {} THEN NoSettings
                           ELSE Put(closed[s \ {Max(s)}], Sets(str, Max(s)))
    <3>1. s \ {Max(s)} \in SUBSET S
      OBVIOUS
    <3> QED BY <1>3, <1>4, <3>1
  <2>2. closed = [s \in SUBSET S |-> closed[s]]
    OBVIOUS
  <2> HIDE DEF closed
  <2> QED BY <2>1, <2>2
<1>6. Equation(iter)
  BY <1>5
<1> HIDE DEF iter
<1> DEFINE G == {s \in SUBSET S : iter[s] = Table(str, s)}
<1>7. {} \in G
  BY <1>4, <1>6
<1>8. ASSUME NEW s \in SUBSET S, s # {}, \A x \in s : s \ {x} \in G
      PROVE  s \in G
  <2>1. Max(s) \in s
    BY <1>1, <1>8, MaxFacts
  <2>2. iter[s \ {Max(s)}] = Table(str, s \ {Max(s)})
    BY <1>8, <2>1
  <2>3. iter[s] = Put(iter[s \ {Max(s)}], Sets(str, Max(s)))
    BY <1>6, <1>8
  <2> QED BY <1>3, <1>8, <2>2, <2>3
<1>9. S \in G
  <2> HIDE DEF G
  <2> QED BY <1>1, <1>7, <1>8, SubsetInduction
<1> QED BY <1>2, <1>9 DEF data, str, S

(* Where a field begins: at the start, or after a comma.                    *)
From(str, i) ==
  LET before == {j \in 1..(i - 1) : str[j] = COMMA}
  IN IF before = {} THEN 1 ELSE Max(before) + 1

LEMMA FieldFacts ==
  ASSUME NEW data \in Seq(Nat), NEW i \in Ends(Append(data, COMMA))
  PROVE  \E a \in 1..i :
         /\ a = From(Append(data, COMMA), i)
         /\ i \in 1..(Len(data) + 1)
         /\ a = 1 \/ data[a - 1] = COMMA
         /\ i = Len(data) + 1 \/ data[i] = COMMA
         /\ \A m \in a..(i - 1) : data[m] # COMMA
         /\ Field(Append(data, COMMA), i) = SubSeq(data, a, i - 1)
         /\ SubSeq(data, a, i - 1) \in Seq(Nat)
<1> DEFINE str == Append(data, COMMA)
           n == Len(data)
           before == {j \in 1..(i - 1) : str[j] = COMMA}
           a == From(str, i)
<1>1. /\ n \in Nat /\ str \in Seq(Nat) /\ Len(str) = n + 1 /\ str[n + 1] = COMMA
      /\ \A j \in 1..n : str[j] = data[j]
  <2>1. COMMA \in Nat
    BY DEF COMMA
  <2> QED BY <2>1, AppendFacts
<1>2. i \in 1..(n + 1) /\ str[i] = COMMA
  <2>1. DOMAIN str = 1..(n + 1)
    BY <1>1, LenProperties
  <2> QED BY <2>1 DEF Ends
<1>3. before \subseteq 1..(i - 1) /\ i - 1 \in Nat /\ i - 1 \in 0..n
  BY <1>1, <1>2
<1>4. \A j \in 1..(i - 1) : j \in before <=> data[j] = COMMA
  BY <1>1, <1>2
<1>5. Field(str, i) = SubSeq(str, a, i - 1)
  BY DEF Field, From
<1>6. a = IF before = {} THEN 1 ELSE Max(before) + 1
  BY DEF From
<1> HIDE DEF str, before, a, n
<1>7. /\ a \in 1..i /\ (a = 1 \/ data[a - 1] = COMMA)
      /\ \A m \in a..(i - 1) : data[m] # COMMA
  <2>1. CASE before = {}
    BY <1>1, <1>2, <1>3, <1>4, <1>6, <2>1
  <2>2. CASE before # {}
    <3>1. Max(before) \in before /\ \A y \in before : y <= Max(before)
      BY <1>3, <2>2, MaxFacts
    <3> DEFINE x == Max(before)
    <3>4. x \in 1..(i - 1) /\ a = x + 1
      BY <1>3, <1>6, <2>2, <3>1
    <3> HIDE DEF x
    <3>5. a - 1 = x /\ a \in 1..i
      BY <1>1, <1>2, <3>4
    <3>2. Max(before) \in 1..(i - 1) /\ a = Max(before) + 1 /\ a - 1 = Max(before) /\ a \in 1..i
      BY <3>4, <3>5 DEF x
    <3>3. ASSUME NEW m \in a..(i - 1) PROVE data[m] # COMMA
      <4>1. m \in 1..(i - 1) /\ ~(m <= Max(before))
        BY <1>2, <1>3, <3>2
      <4> QED BY <1>4, <3>1, <4>1
    <3> QED BY <1>2, <1>3, <1>4, <3>1, <3>2, <3>3
  <2> QED BY <2>1, <2>2
<1>8. SubSeq(str, a, i - 1) = SubSeq(data, a, i - 1) /\ SubSeq(data, a, i - 1) \in Seq(Nat)
  <2>1. a \in 1..(Len(data) + 1) /\ i - 1 \in 0..Len(data)
    BY <1>1, <1>2, <1>7 DEF n
  <2>2. /\ SubSeq(data, a, i - 1) \in Seq(Nat)
        /\ Len(SubSeq(data, a, i - 1)) = IF a <= i - 1 THEN (i - 1) - a + 1 ELSE 0
        /\ \A k \in 1..((i - 1) - a + 1) : SubSeq(data, a, i - 1)[k] = data[a + k - 1]
    BY <2>1, PartFacts
  <2>3. a \in 1..(Len(str) + 1) /\ i - 1 \in 0..Len(str)
    BY <1>1, <1>2, <1>7
  <2>4. /\ SubSeq(str, a, i - 1) \in Seq(Nat)
        /\ Len(SubSeq(str, a, i - 1)) = IF a <= i - 1 THEN (i - 1) - a + 1 ELSE 0
        /\ \A k \in 1..((i - 1) - a + 1) : SubSeq(str, a, i - 1)[k] = str[a + k - 1]
    BY <1>1, <2>3, PartFacts
  <2>5. ASSUME NEW k \in 1..Len(SubSeq(str, a, i - 1))
        PROVE  SubSeq(str, a, i - 1)[k] = SubSeq(data, a, i - 1)[k]
    <3>1. k \in 1..((i - 1) - a + 1) /\ a + k - 1 \in 1..n
      BY <1>1, <1>2, <1>7, <2>4
    <3> QED BY <1>1, <2>2, <2>4, <3>1
  <2> QED BY <2>2, <2>4, <2>5, SeqEqual
<1>9. i \in 1..(Len(data) + 1) /\ (i = Len(data) + 1 \/ data[i] = COMMA)
  <2>1. i = n + 1 \/ data[i] = COMMA
    BY <1>1, <1>2
  <2> QED BY <1>2, <2>1 DEF n
<1>10. Field(str, i) = SubSeq(data, a, i - 1)
  BY <1>5, <1>8
<1> QED BY <1>7, <1>8, <1>9, <1>10 DEF str, a

(* Fields begin in the order they end.                                      *)
LEMMA FieldOrder ==
  ASSUME NEW data \in Seq(Nat), NEW i \in Ends(Append(data, COMMA)),
         NEW j \in Ends(Append(data, COMMA)), i < j
  PROVE  From(Append(data, COMMA), i) < From(Append(data, COMMA), j)
<1>1. PICK a \in 1..i :
        /\ a = From(Append(data, COMMA), i) /\ i \in 1..(Len(data) + 1)
        /\ i = Len(data) + 1 \/ data[i] = COMMA
  BY FieldFacts
<1>2. PICK b \in 1..j :
        /\ b = From(Append(data, COMMA), j) /\ j \in 1..(Len(data) + 1)
        /\ \A m \in b..(j - 1) : data[m] # COMMA
  BY FieldFacts
<1>3. Len(data) \in Nat
  BY LenProperties
<1>4. i <= j - 1 /\ data[i] = COMMA
  BY <1>1, <1>2, <1>3
<1>5. ~(b <= i)
  BY <1>1, <1>2, <1>4
<1>6. a < b
  BY <1>1, <1>2, <1>5
<1> QED BY <1>1, <1>2, <1>6

(* Every nonempty field that FieldsOf describes ends at a comma.            *)
LEMMA DescribedField ==
  ASSUME NEW data \in Seq(Nat), NEW f \in FieldsOf(data), f[1] <= f[2]
  PROVE  /\ f[2] + 1 \in Ends(Append(data, COMMA))
         /\ From(Append(data, COMMA), f[2] + 1) = f[1]
<1> DEFINE str == Append(data, COMMA)
           n == Len(data)
           i == f[2] + 1
<1>1. /\ n \in Nat /\ str \in Seq(Nat) /\ Len(str) = n + 1 /\ str[n + 1] = COMMA
      /\ \A j \in 1..n : str[j] = data[j]
  <2>1. COMMA \in Nat
    BY DEF COMMA
  <2> QED BY <2>1, AppendFacts
<1>2. /\ f[1] \in 1..n /\ f[2] \in 0..n
      /\ f[1] = 1 \/ data[f[1] - 1] = COMMA
      /\ f[2] = n \/ data[f[2] + 1] = COMMA
      /\ \A m \in f[1]..f[2] : data[m] # COMMA
  BY DEF FieldsOf
<1>3. i \in Ends(str)
  <2>1. DOMAIN str = 1..(n + 1)
    BY <1>1, LenProperties
  <2>2. i \in 1..(n + 1) /\ (f[2] = n \/ i \in 1..n)
    <3>1. n \in Nat /\ f[2] \in 0..n
      BY <1>1, <1>2
    <3> HIDE DEF n
    <3> QED BY <3>1
  <2> QED BY <1>1, <1>2, <2>1, <2>2 DEF Ends
<1> DEFINE a == From(str, i)
<1>4. /\ a \in 1..i /\ (a = 1 \/ data[a - 1] = COMMA)
      /\ \A m \in a..(i - 1) : data[m] # COMMA
  <2> HIDE DEF i
  <2>1. PICK b \in 1..i :
          /\ b = a
          /\ b = 1 \/ data[b - 1] = COMMA
          /\ \A m \in b..(i - 1) : data[m] # COMMA
    BY <1>3, FieldFacts
  <2> QED BY <2>1
<1> HIDE DEF a, str, n
<1>5. f[1] \in Nat /\ f[2] \in Nat /\ a \in Nat /\ i - 1 = f[2]
  BY <1>1, <1>2, <1>4
<1>6. ~(a < f[1])
  <2> SUFFICES ASSUME a < f[1] PROVE FALSE
    OBVIOUS
  <2>1. f[1] - 1 \in a..(i - 1) /\ f[1] # 1
    BY <1>4, <1>5
  <2> QED BY <1>2, <1>4, <2>1
<1>7. ~(f[1] < a)
  <2> SUFFICES ASSUME f[1] < a PROVE FALSE
    OBVIOUS
  <2>1. CASE a = i
    <3>1. a # 1 /\ data[a - 1] = COMMA /\ a - 1 = f[2]
      BY <1>2, <1>4, <1>5, <2>1
    <3>2. f[2] \in f[1]..f[2]
      BY <1>5
    <3> QED BY <1>2, <3>1, <3>2
  <2>2. CASE a # i
    <3>1. a - 1 \in f[1]..f[2] /\ a # 1
      BY <1>2, <1>4, <1>5, <2>2
    <3> QED BY <1>2, <1>4, <3>1
  <2> QED BY <2>1, <2>2
<1> QED BY <1>3, <1>5, <1>6, <1>7 DEF a, str

LEMMA EmptyNamesNothing ==
  ASSUME NEW t \in Seq(Nat), Len(t) = 0
  PROVE  Meant(t).key \notin Keys
<1>1. NoSetting.key \notin Keys
  BY KeysAssumption, EmptySeq DEF NoSetting
<1>2. Find(HASH, t) = 0
  <2>1. Find(HASH, t) \in 0..Len(t)
    BY FindFacts
  <2>2. Find(HASH, t) \in 0..0
    BY <2>1
  <2> QED BY <2>2
<1>3. SubSeq(t, 1, 0) \in Seq(Nat) /\ Len(SubSeq(t, 1, 0)) = 0
  BY PartFacts
<1>4. Find(EQUALS, SubSeq(t, 1, 0)) = 0
  <2> DEFINE u == SubSeq(t, 1, 0)
  <2> HIDE DEF u
  <2>1. u \in Seq(Nat) /\ Len(u) = 0
    BY <1>3 DEF u
  <2>2. Find(EQUALS, u) \in 0..Len(u)
    BY <2>1, FindFacts
  <2>3. Find(EQUALS, u) \in 0..0
    BY <2>1, <2>2
  <2> QED BY <2>3 DEF u
<1>5. Meant(t) = NoSetting
  BY <1>2, <1>4 DEF Meant, End
<1> QED BY <1>1, <1>5

(* A field sets what it means, and one that names a key is a field that     *)
(* FieldsOf describes.                                                      *)
LEMMA FieldSets ==
  ASSUME NEW data \in Seq(Nat), NEW i \in Ends(Append(data, COMMA)), NEW key \in Keys
  PROVE  \E a \in 1..i :
           LET s == Sets(Append(data, COMMA), i)
               r == Meant(SubSeq(data, a, i - 1))
           IN /\ a = From(Append(data, COMMA), i)
              /\ s.key = key <=> r.key = key
              /\ s.key = key => s.value = r.value /\ <<a, i - 1>> \in FieldsOf(data)
<1>1. PICK a \in 1..i :
        /\ a = From(Append(data, COMMA), i) /\ i \in 1..(Len(data) + 1)
        /\ a = 1 \/ data[a - 1] = COMMA
        /\ i = Len(data) + 1 \/ data[i] = COMMA
        /\ \A m \in a..(i - 1) : data[m] # COMMA
        /\ Field(Append(data, COMMA), i) = SubSeq(data, a, i - 1)
        /\ SubSeq(data, a, i - 1) \in Seq(Nat)
  BY FieldFacts
<1>2. Len(data) \in Nat
  BY LenProperties
<1> DEFINE s == Sets(Append(data, COMMA), i)
           t == SubSeq(data, a, i - 1)
           r == Meant(t)
<1>3. Same(s, r)
  BY <1>1, LineAsMeant DEF Sets
<1>4. a \in 1..(Len(data) + 1) /\ i - 1 \in 0..Len(data)
  BY <1>1, <1>2
<1>5. Len(t) = IF a <= i - 1 THEN (i - 1) - a + 1 ELSE 0
  BY <1>4, PartFacts
<1>6. ASSUME s.key = key PROVE s = r /\ <<a, i - 1>> \in FieldsOf(data)
  <2>1. s = r
    BY <1>3, <1>6 DEF Same
  <2>2. Len(t) # 0
    BY <1>1, <1>6, <2>1, EmptyNamesNothing
  <2>3. a <= i - 1
    BY <1>5, <2>2
  <2>4. a \in 1..Len(data) /\ i - 1 \in 0..Len(data)
    BY <1>2, <1>4, <2>3
  <2>5. i - 1 = Len(data) \/ data[(i - 1) + 1] = COMMA
    BY <1>1, <1>2
  <2>6. <<a, i - 1>> \in FieldsOf(data)
    BY <1>1, <2>4, <2>5 DEF FieldsOf
  <2> QED BY <2>1, <2>6
<1>7. ASSUME r.key = key PROVE s = r
  BY <1>3, <1>7 DEF Same
<1> QED BY <1>1, <1>6, <1>7

(* The fields that name a key, as FieldsOf describes them.                  *)
Describing(data, key) ==
  {f \in FieldsOf(data) : Meant(SubSeq(data, f[1], f[2])).key = key}

LEMMA NamingDescribes ==
  ASSUME NEW data \in Seq(Nat), NEW key \in Keys,
         NEW i \in Naming(Append(data, COMMA), Ends(Append(data, COMMA)), key)
  PROVE  \E a \in 1..i :
           /\ a = From(Append(data, COMMA), i)
           /\ <<a, i - 1>> \in Describing(data, key)
           /\ Sets(Append(data, COMMA), i).value = Meant(SubSeq(data, a, i - 1)).value
<1>1. i \in Ends(Append(data, COMMA)) /\ Sets(Append(data, COMMA), i).key = key
  BY DEF Naming
<1>2. PICK a \in 1..i :
        /\ a = From(Append(data, COMMA), i)
        /\ Meant(SubSeq(data, a, i - 1)).key = key
        /\ Sets(Append(data, COMMA), i).value = Meant(SubSeq(data, a, i - 1)).value
        /\ <<a, i - 1>> \in FieldsOf(data)
  BY <1>1, FieldSets
<1> QED BY <1>2 DEF Describing

LEMMA DescribingNames ==
  ASSUME NEW data \in Seq(Nat), NEW key \in Keys, NEW f \in Describing(data, key)
  PROVE  /\ f[1] \in Nat /\ f[2] \in Nat
         /\ f[2] + 1 \in Naming(Append(data, COMMA), Ends(Append(data, COMMA)), key)
         /\ From(Append(data, COMMA), f[2] + 1) = f[1]
<1>1. f \in FieldsOf(data) /\ Meant(SubSeq(data, f[1], f[2])).key = key
  BY DEF Describing
<1>2. f[1] \in 1..Len(data) /\ f[2] \in 0..Len(data) /\ Len(data) \in Nat
  BY <1>1, LenProperties DEF FieldsOf
<1>3. f[1] <= f[2]
  <2>1. f[1] \in 1..(Len(data) + 1)
    BY <1>2
  <2>2. /\ SubSeq(data, f[1], f[2]) \in Seq(Nat)
        /\ Len(SubSeq(data, f[1], f[2])) = IF f[1] <= f[2] THEN f[2] - f[1] + 1 ELSE 0
    BY <1>2, <2>1, PartFacts
  <2> QED BY <1>1, <2>2, EmptyNamesNothing
<1>4. /\ f[2] + 1 \in Ends(Append(data, COMMA))
      /\ From(Append(data, COMMA), f[2] + 1) = f[1]
  BY <1>1, <1>3, DescribedField
<1>5. (f[2] + 1) - 1 = f[2]
  BY <1>2
<1>6. Sets(Append(data, COMMA), f[2] + 1).key = key
  <2> DEFINE i == f[2] + 1
  <2> HIDE DEF i
  <2>1. i \in Ends(Append(data, COMMA)) /\ From(Append(data, COMMA), i) = f[1] /\ i - 1 = f[2]
    BY <1>4, <1>5 DEF i
  <2>2. PICK a \in 1..i :
          /\ a = From(Append(data, COMMA), i)
          /\ Sets(Append(data, COMMA), i).key = key <=> Meant(SubSeq(data, a, i - 1)).key = key
    BY <2>1, FieldSets
  <2> QED BY <1>1, <2>1, <2>2 DEF i
<1> QED BY <1>2, <1>4, <1>6 DEF Naming

(* CONF_prase_line, config.cpp 174-196: whatever bytes a command holds, its *)
(* table gives a key the value of the last field that names it, before the  *)
(* first NUL.                                                               *)
THEOREM ParsedAsMeant ==
  ASSUME NEW r, r.body \in Seq(Nat), NEW key \in Keys
  PROVE  /\ CONF_get_string(CONF_prase_line(r.body), key) = Says(r, key)
         /\ key \in DOMAIN CONF_prase_line(r.body) \/ Says(r, key) = << >>
<1> DEFINE data == CString(r.body)
           str == Append(data, COMMA)
           N == Naming(str, Ends(str), key)
           D == Describing(data, key)
           last == CHOOSE f \in D : \A g \in D : f[1] >= g[1]
           table == CONF_prase_line(r.body)
<1>1. data \in Seq(Nat)
  BY CStringType
<1>2. table = Table(str, Ends(str))
  BY ParseIsTable
<1>3. Says(r, key) = IF D = {} THEN << >> ELSE Meant(SubSeq(data, last[1], last[2])).value
  BY DEF Says, Describing
<1>4. DOMAIN table = {k \in Keys : Naming(str, Ends(str), k) # {}}
  BY <1>2 DEF Table
<1>5. key \in DOMAIN table <=> N # {}
  BY <1>4
<1>6. N # {} => table[key] = Sets(str, Max(N)).value
  BY <1>2, <1>4 DEF Table
<1> HIDE DEF table, data
<1>7. CASE N = {}
  <2>1. D = {}
    BY <1>1, <1>7, DescribingNames
  <2> QED BY <1>3, <1>5, <1>7, <2>1 DEF CONF_get_string, table
<1>8. CASE N # {}
  <2> DEFINE m == Max(N)
  <2>1. m \in N /\ \A y \in N : y <= m
    <3>1. COMMA \in Nat
      BY DEF COMMA
    <3>2. str \in Seq(Nat) /\ Len(str) \in Nat
      BY <1>1, <3>1, AppendProperties, LenProperties
    <3>3. N \subseteq 1..Len(str)
      BY <3>2, LenProperties DEF Naming, Ends
    <3> HIDE DEF N
    <3> QED BY <1>8, <3>2, <3>3, MaxFacts
  <2>2. \A i \in N : i \in Ends(str)
    BY DEF Naming
  <2> HIDE DEF m, N
  <2>3. PICK a \in 1..m :
          /\ a = From(str, m) /\ <<a, m - 1>> \in D
          /\ Sets(str, m).value = Meant(SubSeq(data, a, m - 1)).value
    BY <1>1, <2>1, NamingDescribes DEF N
  <2>4. \A f \in D : f[1] \in Nat /\ f[2] \in Nat /\ f[2] + 1 \in N /\ From(str, f[2] + 1) = f[1]
    BY <1>1, DescribingNames DEF N
  <2>5. m \in Nat
    <3>1. m \in 1..(Len(data) + 1) /\ Len(data) \in Nat
      BY <1>1, <2>1, <2>2, FieldFacts, LenProperties
    <3> QED BY <3>1
  <2> HIDE DEF D, str
  <2>6. ASSUME NEW g \in D PROVE a >= g[1]
    <3>1. g[2] + 1 <= m /\ g[1] \in Nat /\ g[2] \in Nat
      BY <2>1, <2>4
    <3>2. CASE g[2] + 1 = m
      BY <2>3, <2>4, <2>5, <3>1, <3>2
    <3>3. CASE g[2] + 1 < m
      <4>1. From(str, g[2] + 1) < From(str, m)
        BY <1>1, <2>1, <2>2, <2>4, <3>3, FieldOrder DEF str
      <4> QED BY <2>3, <2>4, <2>5, <3>1, <4>1
    <3> QED BY <2>5, <3>1, <3>2, <3>3
  <2>7. last \in D /\ \A g \in D : last[1] >= g[1]
    <3>1. \E f \in D : \A g \in D : f[1] >= g[1]
      <4>1. <<a, m - 1>>[1] = a
        OBVIOUS
      <4> QED BY <2>3, <2>6, <4>1
    <3> QED BY <3>1
  <2> HIDE DEF last
  <2>8. last[1] = a /\ last[2] = m - 1
    <3>1. last[1] >= a /\ a >= last[1] /\ last[1] \in Nat /\ last[2] \in Nat
      <4>1. last[1] >= <<a, m - 1>>[1]
        BY <2>3, <2>7
      <4> QED BY <2>4, <2>6, <2>7, <4>1
    <3>2. last[1] = a
      BY <2>3, <2>5, <3>1
    <3>3. last[2] + 1 <= m
      BY <2>1, <2>4, <2>7
    <3>4. ~(last[2] + 1 < m)
      <4> SUFFICES ASSUME last[2] + 1 < m PROVE FALSE
        OBVIOUS
      <4>1. From(str, last[2] + 1) < From(str, m)
        BY <1>1, <2>1, <2>2, <2>4, <2>7, FieldOrder DEF str
      <4>2. last[1] < a
        BY <2>3, <2>4, <2>7, <4>1
      <4> QED BY <2>5, <3>1, <3>2, <4>2
    <3> QED BY <2>5, <3>1, <3>2, <3>3, <3>4
  <2>9. D # {}
    BY <2>3
  <2>10. table[key] = Meant(SubSeq(data, last[1], last[2])).value
    BY <1>6, <1>8, <2>3, <2>8 DEF m
  <2> QED BY <1>3, <1>5, <1>8, <2>9, <2>10 DEF CONF_get_string, table
<1> QED BY <1>7, <1>8

-----------------------------------------------------------------------------
(* ControlChannel                                                           *)

Opened == {c \in Conns : conn[c] # "none"}
Sockets == {n \in DOMAIN applist : applist[n].sock}
Files == {n \in DOMAIN applist : applist[n].open}

(* What each stage of the program has, and that Sudps are left only when    *)
(* the configuration is a server's.                                         *)
Placed ==
  /\ service = "up" => text = << >> /\ server_mode \in {"CLIENT_MODE", "SERVER_MODE"}
  /\ service # "up" => leaked = 0 /\ \A c \in Conns : conn[c] = "none"
  /\ service = "up" /\ server_mode = "CLIENT_MODE" => Mode = CLIENT
  /\ service = "up" /\ server_mode = "SERVER_MODE" =>
       Mode = SERVER /\ leaked = 0 /\ \A n \in DOMAIN applist : ~applist[n].sock /\ ~applist[n].open
  /\ DOMAIN sudps # {} => text = << >> /\ Mode = SERVER
  /\ \A p \in DOMAIN sudps : sudps[p] = [name |-> sudps[p].name, kind |-> sudps[p].kind]

Counted ==
  /\ IsFiniteSet(Opened) /\ IsFiniteSet(DOMAIN applist)
  /\ fds = Cardinality(Opened) + Cardinality(Sockets) + Cardinality(Files) + leaked

Inv == TypeOK /\ Placed /\ Counted /\ NoOrphans

(* The parts of TypeOK about the applications and about the processes.      *)
Fits(a) == a \in Applications /\ (a.files > 0 => a.files <= a.max_count)
Started(p) == p \in 1..MaxPid /\ sudps[p].kind \in {"child", "killed", "orphan"}
AppsFit == \A n \in DOMAIN applist : Fits(applist[n])
AllStarted == \A p \in DOMAIN sudps : Started(p)

LEMMA FitsFacts == TypeOK => AppsFit /\ AllStarted
BY DEF TypeOK, AppsFit, AllStarted, Fits, Started

(* TypeOK after a step of a running service that leaves its settings.       *)
LEMMA TypeOfUpStep ==
  ASSUME TypeOK, service = "up", service' = "up", UNCHANGED progVars,
         conn' \in [Conns -> {"none", "open", "used", "closed"}],
         errno' \in {"0", "ERANGE"}, wire' \in [Conns -> Seq(0..255)],
         asked' \in [Conns -> Seq(Commands)], AppsFit', AllStarted',
         fds' \in 0..MaxFd, leaked' \in 0..MaxFd
  PROVE  TypeOK'
<1>1. /\ text' = text /\ g_conf' = g_conf /\ server_mode' = server_mode
      /\ ClientSpeed' = ClientSpeed
  BY DEF progVars
<1>2. /\ service' \in {"load", "up", "ended"}
      /\ text' \in Seq(Seq(Nat)) /\ DOMAIN g_conf' \subseteq Keys
      /\ server_mode' \in {"none", "CLIENT_MODE", "SERVER_MODE"}
      /\ ClientSpeed' \in 1..1999
  BY <1>1 DEF TypeOK
<1>3. \A n \in DOMAIN applist' :
        /\ applist'[n] \in Applications
        /\ applist'[n].files > 0 => applist'[n].files <= applist'[n].max_count
  BY DEF AppsFit, Fits
<1>4. \A p \in DOMAIN sudps' :
        p \in 1..MaxPid /\ sudps'[p].kind \in {"child", "killed", "orphan"}
  BY DEF AllStarted, Started
<1>5. service' # "up" => fds' = 0 /\ DOMAIN applist' = {} /\ wire' = None
  OBVIOUS
<1> QED BY <1>2, <1>3, <1>4, <1>5 DEF TypeOK

LEMMA TypeOfStep ==
  ASSUME TypeOK, service = "up", service' = "up", UNCHANGED <<progVars, conn>>,
         errno' \in {"0", "ERANGE"}, wire' \in [Conns -> Seq(0..255)],
         asked' \in [Conns -> Seq(Commands)], AppsFit', AllStarted',
         fds' \in 0..MaxFd, leaked' \in 0..MaxFd
  PROVE  TypeOK'
<1>1. conn' \in [Conns -> {"none", "open", "used", "closed"}]
  BY DEF TypeOK
<1> QED BY <1>1, TypeOfUpStep

USE ControlAssumption

LEMMA CountedFacts ==
  ASSUME Counted
  PROVE  /\ IsFiniteSet(Sockets) /\ IsFiniteSet(Files)
         /\ Cardinality(Opened) \in Nat
         /\ Cardinality(Sockets) \in Nat /\ Cardinality(Files) \in Nat
<1>1. IsFiniteSet(Sockets) /\ IsFiniteSet(Files)
  BY FS_Subset DEF Counted, Sockets, Files
<1> QED BY <1>1, FS_CardinalityType DEF Counted

LEMMA InitInv == Init => Inv
<1> SUFFICES ASSUME Init PROVE Inv
  OBVIOUS
<1>1. DOMAIN applist = {} /\ DOMAIN sudps = {} /\ DOMAIN g_conf = {}
  BY DEF Init, NoApps, NoSettings
<1>2. << >> \in Seq(0..255) /\ << >> \in Seq(Commands)
  BY EmptySeq
<1>3. TypeOK
  BY <1>1, <1>2 DEF Init, TypeOK, None
<1>4. Placed /\ NoOrphans
  BY <1>1 DEF Init, Placed, NoOrphans
<1>5. Opened = {} /\ Sockets = {} /\ Files = {}
  BY <1>1 DEF Init, Opened, Sockets, Files
<1>6. Counted
  BY <1>1, <1>5, FS_EmptySet DEF Counted, Init
<1> QED BY <1>3, <1>4, <1>6 DEF Inv

(* The program ends.                                                        *)
LEMMA ExitKeeps ==
  ASSUME Inv, NEW why, Exit(why), service \in {"load", "up"}
  PROVE  Inv'
<1>1. DOMAIN applist' = {} /\ DOMAIN sudps' = DOMAIN sudps
  BY DEF Exit, NoApps
<1>2. << >> \in Seq(0..255) /\ << >> \in Seq(Commands)
  BY EmptySeq
<1>3. TypeOK'
  <2>1. wire' \in [Conns -> Seq(0..255)] /\ asked' \in [Conns -> Seq(Commands)]
    BY <1>2 DEF Exit, None
  <2>2. conn' \in [Conns -> {"none", "open", "used", "closed"}]
    BY DEF Exit
  <2>3. \A p \in DOMAIN sudps' :
          p \in 1..MaxPid /\ sudps'[p].kind \in {"child", "killed", "orphan"}
    <3>1. ASSUME NEW p \in DOMAIN sudps PROVE sudps'[p].kind \in {"child", "killed", "orphan"}
      <4>1. sudps'[p] = [sudps[p] EXCEPT !.kind = "orphan"]
        BY DEF Exit
      <4>2. sudps[p].kind \in {"child", "killed", "orphan"}
        BY DEF Inv, TypeOK
      <4> QED BY <4>1, <4>2
    <3> QED BY <1>1, <3>1 DEF Inv, TypeOK
  <2>4. /\ text' \in Seq(Seq(Nat)) /\ DOMAIN g_conf' \subseteq Keys
        /\ server_mode' \in {"none", "CLIENT_MODE", "SERVER_MODE"}
        /\ ClientSpeed' \in 1..1999 /\ errno' \in {"0", "ERANGE"}
    BY DEF Inv, TypeOK, Exit, progVars
  <2>5. fds' \in 0..MaxFd /\ leaked' \in 0..MaxFd /\ service' = "ended"
        /\ fds' = 0 /\ wire' = None
    BY DEF Exit
  <2> QED BY <1>1, <2>1, <2>2, <2>3, <2>4, <2>5 DEF TypeOK, None
<1>4. Mode' = Mode
  BY DEF Exit, progVars, Mode
<1>5. Placed' /\ NoOrphans'
  BY <1>1, <1>4 DEF Inv, Placed, NoOrphans, Exit, progVars
<1>6. Opened' = {} /\ Sockets' = {} /\ Files' = {}
  BY <1>1 DEF Exit, Opened, Sockets, Files
<1>7. Counted'
  BY <1>1, <1>6, FS_EmptySet DEF Counted, Exit
<1> QED BY <1>3, <1>5, <1>7 DEF Inv

LEMMA PairInSeq ==
  ASSUME NEW S, NEW a \in S, NEW b \in S
  PROVE  <<a, b>> \in Seq(S)
OBVIOUS

(* A table keeps to the keys the program knows.                             *)
LEMMA PutDomain ==
  ASSUME NEW table, NEW s, DOMAIN table \subseteq Keys
  PROVE  DOMAIN Put(table, s) \subseteq Keys
BY DEF Put

(* The stages before and after the program serves.                          *)
LEMMA StartKeeps ==
  ASSUME Inv, Start
  PROVE  Inv'
<1>1. CASE LoadLine
  <2>1. Opened' = Opened /\ Sockets' = Sockets /\ Files' = Files
    BY <1>1 DEF LoadLine, Opened, Sockets, Files, connVars, appVars
  <2>2. Counted'
    BY <1>1, <2>1 DEF Inv, Counted, LoadLine, appVars, historyVars
  <2>3. text' \in Seq(Seq(Nat))
    BY <1>1, HeadTailProperties DEF Inv, TypeOK, LoadLine
  <2>4. DOMAIN g_conf' \subseteq Keys
    <3>1. g_conf' = Put(g_conf, AnalyseLine(Head(text))) /\ DOMAIN g_conf \subseteq Keys
      BY <1>1 DEF Inv, TypeOK, LoadLine
    <3> QED BY <3>1, PutDomain
  <2>5. TypeOK'
    BY <1>1, <2>3, <2>4 DEF Inv, TypeOK, LoadLine, connVars, appVars, historyVars
  <2>6. Placed' /\ NoOrphans'
    BY <1>1 DEF Inv, Placed, NoOrphans, LoadLine, connVars, appVars, historyVars
  <2> QED BY <2>2, <2>5, <2>6 DEF Inv
<1>2. CASE MainServer \/ MainClient
  <2>1. PICK m \in {"CLIENT_MODE", "SERVER_MODE"} : Starts(m) /\ server_mode' = m
    BY <1>2 DEF MainServer, MainClient, Starts
  <2>2. Opened' = Opened /\ Sockets' = Sockets /\ Files' = Files
    BY <2>1 DEF Starts, Opened, Sockets, Files, connVars, appVars
  <2>3. Counted'
    BY <2>1, <2>2 DEF Inv, Counted, Starts, appVars, historyVars
  <2>4. ClientSpeed' \in 1..1999
    <3>1. ClientSpeed \in 1..1999
      BY DEF Inv, TypeOK
    <3>2. CASE MainServer
      BY <3>1, <3>2 DEF MainServer
    <3>3. CASE MainClient
      <4>1. ClientSpeed' = IF Speed \in 1..1999 THEN Speed ELSE ClientSpeed
        BY <3>3 DEF MainClient
      <4>2. CASE Speed \in 1..1999
        BY <4>1, <4>2
      <4>3. CASE Speed \notin 1..1999
        BY <3>1, <4>1, <4>3
      <4> QED BY <4>2, <4>3
    <3> QED BY <1>2, <3>2, <3>3
  <2>5. errno' \in {"0", "ERANGE"}
    BY <1>2 DEF Inv, TypeOK, MainServer, MainClient, Errno, PortErrno
  <2>6. TypeOK'
    BY <2>1, <2>4, <2>5 DEF Inv, TypeOK, Starts, connVars, appVars, historyVars
  <2>7. Mode' = Mode /\ DOMAIN applist' = {}
    BY <2>1 DEF Starts, Mode, Inv, TypeOK, appVars
  <2>8. DOMAIN sudps' = {}
    <3>1. CASE MainServer
      BY <2>1, <3>1 DEF MainServer, PortIsFree, Starts, appVars
    <3>2. CASE MainClient
      <4>1. DOMAIN sudps = {}
        BY <3>2 DEF MainClient, Inv, Placed
      <4> QED BY <2>1, <4>1 DEF Starts, appVars
    <3> QED BY <1>2, <3>1, <3>2
  <2>9. m = "CLIENT_MODE" => Mode = CLIENT
    BY <1>2, <2>1 DEF MainServer, MainClient, Starts
  <2>10. m = "SERVER_MODE" => Mode = SERVER
    BY <1>2, <2>1 DEF MainServer, MainClient, Starts
  <2>11. leaked' = 0
    BY <2>1 DEF Inv, Placed, Starts, historyVars
  <2>12. Placed' /\ NoOrphans'
    BY <2>1, <2>7, <2>8, <2>9, <2>10, <2>11 DEF Placed, NoOrphans, Starts
  <2> QED BY <2>3, <2>6, <2>12 DEF Inv
<1>3. CASE MainExits
  BY <1>3, ExitKeeps DEF MainExits
<1>4. CASE Restart
  <2>1. Opened' = Opened /\ Sockets' = Sockets /\ Files' = Files /\ Mode' = Mode
    BY <1>4 DEF Restart, Opened, Sockets, Files, Mode, connVars, appVars
  <2>2. Counted'
    BY <1>4, <2>1 DEF Inv, Counted, Restart, appVars
  <2>3. TypeOK'
    BY <1>4 DEF Inv, TypeOK, Restart, connVars, appVars
  <2>4. Placed' /\ NoOrphans'
    BY <1>4, <2>1 DEF Inv, Placed, NoOrphans, Restart, connVars, appVars
  <2> QED BY <2>2, <2>3, <2>4 DEF Inv
<1> QED BY <1>1, <1>2, <1>3, <1>4 DEF Start

(* Connections come and go.                                                 *)
LEMMA PeerKeeps ==
  ASSUME Inv, NEW c \in Conns, Peer(c)
  PROVE  Inv'
<1>1. CASE Accept(c)
  <2>1. conn' = [conn EXCEPT ![c] = "open"] /\ conn[c] = "none" /\ service = "up"
    BY <1>1 DEF Accept
  <2>2. Opened' = Opened \cup {c} /\ c \notin Opened
    BY <2>1 DEF Opened, Inv, TypeOK
  <2>3. /\ Sockets' = Sockets /\ Files' = Files
        /\ DOMAIN applist' = DOMAIN applist /\ leaked' = leaked
    BY <1>1 DEF Accept, Sockets, Files, appVars
  <2>4. /\ IsFiniteSet(Opened')
        /\ Cardinality(Opened') = Cardinality(Opened) + 1
    BY <2>2, FS_AddElement DEF Inv, Counted
  <2>5. Counted'
    BY <1>1, <2>3, <2>4, CountedFacts DEF Inv, Counted, Accept, TypeOK
  <2>6. TypeOK'
    <3>1. UNCHANGED <<service, text, g_conf, server_mode, ClientSpeed, wire, asked,
                      applist, sudps, leaked>>
      BY <1>1 DEF Accept, appVars, progVars
    <3>2. errno' = "0" /\ fds' \in 0..MaxFd
      BY <1>1, ControlAssumption DEF Inv, TypeOK, Accept, AfterAccepts
    <3>3. conn' \in [Conns -> {"none", "open", "used", "closed"}]
      BY <2>1 DEF Inv, TypeOK
    <3> QED BY <2>1, <3>1, <3>2, <3>3 DEF Inv, TypeOK
  <2>7. Mode' = Mode
    BY <1>1 DEF Accept, progVars, Mode
  <2>8. Placed' /\ NoOrphans'
    BY <1>1, <2>7 DEF Inv, Placed, NoOrphans, Accept, appVars, progVars
  <2> QED BY <2>5, <2>6, <2>8 DEF Inv
<1>2. ASSUME NEW r \in Commands, Send(c, r) PROVE Inv'
  <2>1. conn' = [conn EXCEPT ![c] = "used"] /\ conn[c] \in {"open", "used"} /\ service = "up"
    BY <1>2 DEF Send, Peers, Inv, Placed
  <2>2. Bytes(r) \in Seq(0..255)
    <3>1. r.cmd \in 0..255 /\ r.body \in Seq(0..255) /\ Len(r.body) < 256
      BY ControlAssumption
    <3>2. Len(r.body) \in Nat
      BY <3>1, LenProperties
    <3>3. Len(r.body) \in 0..255
      <4>1. \A n \in Nat : n < 256 => n \in 0..255
        OBVIOUS
      <4> QED BY <3>1, <3>2, <4>1
    <3>4. <<r.cmd, Len(r.body)>> \in Seq(0..255)
      BY <3>1, <3>3, PairInSeq
    <3>5. <<r.cmd, Len(r.body)>> \o r.body \in Seq(0..255)
      BY <3>1, <3>4, ConcatProperties
    <3> QED BY <3>5 DEF Bytes
  <2>3. wire[c] \o Bytes(r) \in Seq(0..255)
    BY <2>2, ConcatProperties DEF Inv, TypeOK
  <2>4. Append(asked[c], r) \in Seq(Commands)
    BY AppendFacts DEF Inv, TypeOK
  <2>5. TypeOK'
    <3>1. service' = "up" /\ UNCHANGED <<progVars, errno, appVars, fds, leaked>>
      BY <1>2, <2>1 DEF Send, PeerActs
    <3>2. wire' \in [Conns -> Seq(0..255)]
      BY <1>2, <2>3 DEF Inv, TypeOK, Send
    <3>3. asked' \in [Conns -> Seq(Commands)]
      BY <1>2, <2>4 DEF Inv, TypeOK, Send
    <3>4. conn' \in [Conns -> {"none", "open", "used", "closed"}]
      BY <2>1 DEF Inv, TypeOK
    <3>5. AppsFit' /\ AllStarted'
      BY <3>1, FitsFacts DEF Inv, AppsFit, AllStarted, Started, appVars
    <3>6. errno' \in {"0", "ERANGE"} /\ fds' \in 0..MaxFd /\ leaked' \in 0..MaxFd
      BY <3>1 DEF Inv, TypeOK
    <3> QED BY <2>1, <3>1, <3>2, <3>3, <3>4, <3>5, <3>6, TypeOfUpStep DEF Inv
  <2>6. Opened' = Opened /\ Sockets' = Sockets /\ Files' = Files
    BY <1>2, <2>1 DEF Send, PeerActs, Opened, Sockets, Files, appVars, Inv, TypeOK
  <2>7. Counted'
    BY <1>2, <2>6 DEF Inv, Counted, Send, PeerActs, appVars
  <2>8. Mode' = Mode
    BY <1>2 DEF Send, PeerActs, progVars, Mode
  <2>9. Placed' /\ NoOrphans'
    BY <1>2, <2>1, <2>8 DEF Inv, Placed, NoOrphans, Send, PeerActs, appVars, progVars
  <2> QED BY <2>5, <2>7, <2>9 DEF Inv
<1>3. CASE Hangup(c)
  <2>1. conn' = [conn EXCEPT ![c] = "closed"] /\ conn[c] \in {"open", "used"} /\ service = "up"
    BY <1>3 DEF Hangup, Peers, Inv, Placed
  <2>2. TypeOK'
    BY <1>3, <2>1 DEF Inv, TypeOK, Hangup, PeerActs, appVars, progVars
  <2>3. Opened' = Opened /\ Sockets' = Sockets /\ Files' = Files
    BY <1>3, <2>1 DEF Hangup, PeerActs, Opened, Sockets, Files, appVars, Inv, TypeOK
  <2>4. Counted'
    BY <1>3, <2>3 DEF Inv, Counted, Hangup, PeerActs, appVars
  <2>5. Mode' = Mode
    BY <1>3 DEF Hangup, PeerActs, progVars, Mode
  <2>6. Placed' /\ NoOrphans'
    BY <1>3, <2>1, <2>5 DEF Inv, Placed, NoOrphans, Hangup, PeerActs, appVars, progVars
  <2> QED BY <2>2, <2>4, <2>6 DEF Inv
<1> QED BY <1>1, <1>2, <1>3 DEF Peer

LEMMA SockEventKeeps ==
  ASSUME Inv, NEW c \in Conns, SockEvent(c)
  PROVE  Inv'
<1>1. /\ Frees(c) /\ conn[c] # "none" /\ errno' \in {"0", "ERANGE"}
  BY DEF SockEvent, AtEOF, Inv, TypeOK
<1>2. conn' = [conn EXCEPT ![c] = "none"] /\ service = "up" /\ fds' = fds - 1
  BY <1>1 DEF Frees, Closed
<1>3. Opened' = Opened \ {c} /\ c \in Opened
  <2>1. \A d \in Conns : conn'[d] = IF d = c THEN "none" ELSE conn[d]
    BY <1>2 DEF Inv, TypeOK
  <2> QED BY <1>1, <2>1 DEF Opened
<1>4. IsFiniteSet(Opened') /\ Cardinality(Opened') = Cardinality(Opened) - 1
  BY <1>3, FS_RemoveElement DEF Inv, Counted
<1>5. /\ Sockets' = Sockets /\ Files' = Files
      /\ DOMAIN applist' = DOMAIN applist /\ leaked' = leaked
  BY <1>1 DEF Frees, Sockets, Files, appVars
<1>6. Counted' /\ fds' \in 0..MaxFd
  <2>1. /\ fds = Cardinality(Opened) + Cardinality(Sockets) + Cardinality(Files) + leaked
        /\ fds \in 0..MaxFd /\ leaked \in 0..MaxFd
        /\ Cardinality(Opened) \in Nat
        /\ Cardinality(Sockets) \in Nat /\ Cardinality(Files) \in Nat
    BY CountedFacts DEF Inv, Counted, TypeOK
  <2>2. Cardinality(Opened') \in Nat
    BY <1>4, FS_CardinalityType
  <2>3. /\ fds' = Cardinality(Opened') + Cardinality(Sockets') + Cardinality(Files') + leaked'
        /\ fds' \in 0..MaxFd
    BY <1>2, <1>4, <1>5, <2>1, <2>2
  <2> QED BY <1>4, <1>5, <2>3 DEF Inv, Counted
<1>7. << >> \in Seq(0..255) /\ << >> \in Seq(Commands)
  BY EmptySeq
<1>8. TypeOK'
  <2>1. service' = "up" /\ UNCHANGED <<progVars, appVars, leaked>>
    BY <1>1, <1>2 DEF Frees
  <2>2. wire' \in [Conns -> Seq(0..255)] /\ asked' \in [Conns -> Seq(Commands)]
    BY <1>1, <1>7 DEF Inv, TypeOK, Frees
  <2>3. conn' \in [Conns -> {"none", "open", "used", "closed"}]
    BY <1>2 DEF Inv, TypeOK
  <2>4. AppsFit' /\ AllStarted'
    BY <2>1, FitsFacts DEF Inv, AppsFit, AllStarted, Started, appVars
  <2>5. leaked' \in 0..MaxFd
    BY <2>1 DEF Inv, TypeOK
  <2> QED BY <1>1, <1>2, <1>6, <2>1, <2>2, <2>3, <2>4, <2>5, TypeOfUpStep DEF Inv
<1>9. Mode' = Mode
  BY <1>1 DEF Frees, progVars, Mode
<1>10. Placed' /\ NoOrphans'
  BY <1>1, <1>2, <1>9 DEF Inv, Placed, NoOrphans, Frees, appVars, progVars
<1> QED BY <1>6, <1>8, <1>10 DEF Inv

-----------------------------------------------------------------------------
(* What a request leaves of Inv for its effect on the applications to keep. *)
LEMMA EchoKeeps ==
  ASSUME Inv, NEW c \in Conns, NEW k \in 1..Len(wire[c]), NEW ret, Reads(c, k), Echo(c, k, ret)
  PROVE  /\ service = "up" /\ service' = "up"
         /\ wire' \in [Conns -> Seq(0..255)] /\ asked' \in [Conns -> Seq(Commands)]
         /\ UNCHANGED <<progVars, conn>> /\ Opened' = Opened /\ Mode' = Mode
<1>1. service = "up" /\ service' = "up" /\ UNCHANGED <<progVars, conn>>
  BY DEF Reads, Echo
<1>2. wire[c] \in Seq(0..255) /\ Len(wire[c]) \in Nat
  BY LenProperties DEF Inv, TypeOK
<1>3. \A i \in (k + 1)..Len(wire[c]) : wire[c][i] \in 0..255
  <2>1. \A i \in (k + 1)..Len(wire[c]) : i \in 1..Len(wire[c])
    BY <1>2
  <2> QED BY <1>2, <2>1, ElementOfSeq
<1>4. LeftOver(c, k) \in Seq(0..255)
  BY <1>2, <1>3, SubSeqProperties DEF LeftOver
<1>5. wire' \in [Conns -> Seq(0..255)]
  BY <1>4 DEF Inv, TypeOK, Echo
<1>6. asked' = [asked EXCEPT ![c] = IF Whole(c, k) THEN Tail(asked[c]) ELSE << >>]
  BY DEF Echo
<1>7. asked[c] \in Seq(Commands)
  BY DEF Inv, TypeOK
<1>8. CASE Whole(c, k)
  <2>1. Tail(asked[c]) \in Seq(Commands)
    BY <1>7, <1>8, HeadTailProperties DEF Whole
  <2> QED BY <1>1, <1>5, <1>6, <1>8, <2>1 DEF Inv, TypeOK, Opened, Mode, progVars
<1>9. CASE ~Whole(c, k)
  <2>1. << >> \in Seq(Commands)
    BY EmptySeq
  <2> QED BY <1>1, <1>5, <1>6, <1>9, <2>1 DEF Inv, TypeOK, Opened, Mode, progVars
<1> QED BY <1>8, <1>9

(* An answer that changes no application.                                   *)
LEMMA UnchangedKeeps ==
  ASSUME Inv, NEW c \in Conns, NEW k \in 1..Len(wire[c]), NEW ret, Reads(c, k), Echo(c, k, ret),
         errno' \in {"0", "ERANGE"}, UNCHANGED <<appVars, fds, leaked>>
  PROVE  Inv'
<1>1. /\ service = "up" /\ service' = "up"
      /\ wire' \in [Conns -> Seq(0..255)] /\ asked' \in [Conns -> Seq(Commands)]
      /\ UNCHANGED <<progVars, conn>> /\ Opened' = Opened /\ Mode' = Mode
  BY EchoKeeps
<1>2. TypeOK'
  <2>1. AppsFit' /\ AllStarted'
    BY FitsFacts DEF Inv, AppsFit, AllStarted, Started, appVars
  <2>2. fds' \in 0..MaxFd /\ leaked' \in 0..MaxFd
    BY DEF Inv, TypeOK
  <2> QED BY <1>1, <2>1, <2>2, TypeOfStep DEF Inv
<1>3. Sockets' = Sockets /\ Files' = Files
  BY DEF Sockets, Files, appVars
<1>4. Counted'
  BY <1>1, <1>3 DEF Inv, Counted, appVars
<1>5. Placed' /\ NoOrphans'
  BY <1>1 DEF Inv, Placed, NoOrphans, progVars, appVars
<1> QED BY <1>2, <1>4, <1>5 DEF Inv

LEMMA NumberType ==
  ASSUME NEW table, NEW key, NEW e
  PROVE  CONF_get_number(table, key, e) \in Int
<1>1. CASE key \notin DOMAIN table \/ Errno(table, key, e) = "ERANGE"
  BY <1>1 DEF CONF_get_number
<1>2. CASE key \in DOMAIN table /\ Errno(table, key, e) # "ERANGE" /\ table[key] \in DOMAIN Numerals
  BY <1>2, NumeralsAssumption DEF CONF_get_number
<1>3. CASE key \in DOMAIN table /\ Errno(table, key, e) # "ERANGE" /\ table[key] \notin DOMAIN Numerals
  BY <1>3 DEF CONF_get_number
<1> QED BY <1>1, <1>2, <1>3

LEMMA ErrnoType ==
  ASSUME NEW table, NEW key, NEW e \in {"0", "ERANGE"}
  PROVE  Errno(table, key, e) \in {"0", "ERANGE"}
BY DEF Errno

(* Requests of both modes that change no application.                       *)
LEMMA UnhandledKeeps ==
  ASSUME Inv, NEW c \in Conns, NEW k \in 1..Len(wire[c]), Unhandled(c, k)
  PROVE  Inv'
<1>1. /\ Reads(c, k) /\ (Echo(c, k, "E_FORMAT") \/ Echo(c, k, "E_OK"))
      /\ UNCHANGED <<errno, appVars, fds, leaked>>
  BY DEF Unhandled
<1>2. errno' \in {"0", "ERANGE"}
  BY <1>1 DEF Inv, TypeOK
<1> QED BY <1>1, <1>2, UnchangedKeeps

LEMMA RegisterClientKeeps ==
  ASSUME Inv, NEW c \in Conns, NEW k \in 1..Len(wire[c]), RegisterClient(c, k)
  PROVE  Inv'
<1>1. /\ Reads(c, k) /\ server_mode = "CLIENT_MODE" /\ sudps' = sudps /\ leaked' = leaked
      /\ errno' = Errno(Fields(c, k), max_file, AfterPort(c, k))
  BY DEF RegisterClient, Command, Requests
<1>2. errno' \in {"0", "ERANGE"}
  <2>1. AfterPort(c, k) \in {"0", "ERANGE"}
    BY ErrnoType DEF AfterPort, Inv, TypeOK
  <2> QED BY <1>1, <2>1, ErrnoType
<1>3. CASE Echo(c, k, "E_EXIST") /\ UNCHANGED <<applist, fds>>
  BY <1>1, <1>2, <1>3, UnchangedKeeps DEF appVars
<1>4. ASSUME NEW n, n \notin DOMAIN applist, Echo(c, k, "E_OK"),
             Entry(n, Limit(c, k), fds < MaxFd, 0),
             fds' = IF fds < MaxFd THEN fds + 1 ELSE fds
      PROVE  Inv'
  <2>1. /\ service = "up" /\ service' = "up"
        /\ wire' \in [Conns -> Seq(0..255)] /\ asked' \in [Conns -> Seq(Commands)]
        /\ UNCHANGED <<progVars, conn>> /\ Opened' = Opened /\ Mode' = Mode
    BY <1>1, <1>4, EchoKeeps
  <2>2. /\ DOMAIN applist' = DOMAIN applist \cup {n}
        /\ \A m \in DOMAIN applist : applist'[m] = applist[m]
        /\ applist'[n] = [max_count |-> Limit(c, k), files |-> 0,
                          sock |-> (fds < MaxFd), open |-> FALSE, pid |-> 0]
    BY <1>4 DEF Entry
  <2>3. Limit(c, k) \in Int /\ (fds < MaxFd) \in BOOLEAN /\ 0 \in 0..MaxPid
    BY NumberType DEF Limit
  <2>4. /\ applist'[n] \in Applications /\ applist'[n].files = 0
        /\ applist'[n].sock = (fds < MaxFd) /\ applist'[n].open = FALSE
    BY <2>2, <2>3 DEF Applications
  <2>5. fds' \in 0..MaxFd
    BY <1>4 DEF Inv, TypeOK
  <2>6. TypeOK'
    <3>1. \A m \in DOMAIN applist : Fits(applist'[m])
      BY <2>2, FitsFacts DEF Inv, AppsFit
    <3>2. Fits(applist'[n])
      BY <2>4 DEF Fits
    <3>3. AppsFit' /\ AllStarted'
      BY <1>1, <2>2, <3>1, <3>2, FitsFacts DEF Inv, AppsFit, AllStarted, Started
    <3>4. leaked' \in 0..MaxFd
      BY <1>1 DEF Inv, TypeOK
    <3> QED BY <1>2, <2>1, <2>5, <3>3, <3>4, TypeOfStep DEF Inv
  <2>7. Sockets' = IF fds < MaxFd THEN Sockets \cup {n} ELSE Sockets
    <3>1. Sockets' = {m \in DOMAIN applist \cup {n} : applist'[m].sock}
      BY <2>2 DEF Sockets
    <3>2. Sockets' = Sockets \cup {m \in {n} : fds < MaxFd}
      BY <2>2, <2>4, <3>1 DEF Sockets
    <3> QED BY <3>2
  <2>8. n \notin Sockets /\ Files' = Files
    BY <1>4, <2>2, <2>4 DEF Sockets, Files
  <2>9. IsFiniteSet(Sockets) /\ Cardinality(Sockets \cup {n}) = Cardinality(Sockets) + 1
    BY <2>8, CountedFacts, FS_AddElement DEF Inv
  <2>10. IsFiniteSet(DOMAIN applist')
    BY <2>2, FS_AddElement DEF Inv, Counted
  <2>11. Counted'
    <3>1. /\ fds = Cardinality(Opened) + Cardinality(Sockets) + Cardinality(Files) + leaked
          /\ fds \in Nat /\ leaked \in Nat /\ IsFiniteSet(Opened)
      BY DEF Inv, Counted, TypeOK
    <3>2. /\ Cardinality(Opened) \in Nat
          /\ Cardinality(Sockets) \in Nat /\ Cardinality(Files) \in Nat
      BY CountedFacts DEF Inv
    <3>3. CASE fds < MaxFd
      <4>1. Cardinality(Sockets') = Cardinality(Sockets) + 1 /\ fds' = fds + 1
        BY <1>4, <2>7, <2>9, <3>3
      <4>2. fds' = Cardinality(Opened) + Cardinality(Sockets') + Cardinality(Files') + leaked
        BY <2>8, <3>1, <3>2, <4>1
      <4> QED BY <1>1, <2>1, <2>10, <3>1, <4>2 DEF Counted
    <3>4. CASE ~(fds < MaxFd)
      BY <1>1, <1>4, <2>1, <2>7, <2>8, <2>10, <3>1, <3>4 DEF Counted
    <3> QED BY <3>3, <3>4
  <2>12. DOMAIN sudps = {}
    BY <1>1, <2>1 DEF Inv, Placed
  <2>13. Placed' /\ NoOrphans'
    BY <1>1, <2>1, <2>12 DEF Inv, Placed, NoOrphans, progVars
  <2> QED BY <2>6, <2>11, <2>13 DEF Inv
<1> QED BY <1>3, <1>4 DEF RegisterClient

LEMMA DelectClientKeeps ==
  ASSUME Inv, NEW c \in Conns, NEW k \in 1..Len(wire[c]), DelectClient(c, k)
  PROVE  Inv'
<1>1. /\ Reads(c, k) /\ server_mode = "CLIENT_MODE" /\ UNCHANGED <<errno, fds, sudps>>
  BY DEF DelectClient, Command, Requests
<1>2. errno' \in {"0", "ERANGE"}
  BY <1>1 DEF Inv, TypeOK
<1>3. CASE Echo(c, k, "E_NOTFOUND") /\ UNCHANGED <<applist, leaked>>
  BY <1>1, <1>2, <1>3, UnchangedKeeps DEF appVars
<1>4. ASSUME NEW n \in DOMAIN applist, Echo(c, k, "E_OK"), Without({n}),
             Cancels(n)
      PROVE  Inv'
  <2>1. /\ service = "up" /\ service' = "up"
        /\ wire' \in [Conns -> Seq(0..255)] /\ asked' \in [Conns -> Seq(Commands)]
        /\ UNCHANGED <<progVars, conn>> /\ Opened' = Opened /\ Mode' = Mode
    BY <1>1, <1>4, EchoKeeps
  <2>2. /\ DOMAIN applist' = DOMAIN applist \ {n}
        /\ \A m \in DOMAIN applist \ {n} : applist'[m] = applist[m]
    BY <1>4 DEF Without
  <2>3. Sockets' = Sockets \ {n} /\ Files' = Files \ {n}
    BY <2>2 DEF Sockets, Files
  <2>4. /\ n \in Sockets <=> applist[n].sock
        /\ n \in Files <=> applist[n].open
    BY <1>4 DEF Sockets, Files
  <2> DEFINE s == IF n \in Sockets THEN 1 ELSE 0
             f == IF n \in Files THEN 1 ELSE 0
  <2>5. /\ IsFiniteSet(Sockets') /\ Cardinality(Sockets') = Cardinality(Sockets) - s
        /\ IsFiniteSet(Files') /\ Cardinality(Files') = Cardinality(Files) - f
    <3>1. /\ IsFiniteSet(Sockets \ {n})
          /\ Cardinality(Sockets \ {n}) = IF n \in Sockets THEN Cardinality(Sockets) - 1
                                          ELSE Cardinality(Sockets)
      BY CountedFacts, FS_RemoveElement DEF Inv
    <3>2. /\ IsFiniteSet(Files \ {n})
          /\ Cardinality(Files \ {n}) = IF n \in Files THEN Cardinality(Files) - 1
                                        ELSE Cardinality(Files)
      BY CountedFacts, FS_RemoveElement DEF Inv
    <3>3. Cardinality(Sockets) \in Nat /\ Cardinality(Files) \in Nat
      BY CountedFacts DEF Inv
    <3> QED BY <2>3, <3>1, <3>2, <3>3
  <2>6. leaked' = leaked + s + f /\ leaked \in Nat /\ s \in Nat /\ f \in Nat
    <3>1. leaked \in Nat
      BY DEF Inv, TypeOK
    <3>2. leaked' = leaked + (s + f)
      BY <1>4, <2>4 DEF Cancels, Held
    <3> HIDE DEF s
    <3>3. s \in Nat
      BY DEF s
    <3> HIDE DEF f
    <3>4. f \in Nat
      BY DEF f
    <3> QED BY <3>1, <3>2, <3>3, <3>4
  <2> HIDE DEF s, f
  <2>7. Counted'
    <3>1. /\ fds = Cardinality(Opened) + Cardinality(Sockets) + Cardinality(Files) + leaked
          /\ IsFiniteSet(Opened)
      BY DEF Inv, Counted
    <3>2. /\ Cardinality(Opened) \in Nat
          /\ Cardinality(Sockets) \in Nat /\ Cardinality(Files) \in Nat
      BY CountedFacts DEF Inv
    <3>3. fds = Cardinality(Opened) + Cardinality(Sockets') + Cardinality(Files') + leaked'
      BY <2>5, <2>6, <3>1, <3>2
    <3>4. IsFiniteSet(DOMAIN applist')
      BY <2>2, FS_RemoveElement DEF Inv, Counted
    <3> QED BY <1>1, <2>1, <3>1, <3>3, <3>4 DEF Counted
  <2>8. Cardinality(Sockets') \in Nat /\ Cardinality(Files') \in Nat
    BY <2>5, FS_CardinalityType
  <2>9. leaked' \in 0..MaxFd
    <3>1. /\ leaked' \in Nat
          /\ fds' = Cardinality(Opened) + Cardinality(Sockets') + Cardinality(Files') + leaked'
      BY <2>1, <2>6, <2>7 DEF Counted
    <3>2. fds' \in 0..MaxFd /\ Cardinality(Opened) \in Nat
      BY <1>1, CountedFacts DEF Inv, TypeOK
    <3> QED BY <2>8, <3>1, <3>2
  <2>10. TypeOK'
    <3>1. AppsFit' /\ AllStarted'
      BY <1>1, <2>2, FitsFacts DEF Inv, AppsFit, AllStarted, Started
    <3>2. fds' \in 0..MaxFd
      BY <1>1 DEF Inv, TypeOK
    <3> QED BY <1>2, <2>1, <2>9, <3>1, <3>2, TypeOfStep DEF Inv
  <2>11. DOMAIN sudps = {}
    BY <1>1, <2>1 DEF Inv, Placed
  <2>12. Placed' /\ NoOrphans'
    BY <1>1, <2>1, <2>11 DEF Inv, Placed, NoOrphans, progVars
  <2> QED BY <2>7, <2>10, <2>12 DEF Inv
<1> QED BY <1>3, <1>4 DEF DelectClient

LEMMA AddFileKeeps ==
  ASSUME Inv, NEW c \in Conns, NEW k \in 1..Len(wire[c]), AddFile(c, k)
  PROVE  Inv'
<1>1. /\ Reads(c, k) /\ server_mode = "CLIENT_MODE"
      /\ UNCHANGED <<errno, fds, sudps, leaked>>
  BY DEF AddFile, Command, Requests, Handled, CMD_ADD_FILE, CMD_REGISTER, CMD_DELECT
<1>2. errno' \in {"0", "ERANGE"}
  BY <1>1 DEF Inv, TypeOK
<1>3. ASSUME NEW ret, Echo(c, k, ret), UNCHANGED applist PROVE Inv'
  BY <1>1, <1>2, <1>3, UnchangedKeeps DEF appVars
<1>4. ASSUME NEW n \in DOMAIN applist, ~Full(n), Echo(c, k, "E_OK"),
             applist' = [applist EXCEPT ![n].files = applist[n].files + 1]
      PROVE  Inv'
  <2>1. /\ service = "up" /\ service' = "up"
        /\ wire' \in [Conns -> Seq(0..255)] /\ asked' \in [Conns -> Seq(Commands)]
        /\ UNCHANGED <<progVars, conn>> /\ Opened' = Opened /\ Mode' = Mode
    BY <1>1, <1>4, EchoKeeps
  <2>2. applist[n] \in Applications
    BY DEF Inv, TypeOK
  <2>3. /\ DOMAIN applist' = DOMAIN applist
        /\ \A m \in DOMAIN applist \ {n} : applist'[m] = applist[m]
        /\ applist'[n] = [applist[n] EXCEPT !.files = applist[n].files + 1]
    BY <1>4
  <2>4. applist[n].files < applist[n].max_count
    BY <1>4, <2>2 DEF Full, Applications
  <2>5. /\ applist'[n] \in Applications
        /\ applist'[n].sock = applist[n].sock /\ applist'[n].open = applist[n].open
    BY <2>2, <2>3 DEF Applications
  <2>6. applist'[n].files <= applist'[n].max_count
    BY <2>2, <2>3, <2>4 DEF Applications
  <2>7. TypeOK'
    <3>1. ASSUME NEW m \in DOMAIN applist' PROVE Fits(applist'[m])
      <4>1. CASE m = n
        BY <2>3, <2>5, <2>6, <4>1 DEF Fits
      <4>2. CASE m # n
        BY <2>3, <4>2, FitsFacts DEF Inv, AppsFit
      <4> QED BY <4>1, <4>2
    <3>2. AppsFit' /\ AllStarted'
      BY <1>1, <3>1, FitsFacts DEF Inv, AppsFit, AllStarted, Started
    <3>3. fds' \in 0..MaxFd /\ leaked' \in 0..MaxFd
      BY <1>1 DEF Inv, TypeOK
    <3> QED BY <1>2, <2>1, <3>2, <3>3, TypeOfStep DEF Inv
  <2>8. Sockets' = Sockets /\ Files' = Files
    BY <2>3, <2>5 DEF Sockets, Files
  <2>9. Counted'
    BY <1>1, <2>1, <2>3, <2>8 DEF Inv, Counted
  <2>10. DOMAIN sudps = {}
    BY <1>1, <2>1 DEF Inv, Placed
  <2>11. Placed' /\ NoOrphans'
    BY <1>1, <2>1, <2>10 DEF Inv, Placed, NoOrphans, progVars
  <2> QED BY <2>7, <2>9, <2>11 DEF Inv
<1> QED BY <1>3, <1>4 DEF AddFile

LEMMA IsApplication ==
  ASSUME NEW x \in Int, NEW f \in Nat, NEW b \in BOOLEAN, NEW o \in BOOLEAN, NEW q \in 0..MaxPid
  PROVE  [max_count |-> x, files |-> f, sock |-> b, open |-> o, pid |-> q] \in Applications
BY DEF Applications

(* A step of a sender's thread leaves everything but its own entry.         *)
LEMMA ThreadKeeps ==
  ASSUME Inv, NEW n \in DOMAIN applist, ThreadActs, NEW files \in Nat, NEW opened \in BOOLEAN,
         files <= applist[n].files, applist[n].sock \/ applist[n].open,
         applist' = [applist EXCEPT ![n].files = files, ![n].open = opened],
         fds' \in 0..MaxFd,
         fds' = fds + (IF opened THEN 1 ELSE 0) - (IF applist[n].open THEN 1 ELSE 0)
  PROVE  Inv'
<1>1. UNCHANGED <<service, progVars, errno, connVars, sudps, historyVars>>
  BY DEF ThreadActs
<1>2. applist[n] \in Applications /\ (applist[n].files > 0 => applist[n].files <= applist[n].max_count)
  BY DEF Inv, TypeOK
<1>3. /\ DOMAIN applist' = DOMAIN applist
      /\ \A m \in DOMAIN applist \ {n} : applist'[m] = applist[m]
      /\ applist'[n] = [applist[n] EXCEPT !.files = files, !.open = opened]
  OBVIOUS
<1>4. /\ applist'[n].sock = applist[n].sock /\ applist'[n].open = opened
      /\ applist'[n].files = files /\ applist'[n].max_count = applist[n].max_count
      /\ applist'[n].pid = applist[n].pid /\ applist'[n] \in Applications
      /\ applist[n].files \in Nat /\ applist[n].max_count \in Int /\ applist[n].open \in BOOLEAN
  <2> DEFINE a == applist[n]
  <2>1. a \in Applications
    BY <1>2
  <2>2. applist'[n] = [a EXCEPT !.files = files, !.open = opened]
    BY <1>3
  <2> HIDE DEF a
  <2>3. /\ a.files \in Nat /\ a.max_count \in Int /\ a.open \in BOOLEAN
        /\ a.sock \in BOOLEAN /\ a.pid \in 0..MaxPid
        /\ applist'[n] = [max_count |-> a.max_count, files |-> files, sock |-> a.sock,
                          open |-> opened, pid |-> a.pid]
    BY <2>1, <2>2 DEF Applications
  <2>4. applist'[n] \in Applications
    BY <2>3, IsApplication
  <2> QED BY <2>3, <2>4 DEF a
<1>5. TypeOK'
  <2>1. ASSUME NEW m \in DOMAIN applist' PROVE Fits(applist'[m])
    <3>1. CASE m = n
      <4>1. files > 0 => files <= applist[n].max_count
        BY <1>2, <1>4
      <4> QED BY <1>4, <3>1, <4>1 DEF Fits
    <3>2. CASE m # n
      BY <1>3, <3>2, FitsFacts DEF Inv, AppsFit
    <3> QED BY <3>1, <3>2
  <2>2. AppsFit' /\ AllStarted'
    BY <1>1, <2>1, FitsFacts DEF Inv, AppsFit, AllStarted, Started
  <2>3. service = "up" /\ service' = "up" /\ UNCHANGED <<progVars, conn>>
    BY <1>1 DEF Inv, TypeOK, connVars
  <2>4. /\ errno' \in {"0", "ERANGE"} /\ wire' \in [Conns -> Seq(0..255)]
        /\ asked' \in [Conns -> Seq(Commands)] /\ leaked' \in 0..MaxFd
    BY <1>1 DEF Inv, TypeOK, connVars, historyVars
  <2> QED BY <2>2, <2>3, <2>4, TypeOfStep DEF Inv
<1>6. Sockets' = Sockets /\ Opened' = Opened /\ Mode' = Mode
  BY <1>1, <1>3, <1>4 DEF Sockets, Opened, Mode, progVars, connVars
<1>7. Counted'
  <2>1. n \in Files <=> applist[n].open
    BY DEF Files
  <2>2. Files' = IF opened THEN Files \cup {n} ELSE Files \ {n}
    BY <1>3, <1>4 DEF Files
  <2>3. /\ fds = Cardinality(Opened) + Cardinality(Sockets) + Cardinality(Files) + leaked
        /\ leaked \in Nat /\ IsFiniteSet(Files)
        /\ Cardinality(Opened) \in Nat
        /\ Cardinality(Sockets) \in Nat /\ Cardinality(Files) \in Nat
    BY CountedFacts DEF Inv, Counted, TypeOK
  <2>4. Cardinality(Files') = Cardinality(Files) + (IF opened THEN 1 ELSE 0)
                              - (IF applist[n].open THEN 1 ELSE 0)
    <3>1. CASE opened /\ applist[n].open
      <4>1. Files' = Files
        BY <2>1, <2>2, <3>1
      <4> QED BY <2>3, <3>1, <4>1
    <3>2. CASE opened /\ ~applist[n].open
      <4>1. Cardinality(Files') = Cardinality(Files) + 1
        BY <2>1, <2>2, <2>3, <3>2, FS_AddElement
      <4> QED BY <2>3, <3>2, <4>1
    <3>3. CASE ~opened /\ applist[n].open
      <4>1. Cardinality(Files') = Cardinality(Files) - 1
        BY <2>1, <2>2, <2>3, <3>3, FS_RemoveElement
      <4> QED BY <2>3, <3>3, <4>1
    <3>4. CASE ~opened /\ ~applist[n].open
      <4>1. Files' = Files
        BY <2>1, <2>2, <3>4
      <4> QED BY <2>3, <3>4, <4>1
    <3> QED BY <3>1, <3>2, <3>3, <3>4
  <2>5. fds' = Cardinality(Opened) + Cardinality(Sockets) + Cardinality(Files') + leaked
    BY <2>3, <2>4
  <2> QED BY <1>1, <1>3, <1>6, <2>5 DEF Inv, Counted, historyVars
<1>8. server_mode # "SERVER_MODE"
  BY DEF Inv, Placed, TypeOK
<1>9. \A m \in DOMAIN applist : applist'[m].pid = applist[m].pid
  BY <1>3, <1>4
<1>10. Placed' /\ NoOrphans'
  BY <1>1, <1>3, <1>6, <1>8, <1>9
  DEF Inv, Placed, NoOrphans, progVars, connVars, historyVars
<1> QED BY <1>5, <1>7, <1>10 DEF Inv

LEMMA FileThreadKeeps ==
  ASSUME Inv, NEW n \in DOMAIN applist, FileThread(n)
  PROVE  Inv'
<1>1. applist[n] \in Applications /\ fds \in 0..MaxFd
  BY DEF Inv, TypeOK
<1>2. /\ applist[n].files \in Nat /\ applist[n].sock \in BOOLEAN /\ applist[n].open \in BOOLEAN
      /\ applist[n] = [max_count |-> applist[n].max_count, files |-> applist[n].files,
                       sock |-> applist[n].sock, open |-> applist[n].open,
                       pid |-> applist[n].pid]
  BY <1>1 DEF Applications
<1>3. ASSUME NEW opened \in BOOLEAN, Takes(n, opened), fds' \in 0..MaxFd,
             fds' = fds + (IF opened THEN 1 ELSE 0)
      PROVE  Inv'
  <2>1. applist[n].files - 1 \in Nat /\ applist[n].files - 1 <= applist[n].files
    BY <1>2, <1>3 DEF Takes
  <2>2. fds' = fds + (IF opened THEN 1 ELSE 0) - (IF applist[n].open THEN 1 ELSE 0)
    BY <1>1, <1>3 DEF Takes
  <2> QED BY <1>3, <2>1, <2>2, ThreadKeeps DEF Takes
<1>4. CASE OpenFile(n)
  <2>1. Takes(n, TRUE) /\ fds < MaxFd /\ fds' = fds + 1
    BY <1>4 DEF OpenFile
  <2>2. fds' \in 0..MaxFd
    BY <1>1, <2>1
  <2> QED BY <1>3, <2>1, <2>2
<1>5. CASE SkipFile(n)
  <2>1. Takes(n, FALSE) /\ fds' = fds
    BY <1>5 DEF SkipFile
  <2>2. fds' \in 0..MaxFd /\ fds' = fds + 0
    BY <1>1, <2>1
  <2> QED BY <1>3, <2>1, <2>2
<1>6. CASE FileSent(n)
  <2>1. /\ ThreadActs /\ applist[n].open /\ fds' = fds - 1
        /\ applist' = [applist EXCEPT ![n].open = FALSE]
    BY <1>6 DEF FileSent
  <2>2. applist' = [applist EXCEPT ![n].files = applist[n].files, ![n].open = FALSE]
    BY <1>2, <2>1
  <2>3. n \in Files /\ IsFiniteSet(Files)
    BY <2>1, CountedFacts DEF Files, Inv
  <2>4. Cardinality(Files) # 0
    BY <2>3, FS_EmptySet
  <2>5. fds' \in 0..MaxFd
    <3>1. /\ fds = Cardinality(Opened) + Cardinality(Sockets) + Cardinality(Files) + leaked
          /\ leaked \in Nat
          /\ Cardinality(Opened) \in Nat
          /\ Cardinality(Sockets) \in Nat /\ Cardinality(Files) \in Nat
      BY CountedFacts DEF Inv, Counted, TypeOK
    <3> QED BY <1>1, <2>1, <2>4, <3>1
  <2>6. fds' = fds + 0 - 1
    BY <1>1, <2>1
  <2>7. fds' = fds + (IF FALSE THEN 1 ELSE 0) - (IF applist[n].open THEN 1 ELSE 0)
    BY <2>1, <2>6
  <2>8. applist[n].files <= applist[n].files
    BY <1>2
  <2> QED BY <1>2, <2>1, <2>2, <2>5, <2>7, <2>8, ThreadKeeps
<1> QED BY <1>4, <1>5, <1>6 DEF FileThread

(* In a server a step that adds or takes away entries opens no socket.      *)
LEMMA NoSockets ==
  ASSUME Inv, NEW ns, IsFiniteSet(ns), DOMAIN applist' \subseteq DOMAIN applist \cup ns,
         \A n \in DOMAIN applist : ~applist[n].sock /\ ~applist[n].open,
         \A n \in DOMAIN applist' : ~applist'[n].sock /\ ~applist'[n].open,
         Opened' = Opened, UNCHANGED <<fds, leaked>>
  PROVE  Counted'
<1>1. Sockets = {} /\ Files = {} /\ Sockets' = {} /\ Files' = {}
  BY DEF Sockets, Files
<1>2. IsFiniteSet(DOMAIN applist \cup ns)
  BY FS_Union DEF Inv, Counted
<1>3. IsFiniteSet(DOMAIN applist')
  BY <1>2, FS_Subset
<1> QED BY <1>1, <1>3 DEF Inv, Counted

LEMMA RegisterServerKeeps ==
  ASSUME Inv, NEW c \in Conns, NEW k \in 1..Len(wire[c]), RegisterServer(c, k)
  PROVE  Inv'
<1>1. Reads(c, k) /\ server_mode = "SERVER_MODE" /\ UNCHANGED <<fds, leaked>>
  BY DEF RegisterServer, Command, Requests
<1>2. errno' \in {"0", "ERANGE"}
  <2>1. AfterPort(c, k) \in {"0", "ERANGE"}
    BY ErrnoType DEF AfterPort, Inv, TypeOK
  <2> QED BY <2>1 DEF RegisterServer, Inv, TypeOK
<1>3. ASSUME NEW ret, Echo(c, k, ret), UNCHANGED appVars PROVE Inv'
  BY <1>1, <1>2, <1>3, UnchangedKeeps
<1>4. ASSUME NEW n, n \notin DOMAIN applist, Echo(c, k, "E_OK"), NEW p \in FreePids, Fork(n, p)
      PROVE  Inv'
  <2>1. /\ service = "up" /\ service' = "up"
        /\ wire' \in [Conns -> Seq(0..255)] /\ asked' \in [Conns -> Seq(Commands)]
        /\ UNCHANGED <<progVars, conn>> /\ Opened' = Opened /\ Mode' = Mode
    BY <1>1, <1>4, EchoKeeps
  <2>2. /\ DOMAIN applist' = DOMAIN applist \cup {n}
        /\ \A m \in DOMAIN applist : applist'[m] = applist[m]
        /\ applist'[n] = [max_count |-> 0, files |-> 0, sock |-> FALSE,
                         open |-> FALSE, pid |-> p]
    BY <1>4 DEF Fork, Entry
  <2>3. /\ DOMAIN sudps' = DOMAIN sudps \cup {p}
        /\ \A q \in DOMAIN sudps \ {p} : sudps'[q] = sudps[q]
        /\ sudps'[p] = [name |-> n, kind |-> "child"]
    BY <1>4 DEF Fork
  <2>4. p \in 1..MaxPid /\ p \notin DOMAIN sudps
    BY <1>4 DEF FreePids
  <2>5. applist'[n] \in Applications /\ applist'[n].files = 0
    BY <2>2, <2>4 DEF Applications
  <2>6. \A q \in DOMAIN sudps' : q \in 1..MaxPid /\ sudps'[q].kind \in {"child", "killed", "orphan"}
    BY <2>3, <2>4 DEF Inv, TypeOK
  <2>7. TypeOK'
    <3>1. ASSUME NEW m \in DOMAIN applist' PROVE Fits(applist'[m])
      <4>1. CASE m = n
        <5>1. applist'[n].files = 0 /\ ~(0 > 0)
          BY <2>5
        <5>2. Fits(applist'[n])
          BY <2>5, <5>1 DEF Fits
        <5> QED BY <4>1, <5>2
      <4>2. CASE m # n
        BY <2>2, <4>2, FitsFacts DEF Inv, AppsFit
      <4> QED BY <4>1, <4>2
    <3>2. AppsFit' /\ AllStarted'
      BY <2>6, <3>1 DEF AppsFit, AllStarted, Started
    <3>3. fds' \in 0..MaxFd /\ leaked' \in 0..MaxFd
      BY <1>1 DEF Inv, TypeOK
    <3> QED BY <1>2, <2>1, <3>2, <3>3, TypeOfStep DEF Inv
  <2>8. /\ \A m \in DOMAIN applist : ~applist[m].sock /\ ~applist[m].open
        /\ \A m \in DOMAIN applist' : ~applist'[m].sock /\ ~applist'[m].open
    BY <1>1, <2>1, <2>2 DEF Inv, Placed
  <2>9. Counted'
    <3>1. IsFiniteSet({n})
      BY FS_Singleton
    <3> QED BY <1>1, <2>1, <2>2, <2>8, <3>1, NoSockets
  <2>10. Placed'
    BY <1>1, <2>1, <2>3, <2>8 DEF Inv, Placed, progVars
  <2>11. NoOrphans'
    <3>1. ASSUME NEW q \in DOMAIN sudps \ {p}, sudps[q].kind # "killed"
          PROVE  sudps[q].name \in DOMAIN applist' /\ applist'[sudps[q].name].pid = q
      BY <2>1, <2>2, <3>1 DEF Inv, NoOrphans
    <3>2. sudps'[p].name \in DOMAIN applist' /\ applist'[sudps'[p].name].pid = p
      BY <2>2, <2>3
    <3> QED BY <2>3, <3>1, <3>2 DEF NoOrphans
  <2> QED BY <2>7, <2>9, <2>10, <2>11 DEF Inv
<1> QED BY <1>3, <1>4 DEF RegisterServer

LEMMA DelectServerKeeps ==
  ASSUME Inv, NEW c \in Conns, NEW k \in 1..Len(wire[c]), DelectServer(c, k)
  PROVE  Inv'
<1>1. Reads(c, k) /\ server_mode = "SERVER_MODE" /\ UNCHANGED <<errno, fds, leaked>>
  BY DEF DelectServer, Command, Requests
<1>2. errno' \in {"0", "ERANGE"}
  BY <1>1 DEF Inv, TypeOK
<1>3. ASSUME NEW ret, Echo(c, k, ret), UNCHANGED appVars PROVE Inv'
  BY <1>1, <1>2, <1>3, UnchangedKeeps
<1>4. ASSUME NEW n \in DOMAIN applist, Echo(c, k, "E_OK"), Without({n}), Kill(applist[n].pid)
      PROVE  Inv'
  <2>1. /\ service = "up" /\ service' = "up"
        /\ wire' \in [Conns -> Seq(0..255)] /\ asked' \in [Conns -> Seq(Commands)]
        /\ UNCHANGED <<progVars, conn>> /\ Opened' = Opened /\ Mode' = Mode
    BY <1>1, <1>4, EchoKeeps
  <2>2. /\ DOMAIN applist' = DOMAIN applist \ {n}
        /\ \A m \in DOMAIN applist \ {n} : applist'[m] = applist[m]
    BY <1>4 DEF Without
  <2>3. /\ DOMAIN sudps' = DOMAIN sudps
        /\ \A q \in DOMAIN sudps : q # applist[n].pid => sudps'[q] = sudps[q]
    BY <1>4 DEF Kill
  <2>4. ASSUME NEW q \in DOMAIN sudps, q = applist[n].pid
        PROVE  sudps'[q] = [name |-> sudps[q].name, kind |-> "killed"]
    <3>1. sudps'[q] = [sudps[q] EXCEPT !.kind = "killed"]
      BY <1>4, <2>4 DEF Kill
    <3>2. sudps[q] = [name |-> sudps[q].name, kind |-> sudps[q].kind]
      BY DEF Inv, Placed
    <3> QED BY <3>1, <3>2
  <2>5. \A q \in DOMAIN sudps' : q \in 1..MaxPid /\ sudps'[q].kind \in {"child", "killed", "orphan"}
    <3>1. ASSUME NEW q \in DOMAIN sudps, q = applist[n].pid PROVE sudps'[q].kind = "killed"
      <4>1. sudps'[q] = [name |-> sudps[q].name, kind |-> "killed"]
        BY <2>4, <3>1
      <4> QED BY <4>1
    <3>2. \A q \in DOMAIN sudps : q \in 1..MaxPid /\ sudps[q].kind \in {"child", "killed", "orphan"}
      BY DEF Inv, TypeOK
    <3>3. ASSUME NEW q \in DOMAIN sudps PROVE sudps'[q].kind \in {"child", "killed", "orphan"}
      <4>1. CASE q = applist[n].pid
        BY <3>1, <4>1
      <4>2. CASE q # applist[n].pid
        <5>1. sudps'[q] = sudps[q]
          BY <2>3, <4>2
        <5> QED BY <3>2, <5>1
      <4> QED BY <4>1, <4>2
    <3> QED BY <2>3, <3>2, <3>3
  <2>6. TypeOK'
    <3>1. AppsFit' /\ AllStarted'
      BY <2>2, <2>5, FitsFacts DEF Inv, AppsFit, AllStarted, Started
    <3>2. fds' \in 0..MaxFd /\ leaked' \in 0..MaxFd
      BY <1>1 DEF Inv, TypeOK
    <3> QED BY <1>2, <2>1, <3>1, <3>2, TypeOfStep DEF Inv
  <2>7. /\ \A m \in DOMAIN applist : ~applist[m].sock /\ ~applist[m].open
        /\ \A m \in DOMAIN applist' : ~applist'[m].sock /\ ~applist'[m].open
    BY <1>1, <2>1, <2>2 DEF Inv, Placed
  <2>8. Counted'
    <3>1. IsFiniteSet({})
      BY FS_EmptySet
    <3> QED BY <1>1, <2>1, <2>2, <2>7, <3>1, NoSockets
  <2>9. \A q \in DOMAIN sudps' : sudps'[q] = [name |-> sudps'[q].name, kind |-> sudps'[q].kind]
    BY <2>3, <2>4 DEF Inv, Placed
  <2>10. Placed'
    BY <1>1, <2>1, <2>3, <2>7, <2>9 DEF Inv, Placed, progVars
  <2>11. NoOrphans'
    <3>1. ASSUME NEW q \in DOMAIN sudps, sudps'[q].kind # "killed"
          PROVE  sudps'[q].name \in DOMAIN applist' /\ applist'[sudps'[q].name].pid = q
      <4>1. q # applist[n].pid
        <5> SUFFICES ASSUME q = applist[n].pid PROVE FALSE
          OBVIOUS
        <5>1. sudps'[q] = [name |-> sudps[q].name, kind |-> "killed"]
          BY <2>4
        <5> QED BY <3>1, <5>1
      <4>2. sudps'[q] = sudps[q]
        BY <2>3, <4>1
      <4>3. sudps[q].name \in DOMAIN applist /\ applist[sudps[q].name].pid = q
        BY <2>1, <3>1, <4>2 DEF Inv, NoOrphans
      <4> QED BY <2>2, <4>1, <4>2, <4>3
    <3> QED BY <2>3, <3>1 DEF NoOrphans
  <2> QED BY <2>6, <2>8, <2>10, <2>11 DEF Inv
<1> QED BY <1>3, <1>4 DEF DelectServer

LEMMA SudpEndsKeeps ==
  ASSUME Inv, NEW p \in DOMAIN sudps, SudpEnds(p)
  PROVE  Inv'
<1> DEFINE gone == {n \in DOMAIN applist : applist[n].pid = p}
<1>1. UNCHANGED <<service, progVars, errno, connVars, fds, historyVars>>
  BY DEF SudpEnds
<1>2. /\ DOMAIN sudps' = DOMAIN sudps \ {p}
      /\ \A q \in DOMAIN sudps \ {p} : sudps'[q] = sudps[q]
  BY DEF SudpEnds
<1>3. /\ DOMAIN applist' = DOMAIN applist \ gone
      /\ \A n \in DOMAIN applist \ gone : applist'[n] = applist[n]
  BY DEF SudpEnds, Without
<1>4. /\ \A n \in DOMAIN applist : ~applist[n].sock /\ ~applist[n].open
      /\ \A n \in DOMAIN applist' : ~applist'[n].sock /\ ~applist'[n].open
  <2>1. Mode = SERVER
    BY DEF Inv, Placed
  <2>2. \A n \in DOMAIN applist : ~applist[n].sock /\ ~applist[n].open
    BY <2>1 DEF Inv, Placed, TypeOK
  <2> QED BY <1>3, <2>2
<1>5. Opened' = Opened /\ Mode' = Mode
  BY <1>1 DEF Opened, Mode, progVars, connVars
<1>6. Counted'
  <2>1. IsFiniteSet({})
    BY FS_EmptySet
  <2> QED BY <1>1, <1>3, <1>4, <1>5, <2>1, NoSockets DEF historyVars
<1>7. TypeOK'
  BY <1>1, <1>2, <1>3 DEF Inv, TypeOK, progVars, connVars, historyVars
<1>8. Placed'
  BY <1>1, <1>2, <1>4, <1>5 DEF Inv, Placed, progVars, connVars, historyVars
<1>9. NoOrphans'
  <2>1. ASSUME NEW q \in DOMAIN sudps \ {p}, sudps[q].kind # "killed", service = "up"
        PROVE  sudps[q].name \in DOMAIN applist' /\ applist'[sudps[q].name].pid = q
    BY <1>3, <2>1 DEF Inv, NoOrphans
  <2> QED BY <1>1, <1>2, <2>1 DEF NoOrphans
<1> QED BY <1>6, <1>7, <1>8, <1>9 DEF Inv

-----------------------------------------------------------------------------
LEMMA StepInv == Inv /\ [Next]_vars => Inv'
<1> SUFFICES ASSUME Inv, [Next]_vars PROVE Inv'
  OBVIOUS
<1>1. CASE Start
  BY <1>1, StartKeeps
<1>2. CASE AcceptErr
  BY <1>2, ExitKeeps DEF AcceptErr
<1>3. ASSUME NEW c \in Conns, Peer(c) \/ ReadSock(c) \/ SockEvent(c) PROVE Inv'
  <2>1. CASE Peer(c)
    BY <2>1, PeerKeeps
  <2>2. CASE SockEvent(c)
    BY <2>2, SockEventKeeps
  <2>3. ASSUME NEW k \in 1..Len(wire[c]), Throws(c, k) PROVE Inv'
    BY <2>3, ExitKeeps DEF Throws, Requests, Reads
  <2>4. CASE ReadSock(c)
    BY <2>3, <2>4, UnhandledKeeps, RegisterClientKeeps, DelectClientKeeps, AddFileKeeps,
       RegisterServerKeeps, DelectServerKeeps DEF ReadSock
  <2> QED BY <1>3, <2>1, <2>2, <2>4
<1>4. ASSUME NEW n \in DOMAIN applist, FileThread(n) PROVE Inv'
  BY <1>4, FileThreadKeeps
<1>5. ASSUME NEW p \in DOMAIN sudps, SudpEnds(p) PROVE Inv'
  BY <1>5, SudpEndsKeeps
<1>6. CASE UNCHANGED vars
  <2>1. Opened' = Opened /\ Sockets' = Sockets /\ Files' = Files /\ Mode' = Mode
    BY <1>6 DEF vars, progVars, connVars, appVars, Opened, Sockets, Files, Mode
  <2>2. TypeOK'
    BY <1>6 DEF vars, progVars, connVars, appVars, historyVars, Inv, TypeOK
  <2>3. Counted'
    BY <1>6, <2>1 DEF vars, appVars, historyVars, Inv, Counted
  <2>4. Placed' /\ NoOrphans'
    BY <1>6, <2>1 DEF vars, progVars, connVars, appVars, historyVars, Inv, Placed, NoOrphans
  <2> QED BY <2>2, <2>3, <2>4 DEF Inv
<1> QED BY <1>1, <1>2, <1>3, <1>4, <1>5, <1>6 DEF Next

(* What is said of types, descriptors, Sudps and the places of things is    *)
(* inductive (ControlChannel.tla).                                          *)
THEOREM ControlInv == Spec => []Inv
<1>1. Inv /\ [Next]_vars => Inv'
  BY StepInv
<1> QED BY InitInv, <1>1, PTL DEF Spec

(* Type correctness, and no application of a client has more files than its *)
(* registration allowed, whatever comes over the connections.               *)
THEOREM ControlTypeCorrect == Spec => []TypeOK
<1>1. Inv => TypeOK
  BY DEF Inv
<1> QED BY ControlInv, <1>1, PTL

(* The descriptors in use are those of the connections, the sockets of the  *)
(* applications, the files they send, and what the applications that were   *)
(* deleted had open, for any number of each; and a server has none of the   *)
(* last (Del_App, proxy_client.cpp 249; SendPack_ex, Cudp.cpp 229).       *)
THEOREM ControlDescriptors == Spec => []DescriptorsAccounted
<1>1. Inv => DescriptorsAccounted
  BY DEF Inv, Counted, Placed, TypeOK, Opened, Sockets, Files, DescriptorsAccounted
<1> QED BY ControlInv, <1>1, PTL

(* A server that runs knows every Sudp that was not told to end, however    *)
(* often it ended before and whatever Sudps it left.                        *)
THEOREM ControlNoOrphans == Spec => []NoOrphans
<1>1. Inv => NoOrphans
  BY DEF Inv
<1> QED BY ControlInv, <1>1, PTL

(* Every line of the configuration sets what it means.                      *)
THEOREM ControlSettings == Spec => SettingsAsMeant
<1>1. Inv /\ [Next]_vars => [text' # text => g_conf' = Put(g_conf, Meant(Head(text)))]_vars
  <2> SUFFICES ASSUME Inv, Next, text' # text
               PROVE  g_conf' = Put(g_conf, Meant(Head(text)))
    OBVIOUS
  <2>1. LoadLine
    <3>1. ASSUME NEW c \in Conns, ReadSock(c) PROVE text' = text
      BY <3>1 DEF ReadSock, Unhandled, Throws, Exit, RegisterClient, DelectClient, AddFile,
         RegisterServer, DelectServer, Echo, progVars
    <3>2. ASSUME NEW c \in Conns, Peer(c) \/ SockEvent(c) PROVE text' = text
      BY <3>2 DEF Peer, Accept, Hangup, Send, PeerActs, SockEvent, Frees, progVars
    <3>3. Start => LoadLine \/ text' = text
      BY SMTT(30) DEF Start, MainServer, MainClient, MainExits, Restart, Starts, Exit, progVars
    <3>4. ASSUME AcceptErr \/ (\E n \in DOMAIN applist : FileThread(n))
                 \/ (\E p \in DOMAIN sudps : SudpEnds(p))
          PROVE  text' = text
      BY <3>4 DEF AcceptErr, Exit, FileThread, OpenFile, SkipFile, Takes, FileSent, ThreadActs,
         SudpEnds, progVars
    <3> QED BY <3>1, <3>2, <3>3, <3>4 DEF Next
  <2>2. Head(text) \in Seq(Nat)
    BY <2>1, HeadTailProperties DEF LoadLine, Inv, TypeOK
  <2>3. Put(g_conf, AnalyseLine(Head(text))) = Put(g_conf, Meant(Head(text)))
    BY <2>2, LineAsMeant, SamePut
  <2> QED BY <2>1, <2>3 DEF LoadLine
<1> QED BY ControlInv, <1>1, PTL DEF SettingsAsMeant, Spec

-----------------------------------------------------------------------------
HIDE ControlAssumption

(* A command with a body stands whole at a place of a stream.               *)
StandsAt(w, i, r) ==
  /\ Len(r.body) > 0 /\ i + 1 + Len(r.body) <= Len(w)
  /\ \A j \in 1..(Len(r.body) + 2) : w[i + j - 1] = Bytes(r)[j]

(* What is left of a stream of commands with bodies, wherever it was cut: a *)
(* 0 in it begins a registration, and what comes before that is text.       *)
Framed(w) ==
  /\ \A i \in 1..Len(w) : w[i] = CMD_REGISTER => \E r \in Commands : StandsAt(w, i, r)
  /\ \A i \in 1..(Len(w) - 1) : w[i + 1] = CMD_REGISTER => w[i] \notin Codes
  /\ Len(w) > 0 => w[Len(w)] \notin Codes

LEMMA BytesFacts ==
  ASSUME NEW r \in Commands
  PROVE  /\ Len(r.body) \in Nat /\ r.body \in Seq(0..255)
         /\ Bytes(r) \in Seq(0..255) /\ Len(Bytes(r)) = Len(r.body) + 2
         /\ Bytes(r)[1] = r.cmd /\ Bytes(r)[2] = Len(r.body)
         /\ \A i \in 1..Len(r.body) : Bytes(r)[i + 2] = r.body[i]
<1>1. r.cmd \in 0..255 /\ r.body \in Seq(0..255) /\ Len(r.body) < 256
  BY ControlAssumption
<1>2. Len(r.body) \in Nat
  BY <1>1, LenProperties
<1>3. Len(r.body) \in 0..255
  <2>1. \A n \in Nat : n < 256 => n \in 0..255
    OBVIOUS
  <2> QED BY <1>1, <1>2, <2>1
<1> DEFINE head == <<r.cmd, Len(r.body)>>
<1>4. head \in Seq(0..255) /\ Len(head) = 2 /\ head[1] = r.cmd /\ head[2] = Len(r.body)
  BY <1>1, <1>3, PairInSeq
<1> HIDE DEF head
<1> DEFINE l == Len(r.body)
           t == r.body
<1>5. t \in Seq(0..255) /\ Len(t) = l /\ l \in Nat
  BY <1>1, <1>2
<1> HIDE DEF l, t
<1>6. /\ head \o t \in Seq(0..255) /\ Len(head \o t) = 2 + l
      /\ \A i \in 1..2 : (head \o t)[i] = head[i]
      /\ \A j \in 1..l : (head \o t)[2 + j] = t[j]
  <2>1. /\ head \o t \in Seq(0..255)
        /\ Len(head \o t) = Len(head) + Len(t)
        /\ \A i \in 1..Len(head) : (head \o t)[i] = head[i]
        /\ \A j \in 1..Len(t) : (head \o t)[Len(head) + j] = t[j]
    <3>1. head \in Seq(0..255) /\ t \in Seq(0..255)
      BY <1>4, <1>5
    <3>2. head \o t \in Seq(0..255) /\ Len(head \o t) = Len(head) + Len(t)
      BY <3>1, JoinFacts
    <3>3. \A i \in 1..Len(head) : (head \o t)[i] = head[i]
      BY <3>1, JoinFacts
    <3>4. \A j \in 1..Len(t) : (head \o t)[Len(head) + j] = t[j]
      BY <3>1, JoinFacts
    <3> QED BY <3>2, <3>3, <3>4
  <2> QED BY <1>4, <1>5, <2>1
<1>7. /\ Len(head \o t) = l + 2 /\ \A i \in 1..l : (head \o t)[i + 2] = t[i]
      /\ (head \o t)[1] = head[1] /\ (head \o t)[2] = head[2]
  <2>1. \A i \in 1..l : i + 2 = 2 + i
    BY <1>5
  <2>2. 1 \in 1..2 /\ 2 \in 1..2 /\ l + 2 = 2 + l
    BY <1>5
  <2> QED BY <1>6, <2>1, <2>2
<1>8. Bytes(r) = head \o t
  BY DEF Bytes, head, t
<1> QED BY <1>1, <1>2, <1>4, <1>6, <1>7, <1>8 DEF l, t

LEMMA FramedNothing == Framed(<< >>)
BY DEF Framed

(* A command comes after what is there.                                     *)
LEMMA FramedSend ==
  ASSUME TextCommands, NEW w \in Seq(0..255), Framed(w), NEW r \in Commands, r.body # << >>
  PROVE  Framed(w \o Bytes(r))
<1> DEFINE n == Len(w)
           b == Bytes(r)
           l == Len(r.body)
           u == w \o b
<1>1. /\ n \in Nat /\ l \in Nat /\ l > 0 /\ b \in Seq(0..255) /\ Len(b) = l + 2
      /\ b[1] = r.cmd /\ b[2] = l
      /\ \A i \in 1..l : b[i + 2] = r.body[i]
  <2>1. l # 0
    BY BytesFacts, EmptySeq
  <2> QED BY <2>1, BytesFacts, LenProperties
<1>2. \A i \in 1..l : r.body[i] \notin Codes
  BY DEF TextCommands
<1>3. /\ Len(u) = n + l + 2
      /\ \A i \in 1..n : u[i] = w[i]
      /\ \A j \in 1..(l + 2) : u[n + j] = b[j]
  <2>1. n = Len(w) /\ Len(b) = l + 2
    BY <1>1
  <2> HIDE DEF n, b, l
  <2>2. /\ Len(w \o b) = n + (l + 2)
        /\ \A i \in 1..n : (w \o b)[i] = w[i]
        /\ \A j \in 1..(l + 2) : (w \o b)[n + j] = b[j]
    <3>1. /\ Len(w \o b) = Len(w) + Len(b)
          /\ \A i \in 1..Len(w) : (w \o b)[i] = w[i]
          /\ \A j \in 1..Len(b) : (w \o b)[Len(w) + j] = b[j]
      <4>1. Len(w \o b) = Len(w) + Len(b)
        BY <1>1, JoinFacts
      <4>2. \A i \in 1..Len(w) : (w \o b)[i] = w[i]
        BY <1>1, JoinFacts
      <4>3. \A j \in 1..Len(b) : (w \o b)[Len(w) + j] = b[j]
        BY <1>1, JoinFacts
      <4> QED BY <4>1, <4>2, <4>3
    <3> QED BY <2>1, <3>1
  <2>3. n + (l + 2) = n + l + 2
    BY <1>1
  <2> QED BY <2>2, <2>3
<1>4. /\ \A i \in 1..n : w[i] = CMD_REGISTER => \E q \in Commands : StandsAt(w, i, q)
      /\ \A i \in 1..(n - 1) : w[i + 1] = CMD_REGISTER => w[i] \notin Codes
      /\ n > 0 => w[n] \notin Codes
  BY DEF Framed
<1> HIDE DEF u, b, l, n
<1>5. CMD_REGISTER = 0
  BY DEF CMD_REGISTER
<1>6. \A j \in 2..(l + 2) : b[j] # CMD_REGISTER
  <2>1. ASSUME NEW j \in 3..(l + 2) PROVE b[j] # CMD_REGISTER
    <3>1. j - 2 \in 1..l /\ (j - 2) + 2 = j
      BY <1>1
    <3>2. b[j] = r.body[j - 2]
      BY <1>1, <3>1
    <3> QED BY <1>2, <3>1, <3>2 DEF Codes
  <2>2. b[2] # CMD_REGISTER
    BY <1>1, <1>5
  <2>3. \A j \in 2..(l + 2) : j = 2 \/ j \in 3..(l + 2)
    BY <1>1
  <2> QED BY <2>1, <2>2, <2>3
<1>7. ASSUME NEW i \in 1..Len(u), u[i] = CMD_REGISTER
      PROVE  \E q \in Commands : StandsAt(u, i, q)
  <2>1. CASE i \in 1..n
    <3>1. PICK q \in Commands : StandsAt(w, i, q)
      BY <1>3, <1>4, <1>7, <2>1
    <3>2. Len(q.body) \in Nat
      BY BytesFacts
    <3>3. i + 1 + Len(q.body) <= Len(u)
      <4> DEFINE m == Len(q.body)
      <4>1. m \in Nat /\ i + 1 + m <= n
        BY <3>1, <3>2 DEF StandsAt, n
      <4> HIDE DEF m
      <4>2. i + 1 + m <= n + l + 2
        BY <1>1, <2>1, <4>1
      <4> QED BY <1>3, <4>2 DEF m
    <3>4. \A j \in 1..(Len(q.body) + 2) : i + j - 1 \in 1..n
      <4> DEFINE m == Len(q.body)
      <4>1. m \in Nat /\ i + 1 + m <= n
        BY <3>1, <3>2 DEF StandsAt, n
      <4> HIDE DEF m
      <4>2. \A j \in 1..(m + 2) : i + j - 1 \in 1..n
        BY <1>1, <2>1, <4>1
      <4> QED BY <4>2 DEF m
    <3>5. \A j \in 1..(Len(q.body) + 2) : u[i + j - 1] = Bytes(q)[j]
      BY <1>3, <3>1, <3>4 DEF StandsAt
    <3>6. StandsAt(u, i, q)
      BY <3>1, <3>3, <3>5 DEF StandsAt
    <3> QED BY <3>6
  <2>2. CASE i \notin 1..n
    <3>1. i - n \in 1..(l + 2) /\ n + (i - n) = i
      BY <1>1, <1>3, <2>2
    <3>2. b[i - n] = CMD_REGISTER
      BY <1>3, <1>7, <3>1
    <3>3. i = n + 1
      <4>1. i - n \notin 2..(l + 2)
        BY <1>6, <3>2
      <4> QED BY <1>1, <3>1, <4>1
    <3>4. i + 1 + l <= Len(u)
      BY <1>1, <1>3, <3>3
    <3>5. \A j \in 1..(l + 2) : i + j - 1 = n + j
      BY <1>1, <3>3
    <3>6. \A j \in 1..(l + 2) : u[i + j - 1] = b[j]
      BY <1>3, <3>5
    <3>7. StandsAt(u, i, r)
      BY <1>1, <3>4, <3>6 DEF StandsAt, l, b
    <3> QED BY <3>7
  <2> QED BY <2>1, <2>2
<1>8. ASSUME NEW i \in 1..(Len(u) - 1), u[i + 1] = CMD_REGISTER
      PROVE  u[i] \notin Codes
  <2>1. CASE i \in 1..(n - 1)
    <3>1. i \in 1..n /\ i + 1 \in 1..n
      BY <1>1, <2>1
    <3> QED BY <1>3, <1>4, <1>8, <2>1, <3>1
  <2>2. CASE i = n
    <3>1. i \in 1..n /\ n > 0
      BY <1>1, <2>2
    <3> QED BY <1>3, <1>4, <2>2, <3>1
  <2>3. CASE i > n
    <3>1. i + 1 - n \in 2..(l + 2) /\ n + (i + 1 - n) = i + 1
      BY <1>1, <1>3, <2>3
    <3>2. u[i + 1] = b[i + 1 - n]
      <4>1. i + 1 - n \in 1..(l + 2)
        BY <3>1
      <4> QED BY <1>3, <3>1, <4>1
    <3> QED BY <1>6, <1>8, <3>1, <3>2
  <2>4. i \in 1..(n - 1) \/ i = n \/ i > n
    BY <1>1, <1>3
  <2> QED BY <2>1, <2>2, <2>3, <2>4
<1>9. u[Len(u)] \notin Codes
  <2>1. Len(u) = n + (l + 2) /\ l + 2 \in 1..(l + 2) /\ l \in 1..l
    BY <1>1, <1>3
  <2>2. u[Len(u)] = b[l + 2] /\ b[l + 2] = r.body[l]
    BY <1>1, <1>3, <2>1
  <2> QED BY <1>2, <2>1, <2>2
<1>10. Framed(u)
  BY <1>7, <1>8, <1>9 DEF Framed
<1> QED BY <1>10 DEF u, b

(* A read takes the beginning away.                                         *)
LEMMA FramedRest ==
  ASSUME NEW w \in Seq(0..255), Framed(w), NEW k \in 1..Len(w)
  PROVE  Framed(SubSeq(w, k + 1, Len(w)))
<1> DEFINE n == Len(w)
           u == SubSeq(w, k + 1, n)
<1>1. n \in Nat /\ k \in 1..n
  BY LenProperties
<1>2. Len(u) = n - k /\ \A i \in 1..(n - k) : u[i] = w[k + i]
  <2>1. \A i \in (k + 1)..n : w[i] \in 0..255
    BY <1>1, ElementOfSeq
  <2>2. k + 1 \in 1..(n + 1)
    BY <1>1
  <2>3. /\ Len(u) = IF k + 1 <= n THEN n - (k + 1) + 1 ELSE 0
        /\ \A i \in 1..(n - (k + 1) + 1) : u[i] = w[(k + 1) + i - 1]
    BY <1>1, <2>1, <2>2, SubSeqProperties
  <2>4. \A i \in 1..(n - k) : i \in 1..(n - (k + 1) + 1) /\ (k + 1) + i - 1 = k + i
    BY <1>1
  <2> HIDE DEF u
  <2> QED BY <1>1, <2>3, <2>4
<1>3. /\ \A i \in 1..n : w[i] = CMD_REGISTER => \E q \in Commands : StandsAt(w, i, q)
      /\ \A i \in 1..(n - 1) : w[i + 1] = CMD_REGISTER => w[i] \notin Codes
      /\ n > 0 => w[n] \notin Codes
  BY DEF Framed
<1> HIDE DEF u, n
<1>4. ASSUME NEW i \in 1..Len(u), u[i] = CMD_REGISTER
      PROVE  \E q \in Commands : StandsAt(u, i, q)
  <2>1. i \in 1..(n - k) /\ k + i \in 1..n
    BY <1>1, <1>2
  <2>2. PICK q \in Commands : StandsAt(w, k + i, q)
    BY <1>2, <1>3, <1>4, <2>1
  <2>3. Len(q.body) \in Nat
    BY BytesFacts
  <2>4. k + i + 1 + Len(q.body) <= n
    BY <2>2 DEF StandsAt, n
  <2> DEFINE m == Len(q.body)
  <2> HIDE DEF m
  <2>8. m \in Nat /\ k + i + 1 + m <= n
    BY <2>3, <2>4 DEF m
  <2>9. i + 1 + m <= Len(u)
    BY <1>1, <1>2, <2>1, <2>8
  <2>5. i + 1 + Len(q.body) <= Len(u)
    BY <2>9 DEF m
  <2>6. ASSUME NEW j \in 1..(Len(q.body) + 2) PROVE u[i + j - 1] = Bytes(q)[j]
    <3>3. j \in 1..(m + 2)
      BY DEF m
    <3>1. i + j - 1 \in 1..(n - k) /\ k + (i + j - 1) = (k + i) + j - 1
      BY <1>1, <2>1, <2>8, <3>3
    <3>2. u[i + j - 1] = w[(k + i) + j - 1]
      BY <1>2, <3>1
    <3> QED BY <2>2, <3>2 DEF StandsAt
  <2>7. StandsAt(u, i, q)
    BY <2>2, <2>5, <2>6 DEF StandsAt
  <2> QED BY <2>7
<1>5. ASSUME NEW i \in 1..(Len(u) - 1), u[i + 1] = CMD_REGISTER
      PROVE  u[i] \notin Codes
  <2>1. i \in 1..(n - k) /\ i + 1 \in 1..(n - k) /\ k + i \in 1..(n - 1) /\ k + (i + 1) = (k + i) + 1
    BY <1>1, <1>2
  <2>2. u[i + 1] = w[(k + i) + 1] /\ u[i] = w[k + i]
    BY <1>2, <2>1
  <2> QED BY <1>3, <1>5, <2>1, <2>2
<1>6. ASSUME Len(u) > 0 PROVE u[Len(u)] \notin Codes
  <2>1. Len(u) \in 1..(n - k) /\ k + Len(u) = n /\ n > 0
    BY <1>1, <1>2, <1>6
  <2>2. u[Len(u)] = w[n]
    BY <1>2, <2>1
  <2> QED BY <1>3, <2>1, <2>2
<1>7. Framed(u)
  BY <1>4, <1>5, <1>6 DEF Framed
<1> QED BY <1>7 DEF u, n

LEMMA BytesAreNumbers ==
  ASSUME NEW s \in Seq(0..255)
  PROVE  s \in Seq(Nat)
<1>1. 0..255 \subseteq Nat
  OBVIOUS
<1> QED BY <1>1, SeqMonotonic

LEMMA MessageFacts ==
  ASSUME Inv, NEW c \in Conns, NEW k \in 1..Len(wire[c])
  PROVE  /\ wire[c] \in Seq(0..255) /\ Len(wire[c]) \in Nat
         /\ Message(c, k) \in Seq(Nat) /\ Len(Message(c, k)) = k
         /\ \A i \in 1..k : Message(c, k)[i] = wire[c][i]
<1> DEFINE w == wire[c]
           m == Message(c, k)
<1>1. w \in Seq(0..255) /\ Len(w) \in Nat /\ w \in Seq(Nat)
  <2>1. w \in Seq(0..255)
    BY DEF Inv, TypeOK
  <2> QED BY <2>1, LenProperties, BytesAreNumbers
<1>2. k \in 1..Len(w) /\ 1 \in 1..(Len(w) + 1) /\ k \in 0..Len(w)
  BY <1>1
<1>3. /\ m \in Seq(Nat) /\ Len(m) = IF 1 <= k THEN k - 1 + 1 ELSE 0
      /\ \A i \in 1..(k - 1 + 1) : m[i] = w[1 + i - 1]
  BY <1>1, <1>2, PartFacts DEF Message
<1>4. k - 1 + 1 = k /\ \A i \in 1..k : 1 + i - 1 = i
  BY <1>2
<1> HIDE DEF m
<1>5. m \in Seq(Nat) /\ Len(m) = k /\ \A i \in 1..k : m[i] = w[i]
  BY <1>2, <1>3, <1>4
<1> QED BY <1>1, <1>5 DEF m

(* What a well-formed message is in such a stream: no empty command...      *)
LEMMA NotEmpty ==
  ASSUME Inv, NEW c \in Conns, NEW k \in 1..Len(wire[c]), Framed(wire[c]),
         WellFormed(Message(c, k)), Message(c, k)[1] \in Codes
  PROVE  Message(c, k)[2] # 0
<1> DEFINE w == wire[c]
           m == Message(c, k)
<1>1. Len(w) \in Nat /\ k \in 1..Len(w)
  BY MessageFacts
<1>2. m \in Seq(Nat) /\ Len(m) = k /\ \A i \in 1..k : m[i] = w[i]
  BY MessageFacts
<1>3. /\ \A i \in 1..(Len(w) - 1) : w[i + 1] = CMD_REGISTER => w[i] \notin Codes
      /\ m[1] \in Codes /\ (Len(m) = 2 \/ (Len(m) > 2 /\ m[2] = Len(m) - 2))
  BY DEF Framed, WellFormed
<1> HIDE DEF w, m
<1>4. CASE k = 2
  <2>1. 1 \in 1..(Len(w) - 1) /\ 1 + 1 = 2 /\ 1 \in 1..k /\ 2 \in 1..k
    BY <1>1, <1>4
  <2>2. w[2] = CMD_REGISTER => w[1] \notin Codes
    BY <1>3, <2>1
  <2>3. m[2] # CMD_REGISTER
    BY <1>2, <1>3, <2>1, <2>2
  <2> QED BY <2>3 DEF m, CMD_REGISTER
<1>5. CASE k # 2
  <2>1. k > 2 /\ m[2] = k - 2
    BY <1>1, <1>2, <1>3, <1>5
  <2> QED BY <1>1, <2>1 DEF m
<1> QED BY <1>4, <1>5

(* ...and a registration is one that was sent, or the head of one.          *)
LEMMA RegistrationRead ==
  ASSUME Inv, NEW c \in Conns, NEW k \in 1..Len(wire[c]), Framed(wire[c]),
         WellFormed(Message(c, k)), Message(c, k)[1] = CMD_REGISTER
  PROVE  \/ k < Len(wire[c]) /\ SubSeq(Message(c, k), 3, k) = << >>
         \/ \E r \in Registrations : SubSeq(Message(c, k), 3, k) = r.body
<1> DEFINE w == wire[c]
           m == Message(c, k)
           p == SubSeq(m, 3, k)
<1>1. Len(w) \in Nat /\ k \in 1..Len(w)
  BY MessageFacts
<1>2. m \in Seq(Nat) /\ Len(m) = k /\ \A i \in 1..k : m[i] = w[i]
  BY MessageFacts
<1>3. /\ w[1] = CMD_REGISTER => \E r \in Commands : StandsAt(w, 1, r)
      /\ m[1] = CMD_REGISTER /\ (Len(m) = 2 \/ (Len(m) > 2 /\ m[2] = Len(m) - 2))
  <2>1. 1 \in 1..Len(w)
    BY <1>1
  <2> QED BY <2>1 DEF Framed, WellFormed
<1> HIDE DEF w, m
<1>4. k >= 2 /\ m[1] = w[1] /\ m[2] = w[2]
  <2>1. k >= 2
    BY <1>2, <1>3
  <2>2. 1 \in 1..k /\ 2 \in 1..k
    BY <1>1, <2>1
  <2> QED BY <1>2, <2>1, <2>2
<1>5. PICK r \in Commands : StandsAt(w, 1, r)
  BY <1>3, <1>4
<1> DEFINE l == Len(r.body)
           t == r.body
<1>6. /\ l \in Nat /\ l > 0 /\ t \in Seq(0..255) /\ Len(t) = l /\ l + 2 <= Len(w)
      /\ Bytes(r)[1] = r.cmd /\ Bytes(r)[2] = l
      /\ \A i \in 1..l : Bytes(r)[i + 2] = t[i]
  <2>1. l \in Nat /\ l > 0 /\ 1 + 1 + l <= Len(w)
    BY <1>5, BytesFacts DEF StandsAt
  <2> HIDE DEF l
  <2>2. l + 2 <= Len(w)
    BY <1>1, <2>1
  <2> QED BY <2>1, <2>2, BytesFacts DEF l
<1>7. \A j \in 1..(l + 2) : w[j] = Bytes(r)[j]
  <2>1. \A j \in 1..(l + 2) : w[1 + j - 1] = Bytes(r)[j]
    BY <1>5 DEF StandsAt
  <2> HIDE DEF l
  <2>2. \A j \in 1..(l + 2) : 1 + j - 1 = j
    BY <1>6
  <2> QED BY <2>1, <2>2
<1> HIDE DEF l, t
<1>8. r.cmd = CMD_REGISTER /\ w[2] = l
  <2>1. 1 \in 1..(l + 2) /\ 2 \in 1..(l + 2)
    BY <1>6
  <2> QED BY <1>3, <1>4, <1>6, <1>7, <2>1
<1>9. CASE k = 2
  <2>1. k < Len(w)
    BY <1>1, <1>6, <1>9
  <2>2. 3 \in 1..(Len(m) + 1) /\ k \in 0..Len(m) /\ ~(3 <= k)
    BY <1>2, <1>9
  <2>3. p \in Seq(Nat) /\ Len(p) = 0
    BY <1>2, <2>2, PartFacts
  <2>4. p = << >>
    BY <2>3, EmptyFacts
  <2> QED BY <2>1, <2>4 DEF w, m
<1>10. CASE k # 2
  <2>1. k = l + 2 /\ k > 2
    BY <1>1, <1>2, <1>3, <1>4, <1>6, <1>8, <1>10
  <2>2. 3 \in 1..(Len(m) + 1) /\ k \in 0..Len(m) /\ 3 <= k /\ k - 3 + 1 = l
    <3>1. 3 \in 1..(k + 1) /\ k \in 0..k /\ 3 <= k /\ k - 3 + 1 = l
      BY <1>6, <2>1
    <3> QED BY <1>2, <3>1
  <2>3. p \in Seq(Nat) /\ Len(p) = l /\ \A i \in 1..l : p[i] = m[3 + i - 1]
    <3>1. /\ p \in Seq(Nat) /\ Len(p) = IF 3 <= k THEN k - 3 + 1 ELSE 0
          /\ \A i \in 1..(k - 3 + 1) : p[i] = m[3 + i - 1]
      BY <1>2, <2>2, PartFacts
    <3> HIDE DEF p
    <3> QED BY <2>2, <3>1
  <2> HIDE DEF p
  <2>4. ASSUME NEW i \in 1..Len(p) PROVE p[i] = t[i]
    <3>1. i \in 1..l /\ 3 + i - 1 = i + 2 /\ i + 2 \in 1..k /\ i + 2 \in 1..(l + 2)
      BY <1>6, <2>1, <2>3
    <3>2. p[i] = m[i + 2] /\ m[i + 2] = w[i + 2] /\ w[i + 2] = Bytes(r)[i + 2]
      BY <1>2, <1>7, <2>3, <3>1
    <3> QED BY <1>6, <3>1, <3>2
  <2>5. t \in Seq(Nat)
    BY <1>6, BytesAreNumbers
  <2>6. p = t
    BY <1>6, <2>3, <2>4, <2>5, SeqEqual
  <2>7. r \in Registrations
    BY <1>8 DEF Registrations
  <2> QED BY <2>6, <2>7 DEF p, t, m
<1> QED BY <1>9, <1>10

(* The name a registration gives, whole or not.                             *)
LEMMA NameRead ==
  ASSUME TextCommands, Inv, NEW c \in Conns, NEW k \in 1..Len(wire[c]), Framed(wire[c]),
         WellFormed(Message(c, k)), Message(c, k)[1] = CMD_REGISTER
  PROVE  \/ Name(c, k) = << >> /\ k < Len(wire[c])
         \/ Name(c, k) \in Names /\ Name(c, k) # << >>
<1> DEFINE p == SubSeq(Message(c, k), 3, k)
           q == [body |-> p]
<1>1. app_name \in Keys
  BY ControlAssumption
<1>2. p \in Seq(Nat) => Name(c, k) = Says(q, app_name)
  <2>1. q.body = p
    OBVIOUS
  <2> QED BY <1>1, <2>1, ParsedAsMeant DEF Name, Fields
<1>3. CASE k < Len(wire[c]) /\ p = << >>
  <2>1. p \in Seq(Nat)
    BY <1>3, EmptySeq
  <2>2. q.body = << >> /\ Len(<< >>) = 0
    BY <1>3, EmptySeq
  <2>3. FieldsOf(CString(q.body)) = {}
    <3> HIDE DEF q
    <3>1. << >> \in Seq(Nat) /\ Find(NUL, << >>) \in 0..Len(<< >>)
      BY FindFacts, EmptySeq
    <3>2. CString(<< >>) = << >>
      BY <2>2, <3>1 DEF CString
    <3> QED BY <2>2, <3>2 DEF FieldsOf
  <2>4. Says(q, app_name) = << >>
    BY <2>3 DEF Says
  <2> QED BY <1>2, <1>3, <2>1, <2>4
<1>4. ASSUME NEW r \in Registrations, p = r.body
      PROVE  Name(c, k) \in Names /\ Name(c, k) # << >>
  <2>1. r \in Commands
    BY DEF Registrations
  <2>2. r.body \in Seq(Nat)
    <3>1. r.body \in Seq(0..255)
      BY <2>1, BytesFacts
    <3> QED BY <3>1, BytesAreNumbers
  <2>3. Name(c, k) = Says(r, app_name)
    BY <1>1, <1>4, <2>2, ParsedAsMeant DEF Name, Fields
  <2> QED BY <2>3 DEF Names, TextCommands
<1> QED BY <1>3, <1>4, RegistrationRead

AllFramed == \A c \in Conns : Framed(wire[c])
Pieces == splits \in Nat /\ (~bodiless => AllFramed /\ NothingFromPieces)

(* Names come from registrations, and the nameless one from a piece.        *)
LEMMA PiecesStep ==
  ASSUME Pieces, splits' \in Nat, splits' >= splits, bodiless => bodiless',
         ~bodiless' => AllFramed',
         server_mode' = server_mode \/ DOMAIN applist' = {},
         end' = end \/ end' # "Msg_parse(NULL)" \/ bodiless',
         ~bodiless' => \A n \in DOMAIN applist' :
           \/ n \in DOMAIN applist
           \/ n \in Names /\ n # << >>
           \/ n = << >> /\ splits' > 0 /\ server_mode' = "CLIENT_MODE"
  PROVE  Pieces'
<1> SUFFICES ASSUME ~bodiless' PROVE NothingFromPieces'
  BY DEF Pieces
<1>1. NothingFromPieces /\ splits \in Nat /\ ~bodiless
  BY DEF Pieces
<1>2. DOMAIN applist' \subseteq Names \cup {<< >>}
  BY <1>1 DEF NothingFromPieces
<1>3. << >> \in DOMAIN applist' => splits' > 0 /\ server_mode' = "CLIENT_MODE"
  <2>1. splits > 0 => splits' > 0
    BY <1>1
  <2> QED BY <1>1, <2>1 DEF NothingFromPieces
<1>4. end' = "Msg_parse(NULL)" => bodiless'
  BY <1>1 DEF NothingFromPieces
<1> QED BY <1>2, <1>3, <1>4 DEF NothingFromPieces

LEMMA ReadsFramed ==
  ASSUME Inv, Pieces, NEW c \in Conns, NEW k \in 1..Len(wire[c]), NEW ret,
         Reads(c, k), Echo(c, k, ret)
  PROVE  /\ splits' \in Nat /\ splits' >= splits /\ (k < Len(wire[c]) => splits' > 0)
         /\ UNCHANGED <<bodiless, server_mode, end>>
         /\ ~bodiless' => AllFramed'
<1>1. splits \in Nat /\ Len(wire[c]) \in Nat
  BY MessageFacts DEF Pieces
<1>2. splits' = splits \/ splits' = splits + 1
  BY DEF Reads
<1>3. k < Len(wire[c]) => splits' = splits + 1
  BY <1>1 DEF Reads
<1>4. UNCHANGED <<bodiless, server_mode, end>>
  BY DEF Echo, progVars
<1>5. ASSUME ~bodiless', NEW d \in Conns PROVE Framed(wire'[d])
  <2>1. \A e \in Conns : Framed(wire[e])
    BY <1>4, <1>5 DEF Pieces, AllFramed
  <2>2. wire' = [wire EXCEPT ![c] = SubSeq(wire[c], k + 1, Len(wire[c]))]
    BY DEF Echo, LeftOver
  <2>3. wire \in [Conns -> Seq(0..255)]
    BY DEF Inv, TypeOK
  <2>4. Framed(SubSeq(wire[c], k + 1, Len(wire[c])))
    BY <2>1, <2>3, FramedRest
  <2>5. CASE d = c
    BY <2>2, <2>3, <2>4, <2>5
  <2>6. CASE d # c
    BY <2>1, <2>2, <2>3, <2>6
  <2> QED BY <2>5, <2>6
<1> QED BY <1>1, <1>2, <1>3, <1>4, <1>5 DEF AllFramed

(* The program ends.                                                        *)
LEMMA ExitPieces ==
  ASSUME Pieces, NEW why, Exit(why), splits' \in Nat, splits' >= splits,
         why # "Msg_parse(NULL)" \/ bodiless
  PROVE  Pieces'
<1>1. bodiless' = bodiless /\ end' = why /\ DOMAIN applist' = {}
  BY DEF Exit, NoApps
<1>2. AllFramed'
  BY FramedNothing DEF Exit, None, AllFramed
<1> QED BY <1>1, <1>2, PiecesStep

LEMMA StartPieces ==
  ASSUME Inv, Pieces, Start
  PROVE  Pieces'
<1>1. CASE LoadLine
  <2>1. UNCHANGED <<wire, applist, bodiless, end, server_mode, splits>>
    BY <1>1 DEF LoadLine, connVars, appVars, historyVars
  <2> QED BY <2>1 DEF Pieces, AllFramed, NothingFromPieces
<1>2. CASE MainServer \/ MainClient
  <2>1. UNCHANGED <<wire, applist, bodiless, end, splits>> /\ service = "load"
    BY <1>2 DEF MainServer, MainClient, Starts, connVars, appVars, historyVars
  <2>2. DOMAIN applist' = {}
    BY <2>1 DEF Inv, TypeOK
  <2>3. splits' \in Nat /\ splits' >= splits /\ (~bodiless' => AllFramed')
    BY <2>1 DEF Pieces, AllFramed
  <2> QED BY <2>1, <2>2, <2>3, PiecesStep
<1>3. CASE MainExits
  <2>1. splits' \in Nat /\ splits' >= splits /\ Exit("main")
    BY <1>3 DEF MainExits, Pieces
  <2> QED BY <2>1, ExitPieces
<1>4. CASE Restart
  <2>1. wire' = None /\ DOMAIN applist' = {} /\ end' = "none" /\ splits' = 0
    BY <1>4 DEF Restart, connVars, appVars, Inv, TypeOK
  <2>2. AllFramed'
    BY <2>1, FramedNothing DEF AllFramed, None
  <2>3. NothingFromPieces'
    BY <2>1 DEF NothingFromPieces
  <2> QED BY <2>1, <2>2, <2>3 DEF Pieces
<1> QED BY <1>1, <1>2, <1>3, <1>4 DEF Start

LEMMA PeerPieces ==
  ASSUME TextCommands, Inv, Pieces, NEW c \in Conns, Peer(c) \/ SockEvent(c)
  PROVE  Pieces'
<1>1. UNCHANGED <<applist, server_mode, end, splits>>
  BY DEF Peer, Accept, Hangup, Send, PeerActs, SockEvent, Frees, progVars, appVars
<1>2. bodiless => bodiless'
  BY DEF Peer, Accept, Hangup, Send, SockEvent, Frees
<1>3. wire \in [Conns -> Seq(0..255)]
  BY DEF Inv, TypeOK
<1>4. ASSUME ~bodiless' PROVE AllFramed'
  <2>1. AllFramed
    BY <1>2, <1>4 DEF Pieces
  <2>2. CASE wire' = wire
    BY <2>1, <2>2 DEF AllFramed
  <2>3. CASE SockEvent(c)
    <3>1. wire' = [wire EXCEPT ![c] = << >>]
      BY <2>3 DEF SockEvent, Frees
    <3> QED BY <1>3, <2>1, <3>1, FramedNothing DEF AllFramed
  <2>4. ASSUME NEW r \in Commands, Send(c, r) PROVE AllFramed'
    <3>1. wire' = [wire EXCEPT ![c] = wire[c] \o Bytes(r)] /\ r.body # << >>
      BY <1>4, <2>4 DEF Send
    <3>2. wire[c] \in Seq(0..255) /\ Framed(wire[c])
      BY <1>3, <2>1 DEF AllFramed
    <3>3. Framed(wire[c] \o Bytes(r))
      BY <3>1, <3>2, FramedSend
    <3> QED BY <1>3, <2>1, <3>1, <3>3 DEF AllFramed
  <2>5. Accept(c) \/ Hangup(c) => wire' = wire
    BY DEF Accept, Hangup, PeerActs
  <2> QED BY <2>2, <2>3, <2>4, <2>5 DEF Peer
<1>5. splits' \in Nat /\ splits' >= splits
  BY <1>1 DEF Pieces
<1> QED BY <1>1, <1>2, <1>4, <1>5, PiecesStep

LEMMA ReadSockPieces ==
  ASSUME TextCommands, Inv, Pieces, NEW c \in Conns, ReadSock(c)
  PROVE  Pieces'
<1>1. PICK k \in 1..Len(wire[c]) :
        \/ Unhandled(c, k) \/ Throws(c, k)
        \/ RegisterClient(c, k) \/ DelectClient(c, k) \/ AddFile(c, k)
        \/ RegisterServer(c, k) \/ DelectServer(c, k)
  BY DEF ReadSock
<1>2. ~bodiless => Framed(wire[c])
  BY DEF Pieces, AllFramed
<1>3. ASSUME NEW ret, Reads(c, k), Echo(c, k, ret),
             ~bodiless => \A n \in DOMAIN applist' :
               \/ n \in DOMAIN applist
               \/ n \in Names /\ n # << >>
               \/ n = << >> /\ k < Len(wire[c]) /\ server_mode = "CLIENT_MODE"
      PROVE  Pieces'
  <2>1. /\ splits' \in Nat /\ splits' >= splits /\ (k < Len(wire[c]) => splits' > 0)
        /\ UNCHANGED <<bodiless, server_mode, end>>
        /\ ~bodiless' => AllFramed'
    BY <1>3, ReadsFramed
  <2> QED BY <1>3, <2>1, PiecesStep
<1>4. CASE Unhandled(c, k)
  <2>1. PICK ret \in {"E_FORMAT", "E_OK"} : Reads(c, k) /\ Echo(c, k, ret)
    BY <1>4 DEF Unhandled
  <2>2. applist' = applist
    BY <1>4 DEF Unhandled, appVars
  <2> QED BY <1>3, <2>1, <2>2
<1>5. CASE Throws(c, k)
  <2>1. bodiless
    <3> SUFFICES ASSUME ~bodiless PROVE FALSE
      OBVIOUS
    <3>1. PICK cmd \in Handled : Requests(c, k, cmd)
      BY <1>5 DEF Throws
    <3>2. Message(c, k)[1] \in Codes /\ WellFormed(Message(c, k))
      BY <3>1 DEF Requests, Handled, Codes
    <3> QED BY <1>2, <1>5, <3>2, NotEmpty DEF Throws
  <2>2. splits' \in Nat /\ splits' >= splits /\ Exit("Msg_parse(NULL)")
    BY <1>5 DEF Throws, Requests, Reads, Pieces
  <2> QED BY <2>1, <2>2, ExitPieces
<1>6. CASE RegisterClient(c, k)
  <2>1. Reads(c, k) /\ WellFormed(Message(c, k)) /\ Message(c, k)[1] = CMD_REGISTER
        /\ server_mode = "CLIENT_MODE"
    BY <1>6 DEF RegisterClient, Command, Requests
  <2>2. PICK ret \in {"E_EXIST", "E_OK"} : Echo(c, k, ret)
    BY <1>6 DEF RegisterClient
  <2>3. DOMAIN applist' \subseteq DOMAIN applist \cup {Name(c, k)}
    BY <1>6 DEF RegisterClient, Entry
  <2>4. ~bodiless => \/ Name(c, k) = << >> /\ k < Len(wire[c])
                     \/ Name(c, k) \in Names /\ Name(c, k) # << >>
    BY <1>2, <2>1, NameRead
  <2> QED BY <1>3, <2>1, <2>2, <2>3, <2>4
<1>7. CASE DelectClient(c, k)
  <2>1. PICK ret \in {"E_NOTFOUND", "E_OK"} : Reads(c, k) /\ Echo(c, k, ret)
    BY <1>7 DEF DelectClient, Command, Requests
  <2>2. DOMAIN applist' \subseteq DOMAIN applist
    BY <1>7 DEF DelectClient, Without
  <2> QED BY <1>3, <2>1, <2>2
<1>8. CASE AddFile(c, k)
  <2>1. PICK ret \in {"E_NOTFOUND", "E_FULL", "E_OK"} : Reads(c, k) /\ Echo(c, k, ret)
    BY <1>8 DEF AddFile, Command, Requests
  <2>2. DOMAIN applist' \subseteq DOMAIN applist
    BY <1>8 DEF AddFile
  <2> QED BY <1>3, <2>1, <2>2
<1>9. CASE RegisterServer(c, k)
  <2>1. Reads(c, k) /\ WellFormed(Message(c, k)) /\ Message(c, k)[1] = CMD_REGISTER
    BY <1>9 DEF RegisterServer, Command, Requests
  <2>2. PICK ret \in {"E_BAD_CMD", "E_EXIST", "E_REGISTER", "E_OK"} : Echo(c, k, ret)
    BY <1>9 DEF RegisterServer
  <2>3. \/ DOMAIN applist' \subseteq DOMAIN applist
        \/ DOMAIN applist' = DOMAIN applist \cup {Name(c, k)} /\ Name(c, k) # << >>
    <3>1. ASSUME NEW n, NEW q, Fork(n, q) PROVE DOMAIN applist' = DOMAIN applist \cup {n}
      BY <3>1 DEF Fork, Entry
    <3>2. \/ applist' = applist
          \/ check_server_add_info(c, k) /\ \E q \in FreePids : Fork(Name(c, k), q)
      BY <1>9 DEF RegisterServer, appVars
    <3>3. check_server_add_info(c, k) => Name(c, k) # << >>
      BY DEF check_server_add_info, TextsGiven
    <3>4. CASE applist' = applist
      BY <3>4
    <3>5. ASSUME NEW q \in FreePids, Fork(Name(c, k), q)
          PROVE  DOMAIN applist' = DOMAIN applist \cup {Name(c, k)}
      BY <3>1, <3>5
    <3> QED BY <3>2, <3>3, <3>4, <3>5
  <2>4. ~bodiless => \/ Name(c, k) = << >>
                     \/ Name(c, k) \in Names /\ Name(c, k) # << >>
    BY <1>2, <2>1, NameRead
  <2> QED BY <1>3, <2>1, <2>2, <2>3, <2>4
<1>10. CASE DelectServer(c, k)
  <2>1. PICK ret \in {"E_BAD_CMD", "E_NOTFOUND", "E_OK"} : Reads(c, k) /\ Echo(c, k, ret)
    BY <1>10 DEF DelectServer, Command, Requests
  <2>2. DOMAIN applist' \subseteq DOMAIN applist
    BY <1>10 DEF DelectServer, Without, appVars
  <2> QED BY <1>3, <2>1, <2>2
<1> QED BY <1>1, <1>4, <1>5, <1>6, <1>7, <1>8, <1>9, <1>10

LEMMA PiecesNext == TextCommands /\ Inv /\ Pieces /\ [Next]_vars => Pieces'
<1> SUFFICES ASSUME TextCommands, Inv, Pieces, [Next]_vars PROVE Pieces'
  OBVIOUS
<1>1. CASE AcceptErr
  <2>1. splits' \in Nat /\ splits' >= splits /\ Exit("acceptErr")
    BY <1>1 DEF AcceptErr, Pieces
  <2> QED BY <2>1, ExitPieces
<1>2. ASSUME UNCHANGED <<wire, bodiless, end, server_mode, splits>>,
             DOMAIN applist' \subseteq DOMAIN applist
      PROVE  Pieces'
  <2>1. splits' \in Nat /\ splits' >= splits /\ (~bodiless' => AllFramed')
    BY <1>2 DEF Pieces, AllFramed
  <2> QED BY <1>2, <2>1, PiecesStep
<1>3. ASSUME NEW n \in DOMAIN applist, FileThread(n) PROVE Pieces'
  BY <1>2, <1>3 DEF FileThread, OpenFile, SkipFile, Takes, FileSent, ThreadActs,
     progVars, connVars, historyVars
<1>4. ASSUME NEW p \in DOMAIN sudps, SudpEnds(p) PROVE Pieces'
  BY <1>2, <1>4 DEF SudpEnds, Without, progVars, connVars, historyVars
<1>5. CASE UNCHANGED vars
  BY <1>2, <1>5 DEF vars, progVars, connVars, appVars, historyVars
<1> QED BY <1>1, <1>3, <1>4, <1>5, StartPieces, PeerPieces, ReadSockPieces DEF Next

(* As long as every command has had a body, pieces of commands register     *)
(* nothing but the nameless application of a client, whatever the texts say *)
(* and wherever TCP cuts or joins them; and only a command without a body   *)
(* ends the program (handler_msg_c, proxy_client.cpp 65-75,                 *)
(* proxy_server.cpp 94-107).                                                *)
THEOREM PiecesRegisterNothing ==
  ASSUME TextCommands
  PROVE  Spec => []NothingFromPieces
<1>1. Init => Pieces
  <2> SUFFICES ASSUME Init PROVE Pieces
    OBVIOUS
  <2>1. splits = 0 /\ wire = None /\ DOMAIN applist = {} /\ end = "none"
    BY DEF Init, NoApps
  <2>2. AllFramed
    BY <2>1, FramedNothing DEF AllFramed, None
  <2>3. NothingFromPieces
    BY <2>1 DEF NothingFromPieces
  <2> QED BY <2>1, <2>2, <2>3 DEF Pieces
<1>2. Inv /\ Pieces /\ [Next]_vars => Pieces'
  BY PiecesNext
<1>3. Pieces => NothingFromPieces
  BY DEF Pieces, NothingFromPieces
<1> QED BY <1>1, <1>2, <1>3, ControlInv, PTL DEF Spec

-----------------------------------------------------------------------------
(* One connection with a peer, one command on it, and no old ERANGE while   *)
(* that command has not been answered.                                      *)
Calm ==
  \A c \in Conns :
    /\ wire[c] = IF asked[c] = << >> THEN << >> ELSE Bytes(asked[c][1])
    /\ Len(asked[c]) <= 1
    /\ asked[c] # << >> => conn[c] = "used"
    /\ conn[c] = "open" \/ asked[c] # << >> => errno = "0"
    /\ \A d \in Conns : Peers(c) /\ Peers(d) => c = d
Limited ==
  server_mode = "CLIENT_MODE" =>
    \A n \in DOMAIN applist : <<n, applist[n].max_count>> \in Limits
Scripts == (service # "up" => asked = None) /\ (scripted => Calm /\ Limited)

(* A command that is read whole is all there is.                            *)
LEMMA WholeRead ==
  ASSUME Inv, Calm, NEW c \in Conns, NEW k \in 1..Len(wire[c]), Whole(c, k)
  PROVE  /\ asked[c] # << >> /\ LeftOver(c, k) = << >> /\ Tail(asked[c]) = << >>
         /\ asked[c][1] \in Commands /\ Message(c, k)[1] = asked[c][1].cmd
         /\ SubSeq(Message(c, k), 3, k) = asked[c][1].body
<1> DEFINE r == asked[c][1]
           w == wire[c]
           m == Message(c, k)
           l == Len(r.body)
           t == r.body
           p == SubSeq(m, 3, k)
<1>1. asked[c] # << >> /\ m = Bytes(r) /\ w = Bytes(r)
  BY DEF Whole, Calm
<1>2. asked[c] \in Seq(Commands) /\ Len(asked[c]) \in Nat /\ Len(asked[c]) = 1
  <2>1. asked[c] \in Seq(Commands) /\ Len(asked[c]) <= 1
    BY DEF Inv, TypeOK, Calm
  <2>2. Len(asked[c]) \in Nat /\ Len(asked[c]) # 0
    BY <1>1, <2>1, EmptyFacts
  <2>3. \A n \in Nat : n # 0 /\ n <= 1 => n = 1
    OBVIOUS
  <2> QED BY <2>1, <2>2, <2>3
<1>3. r \in Commands
  <2>1. 1 \in 1..Len(asked[c])
    BY <1>2
  <2> QED BY <1>2, <2>1, ElementOfSeq
<1>4. /\ l \in Nat /\ t \in Seq(0..255) /\ Len(t) = l
      /\ Len(Bytes(r)) = l + 2 /\ Bytes(r)[1] = r.cmd
      /\ \A i \in 1..l : Bytes(r)[i + 2] = t[i]
  BY <1>3, BytesFacts
<1>5. w \in Seq(0..255) /\ m \in Seq(Nat) /\ Len(m) = k
  BY MessageFacts
<1>6. Tail(asked[c]) = << >>
  <2>1. Tail(asked[c]) \in Seq(Commands) /\ Len(Tail(asked[c])) = Len(asked[c]) - 1
    BY <1>1, <1>2, HeadTailProperties
  <2>2. Len(Tail(asked[c])) = 0
    BY <1>2, <2>1
  <2> QED BY <2>1, <2>2, EmptyFacts
<1> HIDE DEF r, w, m, l, t
<1>7. k = l + 2 /\ Len(w) = k
  BY <1>1, <1>4, <1>5
<1>8. SubSeq(w, k + 1, k) = << >>
  <2>1. w \in Seq(Nat)
    BY <1>5, BytesAreNumbers
  <2>2. k + 1 \in 1..(Len(w) + 1) /\ k \in 0..Len(w) /\ ~(k + 1 <= k)
    BY <1>4, <1>7
  <2>3. SubSeq(w, k + 1, k) \in Seq(Nat) /\ Len(SubSeq(w, k + 1, k)) = 0
    BY <2>1, <2>2, PartFacts
  <2> QED BY <2>3, EmptyFacts
<1>9. p = t
  <2>1. 3 \in 1..(k + 1) /\ k \in 0..k /\ k - 3 + 1 = l /\ (3 <= k <=> l # 0)
    BY <1>4, <1>7
  <2>2. /\ p \in Seq(Nat) /\ Len(p) = IF 3 <= k THEN k - 3 + 1 ELSE 0
        /\ \A i \in 1..(k - 3 + 1) : p[i] = m[3 + i - 1]
    BY <1>5, <2>1, PartFacts
  <2> HIDE DEF p
  <2>3. Len(p) = l /\ \A i \in 1..l : p[i] = m[3 + i - 1]
    BY <2>1, <2>2
  <2>4. ASSUME NEW i \in 1..Len(p) PROVE p[i] = t[i]
    <3>1. i \in 1..l /\ 3 + i - 1 = i + 2
      BY <1>4, <2>3
    <3> QED BY <1>1, <1>4, <2>3, <3>1
  <2>5. t \in Seq(Nat)
    BY <1>4, BytesAreNumbers
  <2> QED BY <1>4, <2>2, <2>3, <2>4, <2>5, SeqEqual
<1>10. SubSeq(w, k + 1, Len(w)) = << >>
  BY <1>7, <1>8
<1>11. m[1] = r.cmd
  BY <1>1, <1>4
<1> QED BY <1>1, <1>3, <1>6, <1>9, <1>10, <1>11 DEF LeftOver, r, w, m, t, p

(* Answering it leaves nothing, whatever becomes of errno.                  *)
LEMMA EchoCalm ==
  ASSUME Inv, Calm, NEW c \in Conns, NEW k \in 1..Len(wire[c]), NEW ret, Echo(c, k, ret),
         Whole(c, k)
  PROVE  Calm'
<1>1. asked[c] # << >> /\ LeftOver(c, k) = << >> /\ Tail(asked[c]) = << >>
  BY WholeRead
<1>2. /\ wire' = [wire EXCEPT ![c] = << >>] /\ asked' = [asked EXCEPT ![c] = << >>]
      /\ conn' = conn
  BY <1>1 DEF Echo
<1>3. ASSUME NEW d \in Conns
      PROVE  wire'[d] = << >> /\ asked'[d] = << >> /\ conn'[d] # "open"
  <2>1. conn[c] = "used" /\ Peers(c)
    BY <1>1 DEF Calm, Peers
  <2>2. CASE d = c
    BY <1>2, <2>1, <2>2 DEF Inv, TypeOK
  <2>3. CASE d # c
    <3>1. ~Peers(d)
      BY <2>1, <2>3 DEF Calm
    <3>2. asked[d] = << >> /\ conn[d] # "open"
      BY <3>1 DEF Calm, Peers
    <3>3. wire[d] = << >>
      BY <3>2 DEF Calm
    <3> QED BY <1>2, <2>3, <3>2, <3>3 DEF Inv, TypeOK
  <2> QED BY <2>2, <2>3
<1>4. Len(<< >>) = 0 /\ 0 <= 1
  BY EmptySeq
<1>5. \A a, b \in Conns : Peers(a)' /\ Peers(b)' => a = b
  BY <1>2 DEF Peers, Calm
<1> QED BY <1>3, <1>4, <1>5 DEF Calm

(* The limit of a new application is the one its registration says.         *)
LEMMA LimitSaid ==
  ASSUME ScriptCommands, Inv, Calm, NEW c \in Conns, NEW k \in 1..Len(wire[c]), Whole(c, k),
         Message(c, k)[1] = CMD_REGISTER
  PROVE  <<Name(c, k), Limit(c, k)>> \in Limits
<1> DEFINE r == asked[c][1]
<1>1. /\ asked[c] # << >> /\ r \in Commands /\ r.cmd = CMD_REGISTER
      /\ Fields(c, k) = CONF_prase_line(r.body)
  BY WholeRead DEF Fields
<1>2. r \in Registrations /\ errno = "0"
  BY <1>1 DEF Registrations, Calm
<1>3. r.body \in Seq(Nat)
  <2>1. r.body \in Seq(0..255)
    BY <1>1, BytesFacts
  <2> QED BY <2>1, BytesAreNumbers
<1> HIDE DEF r
<1>4. app_name \in Keys /\ server_port \in Keys /\ max_file \in Keys
  BY ControlAssumption
<1>5. /\ Name(c, k) = Says(r, app_name)
      /\ CONF_get_string(Fields(c, k), server_port) = Says(r, server_port)
      /\ CONF_get_string(Fields(c, k), max_file) = Says(r, max_file)
      /\ max_file \in DOMAIN Fields(c, k) \/ Says(r, max_file) = << >>
  BY <1>1, <1>3, <1>4, ParsedAsMeant DEF Name
<1>6. AfterPort(c, k) = "0"
  BY <1>2, <1>5 DEF AfterPort, Errno, ScriptCommands
<1>7. Limit(c, k) = SaysNumber(r, max_file)
  <2>1. Says(r, max_file) \in DOMAIN Numerals \cup Oversized
    BY <1>2 DEF ScriptCommands
  <2>2. max_file \in DOMAIN Fields(c, k)
    BY <1>5, <2>1, NumeralsAssumption
  <2>3. Fields(c, k)[max_file] = Says(r, max_file)
    BY <1>5, <2>2 DEF CONF_get_string
  <2>4. CASE Says(r, max_file) \in Oversized
    <3>1. Says(r, max_file) \notin DOMAIN Numerals
      BY <2>4, NumeralsAssumption
    <3> QED BY <1>5, <2>4, <3>1 DEF Limit, CONF_get_number, Errno, SaysNumber
  <2>5. CASE Says(r, max_file) \notin Oversized
    <3>1. Errno(Fields(c, k), max_file, "0") = "0"
      BY <1>5, <2>5 DEF Errno
    <3> QED BY <1>6, <2>1, <2>2, <2>3, <2>5, <3>1 DEF Limit, CONF_get_number, SaysNumber
  <2> QED BY <2>4, <2>5
<1> QED BY <1>2, <1>5, <1>7 DEF Limits

LEMMA ExitScripts ==
  ASSUME NEW why, Exit(why)
  PROVE  Scripts'
<1>1. conn' = [c \in Conns |-> "none"] /\ wire' = None /\ asked' = None /\ applist' = NoApps
  BY DEF Exit
<1> QED BY <1>1, EmptySeq DEF Scripts, Calm, Limited, Peers, None, NoApps

LEMMA StartScripts ==
  ASSUME Inv, Scripts, Start
  PROVE  Scripts'
<1>1. CASE LoadLine
  <2>1. UNCHANGED <<service, wire, asked, conn, errno, server_mode, applist, scripted>>
    BY <1>1 DEF LoadLine, connVars, appVars, historyVars
  <2> QED BY <2>1 DEF Scripts, Calm, Limited, Peers
<1>2. CASE MainServer \/ MainClient
  <2>1. /\ UNCHANGED <<wire, asked, conn, applist, scripted>>
        /\ service = "load" /\ service' = "up"
    BY <1>2 DEF MainServer, MainClient, Starts, connVars, appVars, historyVars
  <2>2. DOMAIN applist' = {} /\ \A c \in Conns : conn[c] = "none"
    BY <2>1 DEF Inv, TypeOK, Placed
  <2>3. ASSUME scripted' PROVE Calm'
    <3>1. Calm
      BY <2>1, <2>3 DEF Scripts
    <3>2. \A c \in Conns : asked[c] = << >> /\ conn[c] # "open"
      BY <2>2, <3>1 DEF Calm
    <3> QED BY <2>1, <3>1, <3>2 DEF Calm, Peers
  <2> QED BY <2>1, <2>2, <2>3 DEF Scripts, Limited
<1>3. CASE MainExits
  BY <1>3, ExitScripts DEF MainExits
<1>4. CASE Restart
  <2>1. /\ UNCHANGED <<wire, asked, conn>> /\ service = "ended" /\ wire = None
        /\ server_mode' = "none"
    BY <1>4 DEF Restart, connVars, appVars, Inv, TypeOK
  <2>2. asked = None /\ \A c \in Conns : conn[c] = "none"
    BY <2>1 DEF Scripts, Inv, Placed
  <2> QED BY <2>1, <2>2, EmptySeq DEF Scripts, Calm, Limited, Peers, None
<1> QED BY <1>1, <1>2, <1>3, <1>4 DEF Start

(* A command comes on a connection that has just opened, alone.             *)
LEMMA SendScripts ==
  ASSUME Inv, Scripts, NEW c \in Conns, NEW r \in Commands, Send(c, r)
  PROVE  Scripts'
<1>1. /\ UNCHANGED <<service, errno, server_mode, applist>> /\ Peers(c) /\ service = "up"
      /\ scripted' => scripted /\ conn[c] = "open"
      /\ conn' = [conn EXCEPT ![c] = "used"]
      /\ wire' = [wire EXCEPT ![c] = wire[c] \o Bytes(r)]
      /\ asked' = [asked EXCEPT ![c] = Append(asked[c], r)]
  BY DEF Send, PeerActs, progVars, appVars, Inv, Placed, Peers
<1>2. ASSUME scripted' PROVE Calm'
  <2>1. Calm /\ conn[c] = "open"
    BY <1>1, <1>2 DEF Scripts
  <2>2. asked[c] = << >> /\ wire[c] = << >> /\ errno = "0"
    BY <2>1 DEF Calm
  <2>3. \A d \in Conns \ {c} : ~Peers(d)
    BY <1>1, <2>1 DEF Calm
  <2>4. /\ Append(<< >>, r) \in Seq(Commands) /\ Len(Append(<< >>, r)) = 1
        /\ Append(<< >>, r)[1] = r /\ Append(<< >>, r) # << >>
    <3>1. << >> \in Seq(Commands) /\ Len(<< >>) = 0
      BY EmptySeq
    <3>2. /\ Append(<< >>, r) \in Seq(Commands) /\ Len(Append(<< >>, r)) = 0 + 1
          /\ Append(<< >>, r)[0 + 1] = r
      BY <3>1, AppendFacts
    <3>3. Append(<< >>, r) # << >>
      BY <3>1, <3>2
    <3> QED BY <3>2, <3>3
  <2>5. << >> \o Bytes(r) = Bytes(r)
    BY BytesFacts, ConcatEmptySeq
  <2>6. /\ wire'[c] = Bytes(r) /\ asked'[c] = Append(<< >>, r) /\ conn'[c] = "used"
        /\ \A d \in Conns \ {c} :
             wire'[d] = wire[d] /\ asked'[d] = asked[d] /\ conn'[d] = conn[d]
    BY <1>1, <2>2, <2>5 DEF Inv, TypeOK
  <2>7. \A d \in Conns \ {c} : ~Peers(d)'
    BY <2>3, <2>6 DEF Peers
  <2>8. ASSUME NEW d \in Conns
        PROVE  /\ wire'[d] = IF asked'[d] = << >> THEN << >> ELSE Bytes(asked'[d][1])
               /\ Len(asked'[d]) <= 1
               /\ asked'[d] # << >> => conn'[d] = "used"
               /\ errno' = "0"
    <3>1. CASE d = c
      BY <1>1, <2>2, <2>4, <2>6, <3>1
    <3>2. CASE d # c
      BY <1>1, <2>1, <2>2, <2>6, <3>2 DEF Calm
    <3> QED BY <3>1, <3>2
  <2> QED BY <2>7, <2>8 DEF Calm
<1>3. scripted' => Limited'
  BY <1>1 DEF Scripts, Limited
<1> QED BY <1>1, <1>2, <1>3 DEF Scripts

LEMMA PeerScripts ==
  ASSUME Inv, Scripts, NEW c \in Conns, Accept(c) \/ Hangup(c) \/ SockEvent(c)
  PROVE  Scripts'
<1>1. /\ UNCHANGED <<service, server_mode, applist>> /\ service = "up"
      /\ scripted' => scripted
  BY DEF Accept, Hangup, PeerActs, SockEvent, Frees, progVars, appVars, Inv, Placed, Peers
<1>2. scripted' => Limited'
  BY <1>1 DEF Scripts, Limited
<1>3. ASSUME scripted', Accept(c) PROVE Calm'
  <2>1. /\ Calm /\ \A d \in Conns : ~Peers(d)
        /\ conn' = [conn EXCEPT ![c] = "open"] /\ UNCHANGED <<wire, asked>> /\ errno' = "0"
    BY <1>1, <1>3 DEF Accept, AfterAccepts, Scripts
  <2>2. \A d \in Conns : asked[d] = << >>
    BY <2>1 DEF Calm, Peers
  <2>3. \A d \in Conns \ {c} : ~Peers(d)'
    BY <2>1 DEF Peers, Inv, TypeOK
  <2> QED BY <2>1, <2>2, <2>3 DEF Calm
<1>4. ASSUME scripted', Hangup(c) PROVE Calm'
  <2>1. /\ Calm /\ asked[c] = << >> /\ conn' = [conn EXCEPT ![c] = "closed"]
        /\ UNCHANGED <<wire, asked, errno>>
    BY <1>1, <1>4 DEF Hangup, PeerActs, Scripts
  <2>2. \A d \in Conns : conn'[d] = IF d = c THEN "closed" ELSE conn[d]
    BY <2>1 DEF Inv, TypeOK
  <2>3. \A d \in Conns : Peers(d)' => Peers(d)
    BY <2>2 DEF Peers
  <2> QED BY <2>1, <2>2, <2>3 DEF Calm
<1>5. ASSUME scripted', SockEvent(c) PROVE Calm'
  <2>1. /\ Calm /\ asked[c] = << >> /\ conn' = [conn EXCEPT ![c] = "none"]
        /\ wire' = [wire EXCEPT ![c] = << >>] /\ asked' = [asked EXCEPT ![c] = << >>]
        /\ errno' = errno \/ errno' = "0"
    BY <1>1, <1>5 DEF SockEvent, Frees, Scripts
  <2>2. \A d \in Conns : conn'[d] = IF d = c THEN "none" ELSE conn[d]
    BY <2>1 DEF Inv, TypeOK
  <2>3. \A d \in Conns : Peers(d)' => Peers(d)
    BY <2>2 DEF Peers
  <2>4. \A d \in Conns : wire'[d] = wire[d] /\ asked'[d] = asked[d]
    <3>1. wire[c] = << >>
      BY <2>1 DEF Calm
    <3> QED BY <2>1, <3>1 DEF Inv, TypeOK
  <2> QED BY <2>1, <2>2, <2>3, <2>4 DEF Calm
<1> QED BY <1>1, <1>2, <1>3, <1>4, <1>5 DEF Scripts

LEMMA ReadSockScripts ==
  ASSUME ScriptCommands, Inv, Scripts, NEW c \in Conns, ReadSock(c)
  PROVE  Scripts'
<1>1. PICK k \in 1..Len(wire[c]) :
        \/ Unhandled(c, k) \/ Throws(c, k)
        \/ RegisterClient(c, k) \/ DelectClient(c, k) \/ AddFile(c, k)
        \/ RegisterServer(c, k) \/ DelectServer(c, k)
  BY DEF ReadSock
<1>2. ASSUME NEW ret, Reads(c, k), Echo(c, k, ret),
             Calm /\ Whole(c, k) /\ server_mode = "CLIENT_MODE" =>
               \A n \in DOMAIN applist' :
                 \/ n \in DOMAIN applist /\ applist'[n].max_count = applist[n].max_count
                 \/ <<n, applist'[n].max_count>> \in Limits
      PROVE  Scripts'
  <2>1. service' = "up" /\ server_mode' = server_mode /\ (scripted' => scripted /\ Whole(c, k))
    BY <1>2 DEF Reads, Echo, progVars
  <2>2. ASSUME scripted' PROVE Calm' /\ Limited'
    <3>1. Calm /\ Limited /\ Whole(c, k)
      BY <2>1, <2>2 DEF Scripts
    <3>2. Calm'
      BY <1>2, <3>1, EchoCalm
    <3> QED BY <1>2, <2>1, <3>1, <3>2 DEF Limited
  <2> QED BY <2>1, <2>2 DEF Scripts
<1>3. CASE Throws(c, k)
  BY <1>3, ExitScripts DEF Throws
<1>4. CASE Unhandled(c, k)
  <2>1. PICK ret \in {"E_FORMAT", "E_OK"} : Reads(c, k) /\ Echo(c, k, ret)
    BY <1>4 DEF Unhandled
  <2>2. applist' = applist
    BY <1>4 DEF Unhandled, appVars
  <2> QED BY <1>2, <2>1, <2>2
<1>5. CASE RegisterClient(c, k)
  <2>1. Reads(c, k) /\ Message(c, k)[1] = CMD_REGISTER
    BY <1>5 DEF RegisterClient, Command, Requests
  <2>2. PICK ret \in {"E_EXIST", "E_OK"} : Echo(c, k, ret)
    BY <1>5 DEF RegisterClient
  <2>3. CASE applist' = applist
    BY <1>2, <2>1, <2>2, <2>3
  <2>4. CASE Entry(Name(c, k), Limit(c, k), fds < MaxFd, 0)
    <3>1. DOMAIN applist' = DOMAIN applist \cup {Name(c, k)}
      BY <2>4 DEF Entry
    <3>2. \A n \in DOMAIN applist \ {Name(c, k)} : applist'[n] = applist[n]
      BY <2>4 DEF Entry
    <3>3. applist'[Name(c, k)].max_count = Limit(c, k)
      BY <2>4 DEF Entry
    <3>4. Calm /\ Whole(c, k) => <<Name(c, k), Limit(c, k)>> \in Limits
      BY <2>1, LimitSaid
    <3>5. Calm /\ Whole(c, k) =>
            \A n \in DOMAIN applist' :
              \/ n \in DOMAIN applist /\ applist'[n].max_count = applist[n].max_count
              \/ <<n, applist'[n].max_count>> \in Limits
      BY <3>1, <3>2, <3>3, <3>4
    <3> QED BY <1>2, <2>1, <2>2, <3>5
  <2> QED BY <1>5, <2>3, <2>4 DEF RegisterClient
<1>6. CASE DelectClient(c, k)
  <2>1. PICK ret \in {"E_NOTFOUND", "E_OK"} : Reads(c, k) /\ Echo(c, k, ret)
    BY <1>6 DEF DelectClient, Command, Requests
  <2>2. \A n \in DOMAIN applist' : n \in DOMAIN applist /\ applist'[n] = applist[n]
    BY <1>6 DEF DelectClient, Without
  <2> QED BY <1>2, <2>1, <2>2
<1>7. CASE AddFile(c, k)
  <2>1. PICK ret \in {"E_NOTFOUND", "E_FULL", "E_OK"} : Reads(c, k) /\ Echo(c, k, ret)
    BY <1>7 DEF AddFile, Command, Requests
  <2>2. ASSUME NEW n \in DOMAIN applist'
        PROVE  n \in DOMAIN applist /\ applist'[n].max_count = applist[n].max_count
    <3>1. CASE applist' = applist
      BY <3>1
    <3>2. CASE applist' = [applist EXCEPT ![Name(c, k)].files = applist[Name(c, k)].files + 1]
      <4>1. n \in DOMAIN applist /\ applist[n] \in Applications
        BY <3>2 DEF Inv, TypeOK
      <4> QED BY <3>2, <4>1 DEF Applications
    <3> QED BY <1>7, <3>1, <3>2 DEF AddFile
  <2> QED BY <1>2, <2>1, <2>2
<1>8. CASE RegisterServer(c, k) \/ DelectServer(c, k)
  <2>1. Reads(c, k) /\ server_mode = "SERVER_MODE"
    BY <1>8 DEF RegisterServer, DelectServer, Command, Requests
  <2>2. PICK ret : Echo(c, k, ret)
    BY <1>8 DEF RegisterServer, DelectServer
  <2> QED BY <1>2, <2>1, <2>2
<1> QED BY <1>1, <1>3, <1>4, <1>5, <1>6, <1>7, <1>8

LEMMA ScriptsNext == ScriptCommands /\ Inv /\ Scripts /\ [Next]_vars => Scripts'
<1> SUFFICES ASSUME ScriptCommands, Inv, Scripts, [Next]_vars PROVE Scripts'
  OBVIOUS
<1>1. CASE AcceptErr
  BY <1>1, ExitScripts DEF AcceptErr
<1>2. ASSUME UNCHANGED <<service, wire, asked, conn, errno, server_mode, scripted>>,
             \A n \in DOMAIN applist' :
               n \in DOMAIN applist /\ applist'[n].max_count = applist[n].max_count
      PROVE  Scripts'
  <2>1. scripted' => Calm'
    BY <1>2 DEF Scripts, Calm, Peers
  <2>2. scripted' => Limited'
    BY <1>2 DEF Scripts, Limited
  <2> QED BY <1>2, <2>1, <2>2 DEF Scripts
<1>3. ASSUME NEW n \in DOMAIN applist, FileThread(n) PROVE Scripts'
  <2>1. ThreadActs /\ UNCHANGED <<service, wire, asked, conn, errno, server_mode, scripted>>
    BY <1>3 DEF FileThread, OpenFile, SkipFile, Takes, FileSent, ThreadActs, progVars,
                connVars, historyVars
  <2>2. \E files, opened : applist' = [applist EXCEPT ![n].files = files, ![n].open = opened]
    <3>1. CASE OpenFile(n) \/ SkipFile(n)
      BY <3>1 DEF OpenFile, SkipFile, Takes
    <3>2. CASE FileSent(n)
      <4>1. applist[n] \in Applications
        BY DEF Inv, TypeOK
      <4>2. applist' = [applist EXCEPT ![n].files = applist[n].files, ![n].open = FALSE]
        BY <3>2, <4>1 DEF FileSent, Applications
      <4> QED BY <4>2
    <3> QED BY <1>3, <3>1, <3>2 DEF FileThread
  <2>3. ASSUME NEW m \in DOMAIN applist'
        PROVE  m \in DOMAIN applist /\ applist'[m].max_count = applist[m].max_count
    <3>1. PICK files, opened :
            applist' = [applist EXCEPT ![n].files = files, ![n].open = opened]
      BY <2>2
    <3>2. m \in DOMAIN applist /\ applist[m] \in Applications
      BY <3>1 DEF Inv, TypeOK
    <3>3. CASE m # n
      BY <3>1, <3>2, <3>3
    <3>4. CASE m = n
      <4>1. applist'[n] = [applist[n] EXCEPT !.files = files, !.open = opened]
        BY <3>1
      <4> QED BY <3>2, <3>4, <4>1 DEF Applications
    <3> QED BY <3>2, <3>3, <3>4
  <2> QED BY <1>2, <2>1, <2>3
<1>4. ASSUME NEW p \in DOMAIN sudps, SudpEnds(p) PROVE Scripts'
  <2>1. UNCHANGED <<service, wire, asked, conn, errno, server_mode, scripted>>
    BY <1>4 DEF SudpEnds, progVars, connVars, historyVars
  <2>2. \A n \in DOMAIN applist' : n \in DOMAIN applist /\ applist'[n] = applist[n]
    BY <1>4 DEF SudpEnds, Without
  <2> QED BY <1>2, <2>1, <2>2
<1>5. CASE UNCHANGED vars
  BY <1>2, <1>5 DEF vars, progVars, connVars, appVars, historyVars
<1> QED BY <1>1, <1>3, <1>4, <1>5, StartScripts, SendScripts, PeerScripts, ReadSockScripts
    DEF Next, Peer

(* Scripts that send one command on one connection at a time get what they  *)
(* ask for, for any commands whose numbers are numerals, of any size, and   *)
(* whatever connections, reads and applications there are: a number that    *)
(* was too big leaves no ERANGE behind for the next registration            *)
(* (CONF_get_number, config.cpp 270-280).                                   *)
THEOREM ScriptsAreServed ==
  ASSUME ScriptCommands
  PROVE  Spec => []ServesScripts
<1>1. Init => Scripts
  <2> SUFFICES ASSUME Init PROVE Scripts
    OBVIOUS
  <2>1. /\ wire = None /\ asked = None /\ DOMAIN applist = {}
        /\ conn = [c \in Conns |-> "none"]
    BY DEF Init, NoApps
  <2> QED BY <2>1, EmptySeq DEF Scripts, Calm, Limited, Peers, None
<1>2. Inv /\ Scripts /\ [Next]_vars => Scripts'
  BY ScriptsNext
<1>3. Scripts => ServesScripts
  BY DEF Scripts, Calm, Limited, ServesScripts
<1> QED BY <1>1, <1>2, <1>3, ControlInv, PTL DEF Spec

=============================================================================
