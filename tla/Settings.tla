------------------------------ MODULE Settings -------------------------------
(***************************************************************************)
(* key=value texts and the numbers in them (config.cpp): the lines of the  *)
(* configuration file and, between commas, the fields of a command.  A     *)
(* text is the sequence of its bytes.  A table of settings (m_section) is  *)
(* a function from keys to values, here with the keys the program asks for *)
(* and no other.                                                           *)
(***************************************************************************)
EXTENDS Integers, Sequences, SequencesExt

CONSTANTS
  Keys,        \* the keys the program asks for
  Numerals,    \* the numerals among the values: a function from text to Int
  Oversized    \* the numerals no long can hold

NUL == 0
TAB == 9
SPACE == 32
HASH == 35     \* COMMENT_CHAR
COMMA == 44
EQUALS == 61

(* Two characters at least: mode, max_file, app_name...                     *)
ASSUME KeysAssumption ==
  \A key \in Keys :
    key \in Seq(Nat) /\ Len(key) >= 2 /\ \A i \in DOMAIN key : key[i] # HASH
(* A numeral has a digit, and a long holds it or does not.                  *)
ASSUME NumeralsAssumption ==
  /\ \A t \in DOMAIN Numerals : Numerals[t] \in Int
  /\ Oversized \cap DOMAIN Numerals = {} /\ << >> \notin Oversized \cup DOMAIN Numerals

(* std::string::find, counting from 1; 0 when there is none.                *)
Find(c, str) ==
  LET at == {i \in DOMAIN str : str[i] = c} IN IF at = {} THEN 0 ELSE Min(at)

IsSpace(c) == c \in {TAB, SPACE}

Trim(str) ==
  LET ink == {i \in DOMAIN str : ~IsSpace(str[i])}
  IN IF ink = {} THEN << >> ELSE SubSeq(str, Min(ink), Max(ink))

(* end_pos + 1: how much of the line comes before the comment               *)
End(line) == IF Find(HASH, line) = 0 THEN Len(line) ELSE Find(HASH, line) - 1

(* `substr(0, 1 - end_pos)', where a negative length is a huge one: what is *)
(* kept is the whole line, its comment included, unless two characters or   *)
(* fewer come before the comment.                                           *)
Kept(line) == IF End(line) > 2 THEN line ELSE SubSeq(line, 1, 2 - End(line))

NoSetting == [key |-> << >>, value |-> << >>]

(* Mutation ValueToTheEnd: the value is not cut at the comment.             *)
ValueToTheEnd(line, pos) == SubSeq(Kept(line), pos + 1, Len(Kept(line)))

(* `substr(pos + 1, end_pos + 1 - (pos + 1))', negative when the = is in the *)
(* comment.                                                                 *)
Value(line, pos) ==
  SubSeq(Kept(line), pos + 1, IF pos <= End(line) THEN End(line) ELSE Len(Kept(line)))

AnalyseLine(line) ==
  LET pos == Find(EQUALS, Kept(line))
      key == Trim(SubSeq(Kept(line), 1, pos - 1))
  IN IF End(line) = 0 \/ pos = 0 \/ key = << >>
     THEN NoSetting
     ELSE [key |-> key, value |-> Trim(Value(line, pos))]

NoSettings == [key \in {} |-> << >>]

(* m_section[key] = value, for the keys somebody asks for                   *)
Put(table, s) ==
  IF s.key \notin Keys THEN table
  ELSE [key \in DOMAIN table \cup {s.key} |-> IF key = s.key THEN s.value ELSE table[key]]

(* split adds a comma to the text; a field is what comes before a comma and *)
(* after the one before it.                                                 *)
Ends(str) == {i \in DOMAIN str : str[i] = COMMA}
Field(str, i) ==
  LET before == {j \in 1..(i - 1) : str[j] = COMMA}
  IN SubSeq(str, IF before = {} THEN 1 ELSE Max(before) + 1, i - 1)

(* A std::string made from a C string: the text ends at its first NUL.      *)
CString(data) ==
  IF Find(NUL, data) = 0 THEN data ELSE SubSeq(data, 1, Find(NUL, data) - 1)

(* CONF_prase_line sets each field, the last one last: it overrides.        *)
CONF_prase_line(data) ==
  LET str == Append(CString(data), COMMA)
  IN MapThenFoldSet(LAMBDA i, table : Put(table, AnalyseLine(Field(str, i))), NoSettings,
                    LAMBDA i : i, Max, Ends(str))

CONF_get_string(table, key) == IF key \in DOMAIN table THEN table[key] ELSE << >>

(* atoi leaves errno alone, or makes it ERANGE; nothing here makes it       *)
(* EINVAL.                                                                  *)
Errno(table, key, errno) ==
  IF CONF_get_string(table, key) \in Oversized THEN "ERANGE" ELSE errno

(* errno is not cleared before atoi: an old error counts.                   *)
CONF_get_number(table, key, errno) ==
  IF key \notin DOMAIN table \/ Errno(table, key, errno) \in {"ERANGE", "EINVAL"} THEN -1
  ELSE IF table[key] \in DOMAIN Numerals THEN Numerals[table[key]] ELSE 0

-----------------------------------------------------------------------------
(* What a line means: the part before the comment is a key, the first =,    *)
(* and a value, with spaces around each that do not count.                  *)
Meant(line) ==
  LET text == SubSeq(line, 1, End(line))
      pos == Find(EQUALS, text)
  IN IF pos = 0 THEN NoSetting
     ELSE [key |-> Trim(SubSeq(text, 1, pos - 1)),
           value |-> Trim(SubSeq(text, pos + 1, Len(text)))]

=============================================================================
