-------------------------- MODULE MCControlChannel ---------------------------
(* Keys, values and lines over a small alphabet.  A line of every length up *)
(* to five, over two letters of a key, a value, =, # and a space, is tried  *)
(* as the last line of the configuration.                                   *)
EXTENDS ControlChannel

A == 97  B == 98  C == 99  M == 109  N == 110  O == 111  P == 112  S == 115  X == 120
ONE == 49  NINE == 57

MCmode == <<M, O>>
MCmanager_ip == <<M, X>>
MCmanager_port == <<M, P>>
MCmax_speed == <<M, X, S>>
MCapp_name == <<A, N>>
MCserver_port == <<S, P>>
MCmax_file == <<M, A>>
MCdir1 == <<P, A>>
MCKeys == {MCmode, MCmanager_ip, MCmanager_port, MCmax_speed, MCapp_name, MCserver_port,
           MCmax_file, MCdir1}
MCCLIENT == <<C>>
MCSERVER == <<S>>
MCNumerals == [t \in {<<ONE>>} |-> 1]
MCOversized == {<<NINE>>}

Eq(key, value) == key \o <<EQUALS>> \o value
Address == <<Eq(MCmanager_ip, <<X>>), Eq(MCmanager_port, <<ONE>>)>>
MCConfig ==
  {Address \o <<Eq(MCmax_speed, <<ONE>>), Eq(MCmode, MCCLIENT), line>> :
     line \in BoundedSeq({M, O, S, EQUALS, HASH, SPACE}, 5)}
  \cup {<<Eq(MCmode, MCCLIENT)>>, Address}

Is(c, fields) == [cmd |-> c, body |-> fields]
MCCommands ==
  LET and(f, g) == f \o <<COMMA>> \o g
      nameA == Eq(MCapp_name, <<A>>)
      forServer == and(Eq(MCserver_port, <<ONE>>), Eq(MCdir1, <<X>>))
      A1 == and(nameA, and(forServer, Eq(MCmax_file, <<ONE>>)))
      B9 == and(Eq(MCmax_file, <<NINE>>), Eq(MCapp_name, <<B, B>>))
  IN {Is(CMD_REGISTER, A1), Is(CMD_REGISTER, B9), Is(CMD_ADD_FILE, nameA),
      Is(CMD_DELECT, nameA), Is(CMD_DELECT, << >>)}

(* These commands meet the hypotheses of the theorems about commands.       *)
ASSUME CommandsAssumption == TextCommands /\ ScriptCommands

Symmetry == Permutations(Conns)

=============================================================================
