\* Three descriptors for two connections, an application's socket and the file it
\* sends, so that each can be the one too many; two commands under way, one of which
\* may be read in two pieces.
SPECIFICATION Spec
CONSTANTS
  Keys <- MCKeys
  Numerals <- MCNumerals
  Oversized <- MCOversized
  mode <- MCmode
  manager_ip <- MCmanager_ip
  manager_port <- MCmanager_port
  max_speed <- MCmax_speed
  app_name <- MCapp_name
  server_port <- MCserver_port
  max_file <- MCmax_file
  dir1 <- MCdir1
  CLIENT <- MCCLIENT
  SERVER <- MCSERVER
  Config <- MCConfig
  Commands <- MCCommands
  Conns = {c1, c2}
  MaxFd = 3
  MaxAhead = 2
  MaxSplits = 1
  MaxPid = 2
INVARIANTS TypeOK NothingFromPieces ServesScripts DescriptorsAccounted NoOrphans
PROPERTIES SettingsAsMeant
SYMMETRY Symmetry
