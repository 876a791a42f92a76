\* A backlog of files over a network that loses one datagram.
SPECIFICATION FaultySpec
CONSTANTS
  Names <- MCNames
  Packs <- MCLongPacks
  Name <- MCName
  Stream <- MCLongStream
  Workers = {w1}
  JobCap = 1
  MQCap = 2
  Modes = {"stay", "rename", "copy"}
  Paced = FALSE
  MaxFaults = 1
INVARIANTS FinishedWhole
