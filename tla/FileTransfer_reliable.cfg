\* A backlog of files over a network that loses nothing.
SPECIFICATION ReliableSpec
CONSTANTS
  Names <- MCNames
  Packs <- MCLongPacks
  Name <- MCName
  Stream <- MCLongStream
  Workers = {w1, w2}
  JobCap = 2
  MQCap = 3
  Modes = {"stay", "rename", "copy"}
  Paced = FALSE
  MaxFaults = 0
INVARIANTS TypeOK FinishedWhole FinishedInOrder
PROPERTIES Delivers
