\* One file at a time, with one fault.
SPECIFICATION FaultySpec
CONSTANTS
  Names <- MCNames
  Packs <- MCLongPacks
  Name <- MCName
  Stream <- MCLongStream
  Workers = {w1, w2}
  JobCap = 1
  MQCap = 2
  Modes = {"stay", "rename", "copy"}
  Paced = TRUE
  MaxFaults = 1
INVARIANTS FinishedWhole
PROPERTIES NotifyOnlyWhole EachNotifiedOnce
