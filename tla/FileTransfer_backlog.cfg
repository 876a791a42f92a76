\* What the application is told when files arrive back to back.
SPECIFICATION ReliableSpec
CONSTANTS
  Names <- MCNames
  Packs <- MCPacks
  Name <- MCName
  Stream <- MCStream
  Workers = {w1}
  JobCap = 1
  MQCap = 2
  Modes = {"stay", "rename", "copy"}
  Paced = FALSE
  MaxFaults = 0
PROPERTIES NotifyOnlyWhole
