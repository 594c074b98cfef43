SPECIFICATION StorageSpec
CONSTANTS
  Procs = {p1, p2}
  NoProc = NoProc
  MaxBoots = 2
  MaxFaults = 2
  Loop = Loop
  Worker = Worker
  Api = Api
  Daemon = Daemon
  Server = Server
  Writers = {Loop, Worker, Api}
  JournalOf <- SomeThreads
  Objects = {Daemon, Server}
  Keepers = {Worker}
  MaxLines = 2
  Kept = 2
  KeepAll = TRUE
  Every = 2
  MaxAppends = 6
  MaxPasses = 1
  MaxDeaths = 1
INVARIANTS
  UpMeansMigrated
  SeededOnce
  OverridesKept
  LinesKept
PROPERTIES
  FailuresHeal
CHECK_DEADLOCK FALSE
