SPECIFICATION Spec
CONSTANTS
  Files <- AllFiles
  Reloads <- OtherFiles
  Requests <- OneOption
  Timeouts <- AskedTimeouts
  Names = {"a", "b", "c"}
  Auths = {x, y}
  MiB = 4
  Width = 64
  DefaultMemoryBytes = 8
  DefaultDiskBytes = 4
  DefaultMaxProcesses = 2
  DefaultIdleTimeout = 3
  DefaultMaxAge = 6
  DefaultCommandTimeout = 2
  MaxCommandTimeout = 5
  DefaultReapInterval = 1
  Nil = Nil
INVARIANTS LifetimeBounded ResourcesBounded CommandsBounded
  LoginCommon ReportedInForce
\* A refused profile ends the daemon.
CHECK_DEADLOCK FALSE
