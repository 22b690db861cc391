SPECIFICATION FairSpec
CONSTANTS
  Listeners = {"unix", "tls"}
  Streams = {k1}
  MaxSent = 1
  MaxMade = 2
INVARIANTS ExitsUnlinked FailureReported NothingLost StreamOutlivesDial StreamHasRelay
PROPERTIES DaemonExits DialReturns RelayEnds
\* The process ends.
CHECK_DEADLOCK FALSE
