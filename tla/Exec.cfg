SPECIFICATION FairSpec
CONSTANTS
  Faults = {"docker", "disk", "forge"}
INVARIANTS KilledForGood RecordFindable StoppedIsDeath ResultIsOwn
PROPERTIES ExecAdvances ExecReturns
\* The call and the sandbox end.
CHECK_DEADLOCK FALSE
