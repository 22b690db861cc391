SPECIFICATION Spec
CONSTANTS
  Faults = {}
INVARIANTS TimeoutKillsGroup
\* The call and the sandbox end.
CHECK_DEADLOCK FALSE
