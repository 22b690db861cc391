SPECIFICATION BrokerFairSpec
CONSTANTS
  Ids = {i1, i2}
  Names = {n1}
  p1 = p1
  p2 = p2
  Specs = {p1}
  MaxSandboxes <- OneCap
  Callers = {c1, c2}
  Nil = Nil
  Faults = {"docker", "cancel", "crash"}
INVARIANT PendingExact
PROPERTY RequestAdvances RequestsFinish
