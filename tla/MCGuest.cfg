SPECIFICATION FairSpec
CONSTANTS
  c1 = c1
  c2 = c2
  Callers = {c1, c2}
  Plans <- PairPlans
  Pids = {p1, p2}
  NoPid = NoPid
  Chunks = 2
  Hole = Hole
  Absent = Absent
  Faults = {"docker", "cancel", "timeout", "full", "kill"}
INVARIANTS SerialStartsOnce TransferWhole 
PROPERTIES RemoteAgrees CallAdvances CallsFinish
