SPECIFICATION Spec
CONSTANTS
  c1 = c1
  c2 = c2
  Callers = {c1, c2}
  Plans <- StartPlan
  Pids = {p1, p2}
  NoPid = NoPid
  Chunks = 1
  Hole = Hole
  Absent = Absent
  Faults = {}
INVARIANT ConcurrentStartsOnce
