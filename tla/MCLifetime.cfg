SPECIFICATION FairSpec
CONSTANTS
  Ids = {i1}
  Users = {u1, u2}
  Reapers = {r1}
  Lifetimes <- AllLifetimes
  Nil = Nil
  LastCreate = 1
  MaxTime = 4
  Faults = {"docker", "crash"}
PROPERTIES MaxAgeEnforced ReapsOnlyOverdue
