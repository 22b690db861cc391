SPECIFICATION Spec
CONSTANTS
  Ids = {i1, i2, i3}
  Names = {n1}
  Specs = {s1}
  Callers = {c1, c2}
  Nil = Nil
  Faults = {}
PROPERTY CreateSparesRunning
