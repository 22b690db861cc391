SPECIFICATION LiveSpec
CONSTANTS
  Ids = {i1, i2, i3}
  Names = {n1}
  Specs = {s1}
  Callers = {c1, c2}
  Nil = Nil
  Faults = {"docker", "cancel", "crash"}
SYMMETRY Symmetry
INVARIANTS TypeOK OneSandboxPerName CreateReturnsLive
PROPERTIES NoResurrection ImplementsRegistry
