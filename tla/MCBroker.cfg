SPECIFICATION BrokerSpec
CONSTANTS
  Ids = {i1, i2, i3}
  Names = {n1, n2, n3}
  p1 = p1
  p2 = p2
  Specs = {p1, p2}
  MaxSandboxes <- Caps
  Callers = {c1, c2}
  Nil = Nil
  Faults = {}
SYMMETRY Symmetry
INVARIANTS PolicyMatch CapOvershootBounded
