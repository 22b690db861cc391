SPECIFICATION Spec
CONSTANTS
  s1 = s1
  s2 = s2
  s3 = s3
  t1 = t1
  t2 = t2
  Routes = {r1, r2}
  Tokens = {t1, t2}
  Strings = {s1, s2, s3}
  TokenOf <- Spelt
  Requests = {q1, q2}
  TTLs <- AskedTTLs
  DefaultTTL = 1
  MaxTTL = 2
  MaxTime = 3
  Nil = Nil
SYMMETRY Symmetry
INVARIANTS CarriedToOwnRoute RevokeHolds
