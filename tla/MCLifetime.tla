----------------------------- MODULE MCLifetime -----------------------------
EXTENDS Lifetime

\* Both bounds, each one alone, and neither.
AllLifetimes ==
  {[idle |-> 1, maxAge |-> 2], [idle |-> 1, maxAge |-> -1], [idle |-> -1, maxAge |-> 1],
   [idle |-> -1, maxAge |-> -1]}
=============================================================================
