----------------------------- MODULE MCBackend ------------------------------
EXTENDS BackendLive, BackendRefines, TLC

\* Safety runs only: callers, ids, names and policies are interchangeable.
Symmetry ==
  Permutations(Callers) \cup Permutations(Ids) \cup Permutations(Names) \cup Permutations(Specs)
=============================================================================
