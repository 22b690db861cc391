------------------------------ MODULE MCBroker ------------------------------
EXTENDS Broker, TLC

CONSTANTS p1, p2

\* One capped profile and one without a cap.
Caps == (p1 :> 1) @@ (p2 :> 0)

OneCap == p1 :> 1

\* Safety runs only.  Profiles differ in their cap and are not interchangeable.
Symmetry == Permutations(Callers) \cup Permutations(Ids) \cup Permutations(Names)
=============================================================================
