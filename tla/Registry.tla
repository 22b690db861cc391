------------------------------ MODULE Registry ------------------------------
(***************************************************************************)
(* What the Backend interface (pkg/sandbox/sandbox.go) promises about       *)
(* sandboxes, with no callers, API calls or failures in sight: a name holds *)
(* at most one sandbox; a sandbox is provisioned under one policy, runs     *)
(* once, may halt, and is removed once.  Module Backend implements this.    *)
(***************************************************************************)
CONSTANTS Ids, Names, Specs, Nil

VARIABLES
  at,      \* the sandbox each name reaches, or Nil
  phase,   \* "unused", "provisioned", "running", "halted" or "removed", per sandbox
  policy   \* what it was created under

vars == <<at, phase, policy>>

Init ==
  /\ at = [n \in Names |-> Nil]
  /\ phase = [i \in Ids |-> "unused"]
  /\ policy = [i \in Ids |-> Nil]

\* A free name gets a sandbox that never existed before.
Provision(n, i, s) ==
  /\ at[n] = Nil
  /\ phase[i] = "unused"
  /\ at' = [at EXCEPT ![n] = i]
  /\ phase' = [phase EXCEPT ![i] = "provisioned"]
  /\ policy' = [policy EXCEPT ![i] = s]

Run(i) ==
  /\ phase[i] = "provisioned"
  /\ phase' = [phase EXCEPT ![i] = "running"]
  /\ UNCHANGED <<at, policy>>

Halt(i) ==
  /\ phase[i] \in {"provisioned", "running"}
  /\ phase' = [phase EXCEPT ![i] = "halted"]
  /\ UNCHANGED <<at, policy>>

\* Destroyed, replaced, rolled back or reaped.
Remove(n) ==
  /\ at[n] # Nil
  /\ at' = [at EXCEPT ![n] = Nil]
  /\ phase' = [phase EXCEPT ![at[n]] = "removed"]
  /\ UNCHANGED policy

Next ==
  \/ \E n \in Names, i \in Ids, s \in Specs : Provision(n, i, s)
  \/ \E i \in Ids : Run(i) \/ Halt(i)
  \/ \E n \in Names : Remove(n)

Spec == Init /\ [][Next]_vars
=============================================================================
