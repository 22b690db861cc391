----------------------------- MODULE BrokerLive -----------------------------
(***************************************************************************)
(* Broker with the history variable of BackendLive: for every request, the  *)
(* containers that were not halted at some instant since it arrived.        *)
(***************************************************************************)
EXTENDS Broker, BackendLive

requestVars == <<vars, seen>>

LiveBrokerSpec ==
  /\ BrokerInit /\ seen = [c \in Callers |-> {}]
  /\ [][BrokerNext /\ SeenGrows]_requestVars

\* A 201 of handleCreate names a sandbox that was not halted at some instant of
\* the request, although the recheck of its profile looks at labels alone.
CreatedWasLive ==
  \A c \in Callers : pc[c] = "respond" /\ out[c] = "created" => sb[c] \in seen[c]
=============================================================================
