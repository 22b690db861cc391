--------------------------- MODULE BackendRefines ---------------------------
(***************************************************************************)
(* The refinement mapping from the container table to the Registry.         *)
(***************************************************************************)
EXTENDS Backend

PhaseOf ==
  [i \in Ids |-> CASE status[i] = "unborn"  -> "unused"
                   [] status[i] = "created" -> "provisioned"
                   [] status[i] = "running" -> "running"
                   [] status[i] = "gone"    -> "removed"
                   [] OTHER                 -> "halted"]

AtOf == [n \in Names |-> IF Named(n) = {} THEN Nil ELSE CHOOSE i \in Named(n) : TRUE]

R == INSTANCE Registry WITH at <- AtOf, phase <- PhaseOf, policy <- specOf

\* Every behaviour of concurrent Create, Open, Destroy, Stop and Reap calls, with
\* all their failures, is a behaviour of the Registry: each API call has at most
\* one of the Registry's effects, on at most one sandbox.
ImplementsRegistry == R!Spec
=============================================================================
