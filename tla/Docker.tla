------------------------------- MODULE Docker -------------------------------
(***************************************************************************)
(* The part of the Docker daemon that pkg/docker relies on: a table of      *)
(* containers and the calls that change it.  Docker itself is external;     *)
(* what is written here is what the callers in pkg/docker assume of it.     *)
(*                                                                         *)
(* openblox keeps no state of its own ("Container labels are the sandbox    *)
(* registry", pkg/docker/backend.go:4), so this table is the whole shared   *)
(* state of every process that manages sandboxes.                           *)
(***************************************************************************)
CONSTANTS
  Ids,      \* container IDs; Docker never reuses one
  Names,    \* sandbox names, as the callers pass them
  Specs,    \* creation policies recorded as labels (openbloxd: profile names)
  Nil       \* no id, no name, no policy

ASSUME NilAssumption == Nil \notin Ids \cup Names \cup Specs

VARIABLES
  status,   \* State.Status of each container
  nameOf,   \* the container name: containerName(name), injective in practice
  specOf    \* the labels that record the policy; immutable once created

dockerVars == <<status, nameOf, specOf>>

(***************************************************************************)
(* "unborn" ids have not been handed out yet and "gone" ones were removed.  *)
(* "paused" and "restarting" are left out: nothing pauses a container, and  *)
(* buildConfig disables the restart policy.  "dead" is what a removal that  *)
(* failed half way leaves behind.                                           *)
(***************************************************************************)
Status == {"unborn", "created", "running", "exited", "dead", "gone"}

DockerTypeOK ==
  /\ status \in [Ids -> Status]
  /\ nameOf \in [Ids -> Names \cup {Nil}]
  /\ specOf \in [Ids -> Specs \cup {Nil}]

DockerInit ==
  /\ status = [i \in Ids |-> "unborn"]
  /\ nameOf = [i \in Ids |-> Nil]
  /\ specOf = [i \in Ids |-> Nil]

Present(i) == status[i] \notin {"unborn", "gone"}

\* The container a by-name call addresses: at most one, see OneSandboxPerName.
Named(n) == {i \in Ids : Present(i) /\ nameOf[i] = n}

\* ContainerList with All and the managed label.
Listed == {i \in Ids : Present(i)}

-----------------------------------------------------------------------------
\* ContainerCreate succeeds only while the name is free (else: conflict).
ContainerCreate(i, n, s) ==
  /\ status[i] = "unborn"
  /\ Named(n) = {}
  /\ status' = [status EXCEPT ![i] = "created"]
  /\ nameOf' = [nameOf EXCEPT ![i] = n]
  /\ specOf' = [specOf EXCEPT ![i] = s]

\* ContainerStart of a container that was never started.
ContainerStart(i) ==
  /\ status[i] = "created"
  /\ status' = [status EXCEPT ![i] = "running"]
  /\ UNCHANGED <<nameOf, specOf>>

\* ContainerStop; stopping what is not running changes nothing.
ContainerStop(i) ==
  /\ Present(i)
  /\ status' = [status EXCEPT ![i] = IF @ = "running" THEN "exited" ELSE @]
  /\ UNCHANGED <<nameOf, specOf>>

\* A forced ContainerRemove of what S addresses; NotFound removes nothing.
ContainerRemove(S) ==
  /\ status' = [i \in Ids |-> IF i \in S /\ Present(i) THEN "gone" ELSE status[i]]
  /\ UNCHANGED <<nameOf, specOf>>

\* A forced ContainerRemove that failed half way.
ContainerRemoveFailed(S) ==
  /\ status' = [i \in Ids |-> IF i \in S /\ Present(i) THEN "dead" ELSE status[i]]
  /\ UNCHANGED <<nameOf, specOf>>

\* PID 1 ends: the guest killed it, or the memory limit did.
GuestHalts(i) ==
  /\ status[i] = "running"
  /\ status' = [status EXCEPT ![i] = "exited"]
  /\ UNCHANGED <<nameOf, specOf>>
=============================================================================
