------------------------------ MODULE Backend -------------------------------
(***************************************************************************)
(* pkg/docker: Backend.Create, Open and Destroy, and Sandbox.Stop, run by   *)
(* concurrent callers.  One step is one Docker API call with the local code *)
(* that follows it, because between two calls every other caller, the       *)
(* reaper and the guests may act.                                           *)
(*                                                                         *)
(* An API call can fail in three ways, each enabled by Faults:              *)
(*   "docker"  Docker answers with an error, before or after the effect;    *)
(*   "cancel"  the caller's context is cancelled: calls not yet sent fail,  *)
(*             the one in flight fails with or without effect;              *)
(*   "crash"   the calling process dies between two calls.                  *)
(***************************************************************************)
EXTENDS Docker

CONSTANTS
  Callers,   \* concurrent callers, in any number of processes
  Faults

ASSUME FaultsAssumption == Faults \subseteq {"docker", "cancel", "crash"}

VARIABLES
  pc,         \* the API call each caller makes next
  wantName,   \* the name argument of the running call
  wantSpec,   \* the policy argument; Nil for calls that have none
  sb,         \* the id in the handle the caller holds, or Nil
  out,        \* how the call ended
  cancelled   \* the caller's context is done

callVars == <<wantName, wantSpec>>
backendVars == <<status, nameOf, specOf, pc, wantName, wantSpec, sb, out, cancelled>>

CreateSteps == {"open", "halted", "replace", "prepare", "create", "start", "rollback", "reopen"}
CallSteps   == CreateSteps \cup {"lookup", "destroy", "stopOpen", "stop"}
Outcomes    == {"none", "ok", "notfound", "error"}

Init ==
  /\ DockerInit
  /\ pc = [c \in Callers |-> "idle"]
  /\ wantName = [c \in Callers |-> Nil]
  /\ wantSpec = [c \in Callers |-> Nil]
  /\ sb = [c \in Callers |-> Nil]
  /\ out = [c \in Callers |-> "none"]
  /\ cancelled = [c \in Callers |-> FALSE]

-----------------------------------------------------------------------------
Goto(c, step) == pc' = [pc EXCEPT ![c] = step]

\* The call ends; `done` is where the caller takes over.
Return(c, o) ==
  /\ pc' = [pc EXCEPT ![c] = "done"]
  /\ out' = [out EXCEPT ![c] = o]

Holds(c, i) == sb' = [sb EXCEPT ![c] = i]

\* The API call is answered, or fails without effect, or fails after it.
Answered(c) == ~cancelled[c] /\ UNCHANGED cancelled
Refused(c)  == (cancelled[c] \/ "docker" \in Faults) /\ UNCHANGED cancelled
Lost(c) ==
  /\ ~cancelled[c]
  /\ \/ "docker" \in Faults /\ UNCHANGED cancelled
     \/ "cancel" \in Faults /\ cancelled' = [cancelled EXCEPT ![c] = TRUE]

\* Mutant of Begin: the handler mixes up the name and the policy.
BeginSwapped(c, step, n, s) ==
  /\ pc[c] = "idle"
  /\ pc' = [pc EXCEPT ![c] = step]
  /\ wantName' = [wantName EXCEPT ![c] = s]
  /\ wantSpec' = [wantSpec EXCEPT ![c] = n]
  /\ UNCHANGED <<dockerVars, sb, out, cancelled>>

Begin(c, step, n, s) ==
  /\ pc[c] = "idle"
  /\ pc' = [pc EXCEPT ![c] = step]
  /\ wantName' = [wantName EXCEPT ![c] = n]
  /\ wantSpec' = [wantSpec EXCEPT ![c] = s]
  /\ UNCHANGED <<dockerVars, sb, out, cancelled>>

CallCreate(c, n, s) == Begin(c, "open", n, s)
CallOpen(c, n)      == Begin(c, "lookup", n, Nil)
CallDestroy(c, n)   == Begin(c, "destroy", n, Nil)
CallStop(c, n)      == Begin(c, "stopOpen", n, Nil)

-----------------------------------------------------------------------------
\* Mutant of CreateOpen: an existing sandbox is returned without asking halted.
CreateOpenTrusts(c) ==
  /\ pc[c] = "open"
  /\ \/ /\ Answered(c)
        /\ \E i \in Named(wantName[c]) : Holds(c, i)
        /\ Return(c, "ok")
     \/ /\ Answered(c)
        /\ Named(wantName[c]) = {}
        /\ Goto(c, "prepare")
        /\ UNCHANGED <<sb, out>>
  /\ UNCHANGED <<dockerVars, callVars>>

\* Open as Create's first step: found, free, or failed.
CreateOpen(c) ==
  /\ pc[c] = "open"
  /\ \/ /\ Answered(c)
        /\ \E i \in Named(wantName[c]) : Holds(c, i)
        /\ Goto(c, "halted")
        /\ UNCHANGED out
     \/ /\ Answered(c)
        /\ Named(wantName[c]) = {}
        /\ Goto(c, "prepare")
        /\ UNCHANGED <<sb, out>>
     \/ Refused(c) /\ Return(c, "error") /\ UNCHANGED sb
  /\ UNCHANGED <<dockerVars, callVars>>

\* halted(id): a vanished container counts, one that was never started does not.
IsHalted(i) == status[i] \in {"exited", "dead", "gone"}

\* Mutant of CreateHalted: a halted sandbox is restarted rather than replaced.
CreateHaltedRestarts(c) ==
  /\ pc[c] = "halted"
  /\ Answered(c)
  /\ status' = [status EXCEPT ![sb[c]] = IF @ = "exited" THEN "running" ELSE @]
  /\ Return(c, "ok")
  /\ UNCHANGED <<nameOf, specOf, callVars, sb>>

CreateHalted(c) ==
  /\ pc[c] = "halted"
  /\ \/ Answered(c) /\ IsHalted(sb[c]) /\ Goto(c, "replace") /\ UNCHANGED out
     \/ Answered(c) /\ ~IsHalted(sb[c]) /\ Return(c, "ok")
     \/ Refused(c) /\ Return(c, "error")
  /\ UNCHANGED <<dockerVars, callVars, sb>>

\* Destroy(ctx, name): by name, so whatever holds the name now is removed.
RemoveByName(c, next) ==
  \/ /\ Answered(c)
     /\ ContainerRemove(Named(wantName[c]))
     /\ next
  \/ /\ Lost(c)
     /\ ContainerRemove(Named(wantName[c]))
     /\ Return(c, "error")
  \/ /\ "docker" \in Faults /\ Answered(c)
     /\ ContainerRemoveFailed(Named(wantName[c]))
     /\ Return(c, "error")
  \/ /\ Refused(c)
     /\ UNCHANGED dockerVars
     /\ Return(c, "error")

CreateReplace(c) ==
  /\ pc[c] = "replace"
  /\ RemoveByName(c, Goto(c, "prepare") /\ UNCHANGED out)
  /\ UNCHANGED <<callVars, sb>>

\* assertRuntime and ensureImage: they touch no container, and either may fail.
CreatePrepare(c) ==
  /\ pc[c] = "prepare"
  /\ \/ Answered(c) /\ Goto(c, "create") /\ UNCHANGED out
     \/ Refused(c) /\ Return(c, "error")
  /\ UNCHANGED <<dockerVars, callVars, sb>>

\* Mutant of CreateContainer: the container is created without its name, so
\* Docker sees no conflict and only the labels say which sandbox it is.
CreateContainerUnnamed(c) ==
  /\ pc[c] = "create"
  /\ Answered(c)
  /\ \E i \in Ids :
       /\ status[i] = "unborn"
       /\ status' = [status EXCEPT ![i] = "created"]
       /\ nameOf' = [nameOf EXCEPT ![i] = wantName[c]]
       /\ specOf' = [specOf EXCEPT ![i] = wantSpec[c]]
       /\ Holds(c, i)
  /\ Goto(c, "start")
  /\ UNCHANGED <<callVars, out>>

\* ContainerCreate.  A conflict means another caller took the name first.  When
\* the bounded set of ids is used up, Docker is taken to refuse the call.
CreateContainer(c) ==
  /\ pc[c] = "create"
  /\ \/ /\ Answered(c)
        /\ \E i \in Ids : ContainerCreate(i, wantName[c], wantSpec[c]) /\ Holds(c, i)
        /\ Goto(c, "start")
        /\ UNCHANGED out
     \/ /\ Lost(c)
        /\ \E i \in Ids : ContainerCreate(i, wantName[c], wantSpec[c])
        /\ Return(c, "error")
        /\ UNCHANGED sb
     \/ /\ Answered(c)
        /\ Named(wantName[c]) # {}
        /\ Goto(c, "reopen")
        /\ UNCHANGED <<dockerVars, sb, out>>
     \/ /\ \/ Refused(c)
           \/ Answered(c) /\ \A i \in Ids : status[i] # "unborn"
        /\ Return(c, "error")
        /\ UNCHANGED <<dockerVars, sb>>
  /\ UNCHANGED callVars

\* ContainerStart of the container just created; any failure rolls back.
CreateStart(c) ==
  /\ pc[c] = "start"
  /\ \/ Answered(c) /\ ContainerStart(sb[c]) /\ Goto(c, "reopen")
     \/ Answered(c) /\ status[sb[c]] # "created" /\ Goto(c, "rollback") /\ UNCHANGED dockerVars
     \/ Lost(c) /\ ContainerStart(sb[c]) /\ Goto(c, "rollback")
     \/ Refused(c) /\ Goto(c, "rollback") /\ UNCHANGED dockerVars
  /\ UNCHANGED <<callVars, sb, out>>

\* The rollback: ContainerRemove by ID, on the same context, its error dropped.
CreateRollback(c) ==
  /\ pc[c] = "rollback"
  /\ \/ (Answered(c) \/ Lost(c)) /\ ContainerRemove({sb[c]})
     \/ "docker" \in Faults /\ Answered(c) /\ ContainerRemoveFailed({sb[c]})
     \/ Refused(c) /\ UNCHANGED dockerVars
  /\ Return(c, "error")
  /\ UNCHANGED <<callVars, sb>>

\* Open at the end of Create, of Open itself, and ahead of Stop.
OpenThen(c, found) ==
  \/ /\ Answered(c)
     /\ \E i \in Named(wantName[c]) : Holds(c, i)
     /\ found
  \/ Answered(c) /\ Named(wantName[c]) = {} /\ Return(c, "notfound") /\ UNCHANGED sb
  \/ Refused(c) /\ Return(c, "error") /\ UNCHANGED sb

CreateReopen(c) ==
  /\ pc[c] = "reopen"
  /\ OpenThen(c, Return(c, "ok"))
  /\ UNCHANGED <<dockerVars, callVars>>

Open(c) ==
  /\ pc[c] = "lookup"
  /\ OpenThen(c, Return(c, "ok"))
  /\ UNCHANGED <<dockerVars, callVars>>

StopOpen(c) ==
  /\ pc[c] = "stopOpen"
  /\ OpenThen(c, Goto(c, "stop") /\ UNCHANGED out)
  /\ UNCHANGED <<dockerVars, callVars>>

\* ContainerStop by ID; a container that vanished since Open is an error.
Stop(c) ==
  /\ pc[c] = "stop"
  /\ \/ Answered(c) /\ ContainerStop(sb[c]) /\ Return(c, "ok")
     \/ Lost(c) /\ ContainerStop(sb[c]) /\ Return(c, "error")
     \/ Answered(c) /\ ~Present(sb[c]) /\ Return(c, "error") /\ UNCHANGED dockerVars
     \/ Refused(c) /\ Return(c, "error") /\ UNCHANGED dockerVars
  /\ UNCHANGED <<callVars, sb>>

Destroy(c) ==
  /\ pc[c] = "destroy"
  /\ RemoveByName(c, Return(c, "ok"))
  /\ UNCHANGED <<callVars, sb>>

-----------------------------------------------------------------------------
Cancel(c) ==
  /\ "cancel" \in Faults
  /\ pc[c] \in CallSteps
  /\ cancelled' = [cancelled EXCEPT ![c] = TRUE]
  /\ UNCHANGED <<dockerVars, callVars, pc, sb, out>>

\* The caller forgets the call: it consumed the result, or its process died.
Forget(c) ==
  /\ pc' = [pc EXCEPT ![c] = "idle"]
  /\ wantName' = [wantName EXCEPT ![c] = Nil]
  /\ wantSpec' = [wantSpec EXCEPT ![c] = Nil]
  /\ sb' = [sb EXCEPT ![c] = Nil]
  /\ out' = [out EXCEPT ![c] = "none"]
  /\ cancelled' = [cancelled EXCEPT ![c] = FALSE]
  /\ UNCHANGED dockerVars

Finish(c) == pc[c] = "done" /\ Forget(c)
Crash(c)  == "crash" \in Faults /\ pc[c] # "idle" /\ Forget(c)

\* Some process's Reap judged i expired and removes it by ID.
ReapRemoves(i) ==
  /\ i \in Listed
  /\ \/ ContainerRemove({i})
     \/ "docker" \in Faults /\ ContainerRemoveFailed({i})
  /\ UNCHANGED <<callVars, pc, sb, out, cancelled>>

Halt(i) ==
  /\ GuestHalts(i)
  /\ UNCHANGED <<callVars, pc, sb, out, cancelled>>

\* What a running Create, Open, Destroy or Stop does next.
CallStep(c) ==
  \/ CreateOpen(c) \/ CreateHalted(c) \/ CreateReplace(c) \/ CreatePrepare(c)
  \/ CreateContainer(c) \/ CreateStart(c) \/ CreateRollback(c) \/ CreateReopen(c)
  \/ Open(c) \/ Destroy(c) \/ StopOpen(c) \/ Stop(c)

Environment == \E i \in Ids : ReapRemoves(i) \/ Halt(i)

Next ==
  \/ \E c \in Callers :
       \/ \E n \in Names : \/ \E s \in Specs : CallCreate(c, n, s)
                           \/ CallOpen(c, n) \/ CallDestroy(c, n) \/ CallStop(c, n)
       \/ CallStep(c) \/ Cancel(c) \/ Finish(c) \/ Crash(c)
  \/ Environment

Spec == Init /\ [][Next]_backendVars

-----------------------------------------------------------------------------
(***************************************************************************)
(* Properties.                                                              *)
(***************************************************************************)

\* Every variable has its type.
TypeOK ==
  /\ DockerTypeOK
  /\ pc \in [Callers -> CallSteps \cup {"idle", "done"}]
  /\ wantName \in [Callers -> Names \cup {Nil}]
  /\ wantSpec \in [Callers -> Specs \cup {Nil}]
  /\ sb \in [Callers -> Ids \cup {Nil}]
  /\ out \in [Callers -> Outcomes]
  /\ cancelled \in [Callers -> BOOLEAN]

\* A sandbox name reaches one container at a time, whatever callers race on it
\* and whichever of them fail half way (containerName plus Create's conflict path).
OneSandboxPerName ==
  \A i, j \in Ids : Present(i) /\ Present(j) /\ nameOf[i] = nameOf[j] => i = j

\* No step of any caller runs a halted container again or changes the policy it
\* was created under: Create replaces it, and RestartPolicy is disabled.
NoResurrection ==
  [][\A i \in Ids :
       /\ status[i] \in {"exited", "dead", "gone"} => status'[i] \in {"exited", "dead", "gone"}
       /\ status[i] = "gone" => status'[i] = "gone"
       /\ status[i] # "unborn" => nameOf'[i] = nameOf[i] /\ specOf'[i] = specOf[i]]_backendVars

-----------------------------------------------------------------------------
(***************************************************************************)
(* What the repository says and the code does not do.  Each is violated.    *)
(***************************************************************************)

\* Create replaces a *halted* sandbox (backend.go:141); a running one is left
\* alone: "the same name reaches the same sandbox until it is reaped".
CreateSparesRunning ==
  [][\A c \in Callers, i \in Ids :
       pc[c] = "replace" /\ pc'[c] = "prepare" /\ status[i] = "running"
         => status'[i] = "running"]_backendVars
=============================================================================
