------------------------------- MODULE Calls --------------------------------
(***************************************************************************)
(* One sandbox used through brokerclient by several callers at once: the    *)
(* client's round trip, the daemon's handler, and the life of the execs a   *)
(* handler makes in the sandbox (dockerSandbox.Exec, abstracted: module     *)
(* Exec has its steps).  What each exec does is in Process and Files.       *)
(***************************************************************************)
EXTENDS Wire

CONSTANTS
  Callers,
  Plans,   \* what the callers may be after: some of [Callers -> Ops]
  Faults   \* subset of: "docker" API calls fail, "cancel" clients give up,
           \* "timeout" execs run out of time, "full" the scratch tmpfs is full, "kill"
           \* the commands of a transfer are killed, or not started, in the sandbox

Ops   == {"exec", "start", "write", "read"}
Execs == {"run", "script", "mkdir", "cat", "chmod", "probe", "stream"}
First == [exec |-> "run", start |-> "script", write |-> "mkdir", read |-> "probe"]

ASSUME CallPlans == Plans \subseteq [Callers -> Ops]
ASSUME CallFaults == Faults \subseteq {"docker", "cancel", "timeout", "full", "kill"}

VARIABLES
  box,    \* "running", "stopped" or "gone"; the scratch tmpfs goes with the first
  op,     \* what each caller asks for, again and again
  pc,     \* the handler's next exec, or where the call is
  on,     \* that exec has begun
  ctx,    \* the request's context is live
  err     \* what the library returned to the handler; once the call is over,
          \* what the client returned to its caller

callVars == <<op, pc, on, ctx, err>>

CallsInit ==
  /\ box = "running"
  /\ op \in Plans
  /\ pc = [c \in Callers |-> "idle"]
  /\ on = [c \in Callers |-> FALSE]
  /\ ctx = [c \in Callers |-> TRUE]
  /\ err = [c \in Callers |-> "none"]

-----------------------------------------------------------------------------
(* Where a handler goes next.                                               *)

Goto(c, step) ==
  /\ pc' = [pc EXCEPT ![c] = step]
  /\ on' = [on EXCEPT ![c] = FALSE]
  /\ UNCHANGED <<op, ctx, err>>

Return(c, e) ==
  /\ pc' = [pc EXCEPT ![c] = "answer"]
  /\ on' = [on EXCEPT ![c] = FALSE]
  /\ err' = [err EXCEPT ![c] = e]
  /\ UNCHANGED <<op, ctx>>

\* A Docker call is answered, or fails.  ReadFile detaches the exec of its stream
\* from the request's context; every other call ends with it.
Answered(c) == ctx[c] \/ pc[c] = "stream"
Refused(c)  == ~Answered(c) \/ "docker" \in Faults

-----------------------------------------------------------------------------
(* brokerclient: the methods of brokerSandbox, do and errorFrom.            *)

\* The client refuses, without asking the daemon, what the library would, and an
\* Exec with stdin, which the library takes and the wire does not carry.
ClientRefuses(c) ==
  /\ pc[c] = "idle"
  /\ err' = [err EXCEPT ![c] = "ErrInvalid"]
  /\ UNCHANGED <<op, pc, on, ctx>>

\* The request is sent.
Call(c) ==
  /\ pc[c] = "idle"
  /\ pc' = [pc EXCEPT ![c] = "open"]
  /\ err' = [err EXCEPT ![c] = "none"]
  /\ UNCHANGED <<op, on, ctx>>

\* The client gives up, or its connection breaks: its caller is told so, and
\* the daemon's request context ends.
GivesUp(c) ==
  /\ "cancel" \in Faults
  /\ pc[c] # "idle" /\ ctx[c]
  /\ ctx' = [ctx EXCEPT ![c] = FALSE]
  /\ UNCHANGED <<op, pc, on, err>>

\* What a handler's answer is to the caller: fail, then errorFrom.  "aborted"
\* is a body that ends without its terminator.
Outcome(e) == IF e \in {"nil", "aborted"} THEN e ELSE ErrorFor(KindOf(e))

Answer(c) ==
  /\ pc[c] = "answer"
  /\ pc' = [pc EXCEPT ![c] = "idle"]
  /\ err' = [err EXCEPT ![c] = IF ctx[c] THEN Outcome(@) ELSE "transport"]
  /\ ctx' = [ctx EXCEPT ![c] = TRUE]
  /\ UNCHANGED <<op, on>>

-----------------------------------------------------------------------------
(* internal/daemon: every handler opens the sandbox first.                  *)

HandlerOpens(c) ==
  /\ pc[c] = "open"
  /\ \/ Answered(c) /\ box # "gone" /\ Goto(c, First[op[c]])
     \/ Answered(c) /\ box = "gone" /\ Return(c, "ErrNotFound")
     \/ Refused(c) /\ Return(c, "other")

\* What a request may be refused for before any exec: a body that decode does not
\* take, a relative path, a process name that is no path segment, an empty command.
DecodeRefuses(c)  == pc[c] = "open" /\ op[c] \in {"exec", "start"}
PathRefuses(c)    == pc[c] \in {"mkdir", "probe"} /\ ~on[c]
NameRefuses(c)    == pc[c] = "script" /\ ~on[c]
CommandRefuses(c) == pc[c] = "run" /\ ~on[c]

Invalid(c) ==
  /\ DecodeRefuses(c) \/ PathRefuses(c) \/ NameRefuses(c) \/ CommandRefuses(c)
  /\ Return(c, "ErrInvalid")

-----------------------------------------------------------------------------
(* pkg/docker: an exec begins or is refused, and may end before its time.   *)

ExecBegins(c) ==
  /\ pc[c] \in Execs /\ ~on[c]
  /\ Answered(c) /\ box = "running"
  /\ on' = [on EXCEPT ![c] = TRUE]
  /\ UNCHANGED <<op, pc, ctx, err>>

\* Mutant of ExecRefused: both refusals are taken for a sandbox that is gone.
ExecRefusedGone(c) ==
  /\ pc[c] \in Execs /\ ~on[c]
  /\ \/ Answered(c) /\ box # "running" /\ Return(c, "ErrNotFound")
     \/ Refused(c) /\ Return(c, "other")

\* attach: a conflict is a stopped sandbox, NotFound a removed one.
ExecRefused(c) ==
  /\ pc[c] \in Execs /\ ~on[c]
  /\ \/ Answered(c) /\ box = "stopped" /\ Return(c, "ErrStopped")
     \/ Answered(c) /\ box = "gone" /\ Return(c, "ErrNotFound")
     \/ Refused(c) /\ Return(c, "other")

Running(c, step) == pc[c] = step /\ on[c]

\* The sandbox ended under the command: its status is not zero, and the
\* operations other than Exec look no further.  Only the probe makes more of it.
ExecDies(c) ==
  /\ pc[c] \in Execs \ {"stream"} /\ on[c]
  /\ box # "running"
  /\ Return(c, CASE pc[c] = "probe" /\ box = "stopped" -> "ErrNotFound"
                 [] pc[c] = "run" /\ box = "stopped"   -> "nil"
                 [] OTHER                              -> "other")

\* The exec's own timeout, or the end of the request's context.
ExecCutShort(c) ==
  /\ pc[c] \in Execs \ {"stream"} /\ on[c]
  /\ \/ "timeout" \in Faults /\ Return(c, "ErrTimeout")
     \/ ~ctx[c] /\ Return(c, "other")

\* Mutant of ExecLost: the exec is made once more.
ExecLostRetries(c) ==
  /\ pc[c] \in Execs \ {"stream"} /\ on[c]
  /\ "docker" \in Faults
  /\ on' = [on EXCEPT ![c] = FALSE]
  /\ UNCHANGED <<op, pc, ctx, err>>

\* The exec's stream breaks, or its status cannot be read: the command is not
\* killed.
ExecLost(c) ==
  /\ pc[c] \in Execs \ {"stream"} /\ on[c]
  /\ "docker" \in Faults
  /\ Return(c, "other")

\* Exec: any exit status is a result.
RunEnds(c) ==
  /\ Running(c, "run") /\ box = "running"
  /\ Return(c, "nil")
=============================================================================
