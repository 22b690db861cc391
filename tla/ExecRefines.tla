----------------------------- MODULE ExecRefines ----------------------------
(***************************************************************************)
(* Calls takes an exec for four steps: it begins or is refused, and ends in *)
(* one of a few ways.  This is the mapping under which module Exec, with its *)
(* timeouts, kills and inspections, is one of those execs.                  *)
(***************************************************************************)
EXTENDS Exec

Self == "self"

\* Docker takes a sandbox for running until it has recorded its death.
Recorded == IF box = "dying" THEN "running" ELSE box

\* Once diedUnder is asked, the result is decided: only Stopped is still open.
Decided == pc \in {"died", "settled", "done"}

\* The exec is the caller's to wait for.  An attach whose answer was lost is to
\* the handler one that was refused, although its command may run.
Waiting == pc \in {"wait", "inspect", "kill", "killing", "pause"}

\* What the handler makes of what Exec returns.
ErrOf ==
  IF pc \in {"died", "settled"} THEN "nil"
  ELSE CASE res = "result"   -> "nil"
         [] res = "timeout"  -> "ErrTimeout"
         [] res = "stopped"  -> "ErrStopped"
         [] res = "notfound" -> "ErrNotFound"
         [] res = "none"     -> "none"
         [] OTHER            -> "other"

\* Calls' variables, with this caller alone in them.
Alone(v)   == [c \in {Self} |-> v]
HandlerOp  == Alone("exec")
HandlerPc  == Alone(IF Decided THEN "answer" ELSE "run")
HandlerOn  == Alone(Waiting)
HandlerCtx == Alone(ctx # "cancelled")
HandlerErr == Alone(ErrOf)

\* An error that is neither sentinel nor end of the request needs no fault here:
\* the deadline may pass before the attach, or find the sandbox dying.
CallFaults == {"docker", "cancel", "timeout"}

C == INSTANCE Calls WITH
       Callers <- {Self}, Plans <- {HandlerOp}, Faults <- CallFaults, box <- Recorded,
       op <- HandlerOp, pc <- HandlerPc, on <- HandlerOn, ctx <- HandlerCtx, err <- HandlerErr

\* The handler has opened the sandbox.
CallInit ==
  /\ Recorded = "running"
  /\ HandlerPc = Alone("run") /\ HandlerOn = Alone(FALSE) /\ HandlerCtx = Alone(TRUE)
  /\ HandlerErr = Alone("none")

\* The steps of Calls an exec takes part in, as Guest composes them.
CallNext ==
  \/ /\ \/ C!ExecBegins(Self) \/ C!ExecRefused(Self) \/ C!ExecDies(Self) \/ C!ExecCutShort(Self)
        \/ C!ExecLost(Self) \/ C!RunEnds(Self) \/ C!GivesUp(Self)
     /\ UNCHANGED Recorded
  \/ /\ \/ Recorded = "running" /\ Recorded' \in {"stopped", "gone"}
        \/ Recorded = "stopped" /\ Recorded' = "gone"
     /\ UNCHANGED C!callVars

\* Every behaviour of Exec, with all its failures, is one that Calls allows an
\* exec: the wait for the stream, the kill and the inquiry after the sandbox's
\* death are invisible to the handler, and the outcome is one Calls foresees.
ImplementsCalls == CallInit /\ [][CallNext]_<<Recorded, C!callVars>>
=============================================================================
