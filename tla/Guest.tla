-------------------------------- MODULE Guest -------------------------------
(***************************************************************************)
(* One sandbox and its callers: commands, background processes and file     *)
(* transfers side by side, each through brokerclient and openbloxd, over a  *)
(* sandbox that may stop or be removed at any moment.                       *)
(***************************************************************************)
EXTENDS Process, Files

vars == <<box, callVars, procVars, fileVars>>

Init == CallsInit /\ ProcessInit /\ FilesInit

\* What a call, its handler and a plain exec do outside the sandbox.
Outside(A) == A /\ UNCHANGED <<box, procVars, fileVars>>

\* A caller whose last command was left behind in the sandbox is not followed
\* further until that has ended.
Calls(c) ==
  /\ script[c] = "none" /\ ~fd[c]
  /\ Outside(Call(c)) \/ Outside(ClientRefuses(c))

\* The steps of the daemon, and of Docker on its behalf.
Handles(c) ==
  \/ Outside(HandlerOpens(c))
  \/ Outside(ExecRefused(c))
  \/ pc[c] \notin {"script", "cat", "stream"} /\ Outside(ExecBegins(c))
  \/ ScriptBegins(c) /\ UNCHANGED fileVars
  \/ CatBegins(c) /\ UNCHANGED procVars
  \/ StreamBegins(c) /\ UNCHANGED procVars
  \/ Answer(c) /\ TransferOver(c) /\ UNCHANGED <<box, procVars>>

\* How the execs of a call end when the command in them does not end them.
Bounded(c) ==
  \/ Outside(ExecDies(c))
  \/ pc[c] \notin {"script", "cat"} /\ Outside(ExecCutShort(c))
  \/ ScriptCut(c) /\ UNCHANGED fileVars
  \/ CatCut(c) /\ UNCHANGED procVars

\* The body of a read, which has no time limit of its own.
Streams(c) == (StreamCopies(c) \/ StreamEnds(c)) /\ UNCHANGED procVars

\* The commands in the sandbox.
Commands(c) ==
  \/ Outside(RunEnds(c))
  \/ (Statement(c) \/ ScriptExits(c)) /\ UNCHANGED fileVars
  \/ /\ \/ MkdirEnds(c) \/ CatWrites(c) \/ CatWritesAway(c) \/ CatEnds(c)
        \/ CatForgotten(c) \/ ChmodEnds(c) \/ ProbeEnds(c) \/ RunRemoves(c)
     /\ UNCHANGED procVars

\* What may go wrong, or be refused.
Fails(c) ==
  \/ Outside(GivesUp(c))
  \/ Outside(Invalid(c))
  \/ pc[c] # "script" /\ Outside(ExecLost(c))
  \/ ScriptLost(c) /\ UNCHANGED fileVars
  \/ (StreamFails(c) \/ StreamKilled(c)) /\ UNCHANGED procVars

\* The sandbox stops, by Stop, its TTL or its memory limit, or is removed.
BoxEnds ==
  /\ \/ box = "running" /\ box' \in {"stopped", "gone"}
     \/ box = "stopped" /\ box' = "gone"
  /\ ProcessesGo
  /\ FilesGo
  /\ UNCHANGED callVars

Next ==
  \/ \E c \in Callers : Calls(c) \/ Handles(c) \/ Bounded(c) \/ Streams(c) \/ Commands(c) \/ Fails(c)
  \/ (ProcessEnds \/ PidReused) /\ UNCHANGED fileVars
  \/ BoxEnds

Spec == Init /\ [][Next]_vars

\* The daemon's goroutines and Docker go on; an exec has a timeout, so nothing
\* is asked of the command in it; the client reads the body it asked for, and
\* cat of a regular file goes on.
Fairness ==
  \A c \in Callers : WF_<<pc, on, moved>>(Handles(c) \/ Bounded(c) \/ Streams(c))

FairSpec == Spec /\ Fairness

-----------------------------------------------------------------------------
Errors == Sentinels \cup {"none", "nil", "other", "aborted", "ErrInternal", "transport"}

TypeOK ==
  /\ box \in {"running", "stopped", "gone"}
  /\ op \in [Callers -> Ops]
  /\ pc \in [Callers -> Execs \cup {"idle", "open", "answer"}]
  /\ on \in [Callers -> BOOLEAN] /\ ctx \in [Callers -> BOOLEAN]
  /\ err \in [Callers -> Errors]
  /\ running \subseteq Pids 
  /\ pidfile \in Pids \cup {NoPid} /\ reused \in BOOLEAN
  /\ script \in [Callers -> Statements \cup Exited \cup {"none"}]
  /\ bg \in [Callers -> Pids \cup {NoPid}]
  /\ crossed \in BOOLEAN
  /\ file = Absent \/ file \in Seq(Callers \cup {Hole})
  /\ fd \in [Callers -> BOOLEAN] /\ alone \in [Callers -> BOOLEAN] /\ cut \in [Callers -> BOOLEAN]
  /\ moved \in [Callers -> 0..Chunks]

(***************************************************************************)
(* What a caller of brokerclient is told is what a caller of the library    *)
(* would have been told: the same sentinel, ErrInternal for an error without *)
(* one, or that the request itself failed.                                  *)
(***************************************************************************)
RemoteAgrees ==
  [][\A c \in Callers :
       pc[c] # "idle" /\ pc'[c] = "idle" /\ err'[c] # "transport" =>
         err'[c] = IF err[c] = "other" THEN "ErrInternal" ELSE err[c]]_vars

(***************************************************************************)
(* A refusal stays true as long as the sandbox is not created again, from   *)
(* the step that decided it, over the wire, until its caller's next call.   *)
(* Callers act on it: after ErrNotFound they create the sandbox again, which *)
(* replaces what is there, so nothing may be there; after ErrStopped they   *)
(* give it up, so no process or file may be left in it.  Of a read,         *)
(* ErrNotFound says little: any failure of the probe is one.                *)
(***************************************************************************)
RefusalsHold ==
  \A c \in Callers :
    /\ err[c] = "ErrStopped" => box # "running" /\ running = {} /\ file = Absent
    /\ err[c] = "ErrNotFound" /\ op[c] # "read" => box = "gone"

(***************************************************************************)
(* A call makes each of its execs at most once and in order: an exec whose  *)
(* stream broke, that ran out of time or whose sandbox ended is reported and *)
(* never made again, nor is one after it.  The command in it may have run,  *)
(* so a second attempt could run it twice.  Each step of a call takes it    *)
(* nearer its end, which CallsFinish needs besides fairness.                *)
(***************************************************************************)
Stage == [open |-> 1, run |-> 2, script |-> 2, mkdir |-> 2, probe |-> 2, cat |-> 3,
          stream |-> 3, chmod |-> 4, answer |-> 5, idle |-> 6]

CallAdvances ==
  [][\A c \in Callers :
       pc[c] # "idle" =>
         /\ pc'[c] # pc[c] => Stage[pc'[c]] > Stage[pc[c]]
         /\ pc'[c] = pc[c] /\ on[c] => on'[c]]_vars

(***************************************************************************)
(* Every call ends, whatever the command does, whoever gives up and when    *)
(* the sandbox ends under it.                                               *)
(***************************************************************************)
CallsFinish == \A c \in Callers : pc[c] # "idle" ~> pc[c] = "idle"
=============================================================================
