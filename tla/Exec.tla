-------------------------------- MODULE Exec --------------------------------
(***************************************************************************)
(* pkg/docker: one Exec call on a sandbox, with the four parties that run   *)
(* beside it: the caller's context, the wrapper shell in the guest          *)
(* (groupScript) with the command it runs, the shell that kills them        *)
(* (killScript), and the sandbox, which may die or be removed at any time.  *)
(*                                                                         *)
(* Concurrent Execs share only the sandbox: each record file has a random   *)
(* name (newPIDFile).  The timestamp Exec leaves behind is in Lifetime.     *)
(***************************************************************************)
EXTENDS Naturals

CONSTANT
  Faults   \* subset of: "docker" API calls fail, "disk" the scratch tmpfs is full,
           \* "forge" the command overwrites its own record

ASSUME ExecFaults == Faults \subseteq {"docker", "disk", "forge"}

VARIABLES
  box,      \* the sandbox; "dying": dead, not yet recorded by Docker
  ctx,      \* the command's context
  pc,       \* the caller's next step
  wrapper,  \* groupScript, statement by statement
  own,      \* $?, the status the command itself ended with
  kids,     \* processes the command left: in its "group", or in a "session" of their own
  rec,      \* the record file
  killer,   \* killScript, statement by statement
  kill,     \* how killGroup ended
  waited,   \* killRecordWait has run out
  exit,     \* the exec's exit status, as Docker keeps it
  res,      \* what Exec returned
  stopped   \* Result.Stopped

vars == <<box, ctx, pc, wrapper, own, kids, rec, killer, kill, waited, exit, res, stopped>>
guestVars  == <<wrapper, own, kids, rec, exit>>
callerVars == <<pc, kill, res, stopped>>

Codes == {0, 1, 128, 137}
NoCode == 256

Alive  == {"begun", "opened", "recorded", "running", "reaped", "unrecorded"}
Over   == {"ended", "killed"}
KillerAlive == {"begun", "read", "misled", "unlinked"}

TypeOK ==
  /\ box \in {"running", "dying", "stopped", "gone"}
  /\ ctx \in {"live", "deadline", "cancelled"}
  /\ pc \in {"create", "attach", "classify", "wait", "inspect", "died", "settled",
             "kill", "killing", "pause", "done"}
  /\ wrapper \in {"none"} \cup Alive \cup Over
  /\ own \in Codes \cup {NoCode}
  /\ kids \in SUBSET {"group", "session"}
  /\ rec \in {"none", "empty", "pid", "unwritable", "forged"}
  /\ killer \in {"none", "norecord", "signalled", "ignored", "killed"} \cup KillerAlive
  /\ kill \in {"none", "done", "late", "failed"}
  /\ waited \in BOOLEAN
  /\ exit \in Codes \cup {NoCode}
  /\ res \in {"none", "result", "timeout", "cancelled", "stopped", "notfound", "error"}
  /\ stopped \in BOOLEAN

Init ==
  /\ box = "running"
  /\ ctx = "live"
  /\ pc = "create"
  /\ wrapper = "none" /\ own = NoCode /\ kids = {} /\ rec = "none"
  /\ killer = "none" /\ kill = "none" /\ waited = FALSE
  /\ exit = NoCode
  /\ res = "none" /\ stopped = FALSE

-----------------------------------------------------------------------------
(* The caller: exec, attach, classifyAttach, diedUnder, killGroup.          *)

Goto(step) == pc' = step /\ UNCHANGED <<kill, res, stopped>>
Return(r)  == pc' = "done" /\ res' = r /\ UNCHANGED <<kill, stopped>>

\* A call on the command's context is answered, fails without effect, or
\* fails after it: the answer is lost, or the context ends with the call in flight.
Answered == ctx = "live" /\ UNCHANGED ctx
Refused  == (ctx # "live" \/ "docker" \in Faults) /\ UNCHANGED ctx
Lost ==
  /\ ctx = "live"
  /\ \/ "docker" \in Faults /\ UNCHANGED ctx
     \/ ctx' \in {"deadline", "cancelled"}

\* ContainerExecCreate: a conflict is a stopped sandbox, NotFound a removed one.
ExecCreate ==
  /\ pc = "create"
  /\ \/ Answered /\ box \in {"running", "dying"} /\ Goto("attach")
     \/ Answered /\ box = "stopped" /\ Return("stopped")
     \/ Answered /\ box = "gone" /\ Return("notfound")
     \/ Refused /\ Return("error")
  /\ UNCHANGED <<box, guestVars, killer, waited>>

\* ContainerExecAttach starts the wrapper.
ExecAttach ==
  /\ pc = "attach"
  /\ \/ Answered /\ box = "running" /\ wrapper' = "begun" /\ Goto("wait")
     \/ Lost /\ box = "running" /\ wrapper' = "begun" /\ Goto("classify")
     \/ Answered /\ box # "running" /\ Goto("classify") /\ UNCHANGED wrapper
     \/ Refused /\ Goto("classify") /\ UNCHANGED wrapper
  /\ UNCHANGED <<box, own, kids, rec, exit, killer, waited>>

ClassifyAttach ==
  /\ pc = "classify"
  /\ \/ Answered /\ box = "gone" /\ Return("notfound")
     \/ Answered /\ box = "stopped" /\ Return("stopped")
     \/ Answered /\ box \in {"running", "dying"} /\ Return("error")
     \/ Refused /\ Return("error")
  /\ UNCHANGED <<box, guestVars, killer, waited>>

\* Mutant of CopyDone: the command's own closing of the stream is taken for its end.
CopyDoneEarly ==
  /\ pc = "wait"
  /\ wrapper \in {"running"} \cup Over
  /\ Goto("inspect")
  /\ UNCHANGED <<box, ctx, guestVars, killer, waited>>

\* copyDone: the wrapper is over, and what the command left lets go of the stream.
CopyDone ==
  /\ pc = "wait"
  /\ wrapper \in Over
  /\ Goto("inspect")
  /\ UNCHANGED <<box, ctx, guestVars, killer, waited>>

\* copyDone with an error: Docker cuts the stream.
CopyFails ==
  /\ pc = "wait"
  /\ "docker" \in Faults
  /\ Return("error")
  /\ UNCHANGED <<box, ctx, guestVars, killer, waited>>

\* Mutant of CtxDone: the stream is not closed, so the copy is waited for.
CtxDoneWaits ==
  /\ pc = "wait"
  /\ ctx # "live" /\ wrapper \in Over
  /\ Goto("kill")
  /\ UNCHANGED <<box, ctx, guestVars, killer, waited>>

\* ctx.Done: the stream is closed, which ends the copy at once.
CtxDone ==
  /\ pc = "wait"
  /\ ctx # "live"
  /\ Goto("kill")
  /\ UNCHANGED <<box, ctx, guestVars, killer, waited>>

\* Mutant of MayHaveDied: every failure is asked about.
MayHaveDiedFailing(code) == code # 0

MayHaveDied(code) == code \in {128, 137}

\* ContainerExecInspect, on a context of its own; a removed sandbox has no execs.
Inspect ==
  /\ pc = "inspect"
  /\ \/ box # "gone" /\ MayHaveDied(exit) /\ Goto("died")
     \/ box # "gone" /\ ~MayHaveDied(exit) /\ Return("result")
     \/ (box = "gone" \/ "docker" \in Faults) /\ Return("error")
  /\ UNCHANGED <<box, ctx, guestVars, killer, waited>>

\* diedUnder: ContainerWait, for at most stopSettle.
AwaitStop ==
  /\ pc = "died"
  /\ \/ box = "stopped" /\ Goto("settled")
     \/ box # "stopped" /\ Return("result")
     \/ "docker" \in Faults /\ Return("result")
  /\ UNCHANGED <<box, ctx, guestVars, killer, waited>>

\* diedUnder: ContainerInspect; any failure reports not stopped.
Settled ==
  /\ pc = "settled"
  /\ \/ box = "stopped" /\ stopped' = TRUE
     \/ (box # "stopped" \/ "docker" \in Faults) /\ UNCHANGED stopped
  /\ pc' = "done" /\ res' = "result"
  /\ UNCHANGED <<box, ctx, guestVars, killer, waited, kill>>

\* killGroup returns, and exec with the context's error.
KillEnds(how) ==
  /\ kill' = how
  /\ pc' = "done"
  /\ res' = IF ctx = "deadline" THEN "timeout" ELSE "cancelled"
  /\ UNCHANGED stopped

\* One attempt of killGroup: an exec of killScript, on a context of its own.
KillStarts ==
  /\ pc = "kill"
  /\ \/ box = "running" /\ killer' = "begun" /\ Goto("killing")
     \/ (box # "running" \/ "docker" \in Faults) /\ KillEnds("failed") /\ UNCHANGED killer
  /\ UNCHANGED <<box, ctx, guestVars, waited>>

\* Mutant of KillResult: killRecordWait is not looked at.
KillResultRetries ==
  /\ pc = "killing"
  /\ \/ killer \in {"signalled", "ignored", "killed"} /\ KillEnds("done")
     \/ killer = "norecord" /\ Goto("pause")
     \/ (waited \/ "docker" \in Faults) /\ KillEnds("failed")
  /\ UNCHANGED <<box, ctx, guestVars, killer, waited>>

\* The attempt's result: only "no record yet" is retried, and only for a while.
\* A failing attempt, or one that outlasts killTimeout (which is longer than
\* killRecordWait), ends killGroup; its shell may still run.
KillResult ==
  /\ pc = "killing"
  /\ \/ killer \in {"signalled", "ignored", "killed"} /\ KillEnds("done")
     \/ killer = "norecord" /\ waited /\ KillEnds("late")
     \/ killer = "norecord" /\ ~waited /\ Goto("pause")
     \/ (waited \/ "docker" \in Faults) /\ KillEnds("failed")
  /\ UNCHANGED <<box, ctx, guestVars, killer, waited>>

KillRetries ==
  /\ pc = "pause"
  /\ \/ Goto("kill")
     \/ waited /\ KillEnds("failed")
  /\ UNCHANGED <<box, ctx, guestVars, killer, waited>>

Caller ==
  \/ ExecCreate \/ ExecAttach \/ ClassifyAttach \/ CopyDone \/ CtxDone
  \/ Inspect \/ AwaitStop \/ Settled \/ KillStarts \/ KillResult \/ KillRetries

-----------------------------------------------------------------------------
(* Time: the command's timeout, the caller's cancellation, killRecordWait.  *)

ContextEnds ==
  /\ ctx = "live" /\ pc # "done"
  /\ ctx' \in {"deadline", "cancelled"}
  /\ UNCHANGED <<box, pc, guestVars, killer, kill, waited, res, stopped>>

WaitRunsOut ==
  /\ pc \in {"kill", "killing", "pause"} /\ ~waited
  /\ waited' = TRUE
  /\ UNCHANGED <<box, ctx, guestVars, killer, callerVars>>

-----------------------------------------------------------------------------
(* The guest: the statements of groupScript and the processes it starts.    *)

Wrapper(from, to) == wrapper = from /\ wrapper' = to

\* echo $$ >"$f", in two steps: the file is created, then written.
OpensRecord ==
  /\ \/ Wrapper("begun", "opened") /\ rec' = "empty"
     \/ "disk" \in Faults /\ Wrapper("begun", "recorded") /\ rec' = "unwritable"
  /\ UNCHANGED <<own, kids, exit>>

WritesRecord ==
  /\ Wrapper("opened", "recorded")
  /\ rec' = IF rec = "empty" THEN "pid" ELSE rec
  /\ UNCHANGED <<own, kids, exit>>

\* (exec "$@")
Runs ==
  /\ Wrapper("recorded", "running")
  /\ UNCHANGED <<own, kids, rec, exit>>

\* The command starts processes, in its group or, by setsid, outside it.
Spawns ==
  /\ wrapper = "running"
  /\ \E k \in {"group", "session"} \ kids : kids' = kids \cup {k}
  /\ UNCHANGED <<wrapper, own, rec, exit>>

\* The record is the guest's to write: another process's number, or none.
Forges ==
  /\ "forge" \in Faults
  /\ wrapper = "running" /\ rec = "pid"
  /\ rec' = "forged"
  /\ UNCHANGED <<wrapper, own, kids, exit>>

\* s=$?
Finishes ==
  /\ Wrapper("running", "reaped")
  /\ own' \in Codes
  /\ UNCHANGED <<kids, rec, exit>>

\* rm -f "$f"
Unrecords ==
  /\ Wrapper("reaped", "unrecorded")
  /\ rec' = "none"
  /\ UNCHANGED <<own, kids, exit>>

\* exit $s
Exits ==
  /\ Wrapper("unrecorded", "ended")
  /\ exit' = own
  /\ UNCHANGED <<own, kids, rec>>

KidEnds ==
  /\ \E k \in kids : kids' = kids \ {k}
  /\ UNCHANGED <<wrapper, own, rec, exit>>

Guest ==
  /\ \/ OpensRecord \/ WritesRecord \/ Runs \/ Spawns \/ Forges
     \/ Finishes \/ Unrecords \/ Exits \/ KidEnds
  /\ UNCHANGED <<box, ctx, killer, waited, callerVars>>

-----------------------------------------------------------------------------
(* killScript.                                                              *)

\* What read -r p leaves the script to do: nothing to kill yet, a group, or a
\* number that is not this command's.
KillRead ==
  CASE rec = "pid"    -> "read"
    [] rec = "forged" -> "misled"
    [] OTHER          -> "norecord"

\* Mutant of KillReads: the record is removed before it is looked at.
KillReadsUnlinks ==
  /\ killer = "begun"
  /\ killer' = KillRead
  /\ rec' = "none"
  /\ UNCHANGED <<box, ctx, wrapper, own, kids, exit, waited, callerVars>>

\* read -r p: an absent or empty record exits killNoRecord.
KillReads ==
  /\ killer = "begun"
  /\ killer' = KillRead
  /\ UNCHANGED <<box, ctx, guestVars, waited, callerVars>>

\* rm -f "$1".  What is no number, or 1, ends the script here; another process's
\* number does as little to this command.
KillUnlinks ==
  /\ killer \in {"read", "misled"}
  /\ killer' = IF killer = "read" THEN "unlinked" ELSE "ignored"
  /\ rec' = "none"
  /\ UNCHANGED <<box, ctx, wrapper, own, kids, exit, waited, callerVars>>

\* The wrapper is ended by a signal, if it is still there.
WrapperKilled(code) ==
  IF wrapper \in Alive
  THEN wrapper' = "killed" /\ exit' = code
  ELSE UNCHANGED <<wrapper, exit>>

\* Mutant of KillSignals: kill -9 "$p", the wrapper and not its group.
KillSignalsOne ==
  /\ killer = "unlinked"
  /\ killer' = "signalled"
  /\ WrapperKilled(137)
  /\ UNCHANGED <<box, ctx, own, kids, rec, waited, callerVars>>

\* kill -9 -"$p"
KillSignals ==
  /\ killer = "unlinked"
  /\ killer' = "signalled"
  /\ WrapperKilled(137)
  /\ kids' = kids \ {"group"}
  /\ UNCHANGED <<box, ctx, own, rec, waited, callerVars>>

KillScript == KillReads \/ KillUnlinks \/ KillSignals

-----------------------------------------------------------------------------
(* The sandbox dies (the memory limit, Stop) or is removed; every process   *)
(* in it goes, and its tmpfs.  Docker records a death a little later.       *)

BoxEnds(to) ==
  /\ box' = to
  /\ \E code \in {128, 137} : WrapperKilled(code)
  /\ kids' = {} /\ rec' = "none"
  /\ killer' = IF killer \in KillerAlive THEN "killed" ELSE killer
  /\ UNCHANGED <<ctx, own, waited, callerVars>>

BoxDies ==
  /\ box = "running"
  /\ BoxEnds("dying")

BoxSettles ==
  /\ box = "dying"
  /\ box' = "stopped"
  /\ UNCHANGED <<ctx, guestVars, killer, waited, callerVars>>

BoxRemoved ==
  /\ box # "gone"
  /\ BoxEnds("gone")

Next ==
  \/ Caller \/ CopyFails \/ ContextEnds \/ WaitRunsOut
  \/ Guest \/ KillScript
  \/ BoxDies \/ BoxSettles \/ BoxRemoved

Spec == Init /\ [][Next]_vars

(***************************************************************************)
(* The caller's goroutine runs, and timers fire.  Nothing is assumed of the *)
(* guest: a command may run for ever, and killScript may never be scheduled.*)
(* CopyFails is outside Caller: no hang is cured by Docker cutting a stream.*)
(***************************************************************************)
FairSpec == Spec /\ WF_vars(Caller) /\ WF_vars(ContextEnds) /\ WF_vars(WaitRunsOut)

-----------------------------------------------------------------------------
(***************************************************************************)
(* When killGroup ends because killScript did not ask for a retry, neither  *)
(* the command nor anything left in its process group is running, whatever  *)
(* statement the wrapper had reached when the context ended: this is why    *)
(* killGroup may stop at the first exit status other than killNoRecord      *)
(* (sandbox.go:277).  Only a command that forged its record escapes         *)
(* (sandbox.go:263).                                                        *)
(***************************************************************************)
KilledForGood ==
  kill = "done" /\ killer # "ignored" => wrapper \notin Alive /\ "group" \notin kids

(***************************************************************************)
(* A command about to run or running can be killed: its record is complete, *)
(* or the shell that removed the record holds its number and is about to    *)
(* signal it, unless the scratch space was full or the command forged the   *)
(* record.  "The record is removed only once it has been read, so a         *)
(* concurrent write is never unlinked from under the wrapper"               *)
(* (sandbox.go:224).                                                        *)
(***************************************************************************)
RecordFindable ==
  wrapper \in {"recorded", "running"} =>
    \/ rec \in {"pid", "unwritable"}
    \/ killer = "unlinked"
    \/ rec = "forged" \/ killer = "ignored"

(***************************************************************************)
(* "Nothing in the sandbox survives" a result with Stopped set              *)
(* (sandbox/sandbox.go:169): no process of the command is left, whichever   *)
(* group or session it was in, and the sandbox has halted.  Its status is   *)
(* then the sandbox's death, or is the command's own only if that cannot be *)
(* told from one: no other failure of a command is blamed on the sandbox.   *)
(***************************************************************************)
StoppedIsDeath ==
  stopped =>
    /\ box \in {"stopped", "gone"} /\ kids = {}
    /\ wrapper \in Over
    /\ wrapper = "ended" => own \in {128, 137}

(***************************************************************************)
(* A result whose status is none that a kill leaves behind is the command's *)
(* own: it ran to its end and ended with that status.  Neither a kill nor   *)
(* the death of the sandbox, at whichever statement it finds the wrapper,   *)
(* passes for it (sandbox.go:143).                                         *)
(***************************************************************************)
ResultIsOwn ==
  res = "result" /\ exit \notin {128, 137} => wrapper = "ended" /\ exit = own /\ own \in Codes

\* The order of the caller's steps.
Order ==
  [create |-> 1, attach |-> 2, classify |-> 3, wait |-> 3, inspect |-> 4, died |-> 5,
   settled |-> 6, pause |-> 4, kill |-> 5, killing |-> 6, done |-> 7]

(***************************************************************************)
(* Exec only ever moves on, so one call starts its command at most once.    *)
(* What repeats is the attempt to kill, and only until killRecordWait has   *)
(* run out: after that killGroup is at most three steps from its end.       *)
(***************************************************************************)
ExecAdvances ==
  [][pc' # pc => \/ Order[pc'] > Order[pc]
                 \/ pc = "killing" /\ pc' = "pause" /\ ~waited]_vars

(***************************************************************************)
(* Exec returns: at the latest when its context ends, even if the command   *)
(* never ends and the shell sent to kill it never runs.                     *)
(***************************************************************************)
ExecReturns == <>(pc = "done")

(***************************************************************************)
(* Claimed by pkg/sandbox/errors.go:17, and violated: "The backend kills    *)
(* the command and its process group".  The wrapper removes the record when *)
(* the command itself ends; what the command left running in its group      *)
(* holds the output stream open, the timeout comes, and killGroup finds no  *)
(* record.                                                                  *)
(***************************************************************************)
TimeoutKillsGroup ==
  res = "timeout" /\ kill \in {"done", "late"} /\ wrapper = "ended" => "group" \notin kids
=============================================================================
