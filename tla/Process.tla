------------------------------ MODULE Process -------------------------------
(***************************************************************************)
(* pkg/docker StartProcess: startProcessScript, statement by statement, run *)
(* by several callers for one process name.                                 *)
(***************************************************************************)
EXTENDS Calls, Naturals, FiniteSets

CONSTANTS
  Pids,    \* the process ids the sandbox can give out
  NoPid    \* what an absent or empty pid file holds

ASSUME ProcessPids == NoPid \notin Pids

VARIABLES
  running,   \* live processes started under the name
  reused,    \* the recorded pid has gone to another process of the guest's
  pidfile,   \* $dir/pid
  script,    \* the next statement of each caller's script
  bg,        \* $!, in each caller's script
  crossed    \* history: scripts overlapped, or one failed or was cut short

procVars == <<running, reused, pidfile, script, bg, crossed>>

Statements == {"test", "spawn", "echo"}
Exited     == {"exit0", "exit1"}

ProcessInit ==
  /\ running = {}
  /\ pidfile = NoPid /\ reused = FALSE
  /\ script = [c \in Callers |-> "none"]
  /\ bg = [c \in Callers |-> NoPid]
  /\ crossed = FALSE

-----------------------------------------------------------------------------
(* The exec of the script, and its statements.                              *)

\* The shell starts with its exec.
ScriptBegins(c) ==
  /\ pc[c] = "script" /\ script[c] = "none"
  /\ ExecBegins(c)
  /\ script' = [script EXCEPT ![c] = "test"]
  /\ crossed' = (crossed \/ \E d \in Callers : script[d] \in Statements)
  /\ UNCHANGED <<box, running, reused, pidfile, bg>>

Then(c, statement) == script' = [script EXCEPT ![c] = statement]

ScriptGone(c) ==
  /\ script' = [script EXCEPT ![c] = "none"]
  /\ bg' = [bg EXCEPT ![c] = NoPid]

\* The shell ends.  Its status stays for the exec, if that is still waited for.
Exits(c, status) ==
  IF Running(c, "script") THEN Then(c, status) /\ UNCHANGED bg ELSE ScriptGone(c)

\* Mutant of Test: what the pid file names is not looked at.
TestFile(c) ==
  /\ script[c] = "test"
  /\ Then(c, "spawn")
  /\ UNCHANGED <<running, reused, pidfile, bg, crossed>>

\* [ -r pid ] && kill -0 $(cat pid): any live process of that number will do.
Test(c) ==
  /\ script[c] = "test"
  /\ IF pidfile \in running \/ reused THEN Exits(c, "exit0")
                                       ELSE Then(c, "spawn") /\ UNCHANGED bg
  /\ UNCHANGED <<running, reused, pidfile, crossed>>

\* The kernel gives pids out in turn: one that a script at work got is not given
\* out again before that script ends.
FreePids ==
  Pids \ (running \cup {bg[d] : d \in Callers} \cup (IF reused THEN {pidfile} ELSE {}))

\* mkdir -p "$dir" || exit 1, then "$@" & : a full disk fails the one, the limit
\* on processes the other.
Spawn(c) ==
  /\ script[c] = "spawn"
  /\ \/ \E p \in FreePids :
          /\ running' = running \cup {p}
          /\ bg' = [bg EXCEPT ![c] = p]
          /\ Then(c, "echo")
     \/ /\ FreePids = {} \/ "full" \in Faults
        /\ Exits(c, "exit1")
        /\ UNCHANGED running
  /\ UNCHANGED <<reused, pidfile, crossed>>

\* echo $! > pid.  Its status is the script's: on a full disk the file is empty,
\* the process runs and the call fails.
Echo(c) ==
  /\ script[c] = "echo"
  /\ \/ Exits(c, "exit0") /\ pidfile' = bg[c] /\ UNCHANGED crossed
     \/ "full" \in Faults /\ Exits(c, "exit1") /\ pidfile' = NoPid /\ crossed' = TRUE
  /\ reused' = FALSE
  /\ UNCHANGED running

Statement(c) ==
  /\ Test(c) \/ Spawn(c) \/ Echo(c)
  /\ UNCHANGED <<box, callVars>>

\* StartProcess returns: a status other than zero is an error.
ScriptExits(c) ==
  /\ Running(c, "script") /\ script[c] \in Exited
  /\ Return(c, IF script[c] = "exit0" THEN "nil" ELSE "other")
  /\ ScriptGone(c)
  /\ UNCHANGED <<box, running, reused, pidfile, crossed>>

\* Nobody waits for the exec any more.  A shell that was done is gone, one that was
\* not goes on unobserved.
ScriptLeft(c) ==
  /\ IF script[c] \in Statements THEN crossed' = TRUE /\ UNCHANGED <<script, bg>>
                                 ELSE ScriptGone(c) /\ UNCHANGED crossed
  /\ UNCHANGED running

\* The exec is cut short.  killGroup ends the shell and what it started, which is
\* in its group, unless the kill fails or finds the record removed by a wrapper
\* that is done.
ScriptCut(c) ==
  /\ pc[c] = "script"
  /\ ExecCutShort(c)
  /\ \/ ScriptGone(c) /\ running' = running \ {bg[c]} /\ UNCHANGED crossed
     \/ (script[c] \in Exited \/ "docker" \in Faults) /\ ScriptLeft(c)
  /\ UNCHANGED <<box, reused, pidfile>>

\* The stream of the exec breaks under the script.
ScriptLost(c) ==
  /\ pc[c] = "script"
  /\ ExecLost(c)
  /\ ScriptLeft(c)
  /\ UNCHANGED <<box, reused, pidfile>>

-----------------------------------------------------------------------------
(* The guest's processes.                                                   *)

ProcessEnds ==
  /\ \E p \in running : running' = running \ {p}
  /\ UNCHANGED <<box, callVars, reused, pidfile, script, bg, crossed>>

\* A process of the guest's own gets the number a dead one had, or ends.
PidReused ==
  /\ pidfile \in Pids \ (running \cup {bg[d] : d \in Callers})
  /\ reused' = ~reused
  /\ UNCHANGED <<box, callVars, running, pidfile, script, bg, crossed>>

\* With the sandbox go its processes and its tmpfs.
ProcessesGo ==
  /\ running' = {}
  /\ pidfile' = NoPid /\ reused' = FALSE
  /\ script' = [c \in Callers |-> "none"]
  /\ bg' = [c \in Callers |-> NoPid]
  /\ UNCHANGED crossed

-----------------------------------------------------------------------------
(***************************************************************************)
(* Calls that do not overlap start the command once: as long as no two      *)
(* scripts ran at the same time and none failed or was cut short, at most   *)
(* one process runs under the name, whatever dies in between and whoever    *)
(* takes its pid ("it is left running and the new command is not started",  *)
(* process.go:42).                                                          *)
(***************************************************************************)
SerialStartsOnce == ~crossed => Cardinality(running) <= 1

(***************************************************************************)
(* Claimed by process.go:24, and violated: "The check and the start are one *)
(* shell invocation so two concurrent StartProcess calls cannot both pass   *)
(* the check".  The statements of two shells interleave.                    *)
(***************************************************************************)
ConcurrentStartsOnce == Cardinality(running) <= 1
=============================================================================
