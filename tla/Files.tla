-------------------------------- MODULE Files -------------------------------
(***************************************************************************)
(* pkg/docker WriteFile and ReadFile of one path, by several callers, and   *)
(* the handlers that stream a request's body in and an answer's body out.   *)
(* A body is Chunks chunks; a chunk is known by the caller that wrote it.   *)
(***************************************************************************)
EXTENDS Calls, Sequences, Naturals

CONSTANTS
  Chunks,   \* the length of every body
  Hole,     \* what a write past the end leaves before it
  Absent    \* no file is at the path

ASSUME ChunksPositive == Chunks \in Nat \ {0}
ASSUME AbsentNoFile == Absent \notin Seq(Callers \cup {Hole})

VARIABLES
  file,    \* Absent, or the content, a sequence of chunks
  fd,      \* a cat of the caller's has the file open for writing
  moved,   \* chunks each caller's cat has written or read
  alone,   \* history: nothing else has touched the file during the transfer
  cut      \* history: the sandbox ended the cat of a read before it was done

fileVars == <<file, fd, moved, alone, cut>>

FilesInit ==
  /\ file = Absent
  /\ fd = [c \in Callers |-> FALSE]
  /\ moved = [c \in Callers |-> 0]
  /\ alone = [c \in Callers |-> FALSE]
  /\ cut = [c \in Callers |-> FALSE]

Whole(c) == [i \in 1..Chunks |-> c]

-----------------------------------------------------------------------------
(* WriteFile: mkdir, cat, chmod.                                            *)

\* A command of a transfer exits with a status other than zero: the disk is full,
\* the guest killed it, or its limit on processes is reached.
Unlucky == Faults \cap {"full", "kill"} # {}

\* run "create directory".
MkdirEnds(c) ==
  /\ Running(c, "mkdir") /\ box = "running"
  /\ Goto(c, "cat") \/ (Unlucky /\ Return(c, "other"))
  /\ UNCHANGED <<box, fileVars>>

\* cat > "$0": the redirect empties the file.
CatBegins(c) ==
  /\ pc[c] = "cat"
  /\ ExecBegins(c)
  /\ file' = <<>>
  /\ fd' = [fd EXCEPT ![c] = TRUE]
  /\ moved' = [moved EXCEPT ![c] = 0]
  /\ alone' = [d \in Callers |-> d = c]
  /\ UNCHANGED <<box, cut>>

\* A chunk of the body goes through pumpStdin to cat, which writes it at its own
\* offset, wherever another cat's redirect has put the end of the file.  A cat
\* that was not killed still writes what was on its way.
CatWrites(c) ==
  /\ fd[c] /\ moved[c] < Chunks
  /\ LET at == moved[c] + 1
         length == IF at > Len(file) THEN at ELSE Len(file)
     IN  file' = [i \in 1..length |->
                    IF i = at THEN c ELSE IF i <= Len(file) THEN file[i] ELSE Hole]
  /\ moved' = [moved EXCEPT ![c] = @ + 1]
  /\ alone' = [d \in Callers |-> d = c /\ alone[d]]
  /\ UNCHANGED <<box, callVars, fd, cut>>

\* A file that was removed takes writes too; nobody will see them.
CatWritesAway(c) ==
  /\ Running(c, "cat") /\ box = "running"
  /\ ~fd[c] /\ moved[c] < Chunks
  /\ moved' = [moved EXCEPT ![c] = @ + 1]
  /\ UNCHANGED <<box, callVars, file, fd, alone, cut>>

Close(c) ==
  /\ fd' = [fd EXCEPT ![c] = FALSE]
  /\ UNCHANGED <<box, file, moved, alone, cut>>

\* pumpStdin closes cat's stdin at the end of the body, and also when the body
\* breaks off with the request: cat cannot tell, and exits 0.
CatEnds(c) ==
  /\ Running(c, "cat") /\ box = "running"
  /\ \/ (moved[c] = Chunks \/ ~ctx[c]) /\ Goto(c, "chmod")
     \/ Unlucky /\ Return(c, "other")
  /\ Close(c)

\* The exec is cut short: killGroup ends cat, or fails to.
CatCut(c) ==
  /\ pc[c] = "cat"
  /\ ExecCutShort(c)
  /\ Close(c) \/ ("docker" \in Faults /\ UNCHANGED <<box, fileVars>>)

\* A cat nobody waits for reads the end of its input.
CatForgotten(c) ==
  /\ fd[c] /\ ~Running(c, "cat")
  /\ fd' = [fd EXCEPT ![c] = FALSE]
  /\ moved' = [moved EXCEPT ![c] = 0]
  /\ UNCHANGED <<box, callVars, file, alone, cut>>

\* run "set mode", which fails for a file that is gone.
ChmodEnds(c) ==
  /\ Running(c, "chmod") /\ box = "running"
  /\ \/ file # Absent /\ Return(c, "nil")
     \/ (file = Absent \/ "kill" \in Faults) /\ Return(c, "other")
  /\ UNCHANGED <<box, fileVars>>

-----------------------------------------------------------------------------
(* ReadFile: test -f, then cat into the answer.                             *)

\* Any status other than zero is a missing file, that of a probe that was killed too.
ProbeEnds(c) ==
  /\ Running(c, "probe") /\ box = "running"
  /\ \/ file # Absent /\ Goto(c, "stream") /\ alone' = [alone EXCEPT ![c] = TRUE]
     \/ (file = Absent \/ "kill" \in Faults) /\ Return(c, "ErrNotFound") /\ UNCHANGED alone
  /\ moved' = [moved EXCEPT ![c] = 0]
  /\ UNCHANGED <<box, file, fd, cut>>

StreamBegins(c) ==
  /\ pc[c] = "stream"
  /\ ExecBegins(c)
  /\ UNCHANGED <<box, fileVars>>

\* A chunk goes from cat through StdCopy, the pipe and the handler's io.Copy to
\* the client.  There is no telling what cat reads of a file that is changed or
\* removed under it.
StreamCopies(c) ==
  /\ Running(c, "stream") /\ box = "running"
  /\ moved[c] < (IF alone[c] THEN Len(file) ELSE Chunks)
  /\ moved' = [moved EXCEPT ![c] = @ + 1]
  /\ UNCHANGED <<box, callVars, file, fd, alone, cut>>

\* Mutant of StreamEnds: only the end of the file closes the pipe.
StreamEndsAtEof(c) ==
  /\ Running(c, "stream") /\ box = "running"
  /\ alone[c] => moved[c] = Len(file)
  /\ Return(c, "nil")
  /\ UNCHANGED <<box, fileVars>>

\* The stream ends when cat does, at the end of the file or with the sandbox.
\* Neither is an error to StdCopy.
StreamEnds(c) ==
  /\ Running(c, "stream")
  /\ box = "running" /\ alone[c] => moved[c] = Len(file)
  /\ cut' = [cut EXCEPT ![c] = box # "running"]
  /\ Return(c, "nil")
  /\ UNCHANGED <<box, file, fd, moved, alone>>

\* The guest kills cat, or cat could not be started: its status is never asked for.
StreamKilled(c) ==
  /\ Running(c, "stream") /\ box = "running"
  /\ "kill" \in Faults
  /\ cut' = [cut EXCEPT ![c] = TRUE]
  /\ Return(c, "nil")
  /\ UNCHANGED <<box, file, fd, moved, alone>>

\* Mutant of StreamFails: the handler returns normally, and the server frames
\* what was written as the whole answer.
StreamFailsQuietly(c) ==
  /\ Running(c, "stream")
  /\ ~ctx[c] \/ "docker" \in Faults
  /\ Return(c, "nil")
  /\ UNCHANGED <<box, fileVars>>

\* A read from Docker or a write to the client fails: the handler aborts.
StreamFails(c) ==
  /\ Running(c, "stream")
  /\ ~ctx[c] \/ "docker" \in Faults
  /\ Return(c, "aborted")
  /\ UNCHANGED <<box, fileVars>>

-----------------------------------------------------------------------------
(* Others who touch the file.                                               *)

\* A command of a caller's removes it.
RunRemoves(c) ==
  /\ Running(c, "run") /\ box = "running"
  /\ file # Absent
  /\ file' = Absent
  /\ fd' = [d \in Callers |-> FALSE]
  /\ alone' = [d \in Callers |-> FALSE]
  /\ UNCHANGED <<box, callVars, moved, cut>>

\* The call is over.
TransferOver(c) ==
  /\ moved' = [moved EXCEPT ![c] = IF fd[c] THEN @ ELSE 0]
  /\ alone' = [alone EXCEPT ![c] = FALSE]
  /\ cut' = [cut EXCEPT ![c] = FALSE]
  /\ UNCHANGED <<file, fd>>

\* With the sandbox goes its tmpfs.
FilesGo ==
  /\ file' = Absent
  /\ fd' = [d \in Callers |-> FALSE]
  /\ alone' = [d \in Callers |-> FALSE]
  /\ UNCHANGED <<moved, cut>>

-----------------------------------------------------------------------------
(***************************************************************************)
(* A transfer reported done is whole, when nothing else touched the file    *)
(* meanwhile.  A write the daemon answers 204 has put the whole body at the *)
(* path.  A read that reaches its end without error has delivered the whole *)
(* file, or the sandbox itself ended its cat: "a partial read surfaces as a *)
(* short body" (sandbox.go:448).  A request that breaks off, a full disk, a *)
(* Docker stream or a client that fails under either copy, all are told.    *)
(***************************************************************************)
TransferWhole ==
  \A c \in Callers :
    pc[c] = "answer" /\ err[c] = "nil" /\ alone[c] =>
      /\ op[c] = "write" => file = Whole(c)
      /\ op[c] = "read" /\ ~cut[c] => file # Absent /\ moved[c] = Len(file)
=============================================================================
