----------------------------- MODULE GuestProofs ----------------------------
(***************************************************************************)
(* The invariants and the action properties of Guest for any callers, any   *)
(* plans, any pids, any length of body and any faults.  The inductive       *)
(* invariant has a part for the calls, one for the scripts and one for the  *)
(* file.                                                                    *)
(***************************************************************************)
EXTENDS Guest, FiniteSetTheorems, TLAPS

\* First-order steps go to Zenon; a step that counts or takes a sequence apart
\* cites SMT.
USE Zenon

\* An exec is the handler's of the caller's operation, and an answer carries an
\* error of the library.
CallInv(c) ==
  /\ on[c] => pc[c] \in Execs
  /\ pc[c] = "run" => op[c] = "exec"
  /\ pc[c] = "script" => op[c] = "start"
  /\ pc[c] \in {"mkdir", "cat", "chmod"} => op[c] = "write"
  /\ pc[c] \in {"probe", "stream"} => op[c] = "read"
  /\ pc[c] = "answer" => err[c] \in Sentinels \cup {"nil", "other", "aborted"}

CallType ==
  /\ box \in {"running", "stopped", "gone"}
  /\ op \in [Callers -> Ops]
  /\ pc \in [Callers -> Execs \cup {"idle", "open", "answer"}]
  /\ on \in [Callers -> BOOLEAN] /\ ctx \in [Callers -> BOOLEAN]
  /\ err \in [Callers -> Errors]

CallPart == CallType /\ \A c \in Callers : CallInv(c)

\* As long as nothing has crossed, one script is at work at a time; the pid file
\* names whatever runs, but for the process a script has started and not yet
\* recorded, and a script that is about to start one found none.
SerialInv ==
  ~crossed =>
    /\ \A c, d \in Callers : script[c] \in Statements /\ script[d] \in Statements => c = d
    /\ (\A c \in Callers : script[c] # "echo") => running \subseteq {pidfile}
    /\ \A c \in Callers : script[c] = "spawn" => running = {}
    /\ \A c \in Callers : script[c] = "echo" => running \subseteq {bg[c]}

ProcType ==
  /\ running \subseteq Pids
  /\ pidfile \in Pids \cup {NoPid} /\ reused \in BOOLEAN
  /\ script \in [Callers -> Statements \cup Exited \cup {"none"}]
  /\ bg \in [Callers -> Pids \cup {NoPid}]
  /\ crossed \in BOOLEAN

ProcPart == ProcType /\ SerialInv

\* A transfer nobody disturbs: what cat has written is the file, and what is read
\* is no more than the file.  A cat that has the file open is waited for, or its
\* call has failed.
TransferInv(c) ==
  /\ box # "running" => ~alone[c] /\ ~fd[c]
  /\ alone[c] => pc[c] \in {"chmod", "stream", "answer"} \/ (pc[c] = "cat" /\ on[c])
  /\ fd[c] => /\ file # Absent
              /\ \/ pc[c] = "cat" /\ on[c]
                 \/ pc[c] = "answer" /\ err[c] # "nil"
                 \/ pc[c] = "idle"
  /\ pc[c] = "cat" /\ alone[c] => fd[c] /\ file = [i \in 1..moved[c] |-> c]
  /\ pc[c] = "chmod" /\ alone[c] /\ (ctx[c] \/ on[c]) => file = Whole(c)
  /\ pc[c] = "stream" /\ alone[c] => file # Absent /\ moved[c] <= Len(file)
  /\ pc[c] = "answer" /\ err[c] = "nil" /\ alone[c] =>
       /\ op[c] = "write" => file = Whole(c)
       /\ op[c] = "read" /\ ~cut[c] => file # Absent /\ moved[c] = Len(file)

FileType ==
  /\ file = Absent \/ (file \in Seq(Callers \cup {Hole}) /\ Len(file) <= Chunks)
  /\ box # "running" => file = Absent
  /\ fd \in [Callers -> BOOLEAN] /\ alone \in [Callers -> BOOLEAN] /\ cut \in [Callers -> BOOLEAN]
  /\ moved \in [Callers -> 0..Chunks]

FilePart == FileType /\ \A c \in Callers : TransferInv(c)

GuestInv == CallPart /\ ProcPart /\ FilePart

-----------------------------------------------------------------------------
LEMMA GuestStarts == Init => GuestInv
<1> SUFFICES ASSUME Init PROVE GuestInv OBVIOUS
<1> USE DEF Init, CallsInit, ProcessInit, FilesInit
<1>1. CallPart BY CallPlans DEF CallPart, CallType, CallInv, Errors, Execs
<1>2. ProcPart BY DEF ProcPart, ProcType, SerialInv, Statements
<1>3. FilePart BY SMT, ChunksPositive DEF FilePart, FileType, TransferInv
<1>4. QED BY <1>1, <1>2, <1>3 DEF GuestInv

\* A part of the state a step leaves alone.
LEMMA ProcAlone == ASSUME ProcPart, UNCHANGED procVars PROVE ProcPart'
BY DEF ProcPart, ProcType, SerialInv, procVars

LEMMA CallsAlone == ASSUME CallPart, UNCHANGED <<box, callVars>> PROVE CallPart'
BY DEF CallPart, CallType, CallInv, callVars

LEMMA FilesAlone == ASSUME FilePart, UNCHANGED <<box, callVars, fileVars>> PROVE FilePart'
BY DEF FilePart, FileType, TransferInv, callVars, fileVars

\* The transfer of a caller a step has nothing to do with.
LEMMA OtherTransfers ==
  ASSUME FilePart, NEW d \in Callers, UNCHANGED <<box, file>>,
         pc'[d] = pc[d], on'[d] = on[d], ctx'[d] = ctx[d], err'[d] = err[d], op'[d] = op[d],
         fd'[d] = fd[d], alone'[d] = alone[d], moved'[d] = moved[d], cut'[d] = cut[d]
  PROVE  TransferInv(d)'
BY DEF FilePart, TransferInv, Whole

\* KindOf and ErrorFor undo each other on every sentinel.
LEMMA ErrorsCross ==
  \A e \in Sentinels \cup {"nil", "other", "aborted"} :
    Outcome(e) = IF e = "other" THEN "ErrInternal" ELSE e
BY SMT DEF Sentinels, Outcome, KindOf, ErrorFor

-----------------------------------------------------------------------------
(* How a handler moves on.  None of it touches the file.                    *)

\* It returns an error.
LEMMA FailureReturns ==
  ASSUME CallPart, FilePart, NEW c \in Callers, NEW e \in Sentinels \cup {"other", "aborted"},
         Return(c, e), UNCHANGED <<box, fileVars>>
  PROVE  CallPart' /\ FilePart'
<1>1. e # "nil" BY DEF Sentinels
<1>2. CallPart' BY DEF CallPart, CallType, CallInv, Return, Execs, Errors
<1>3. FileType' BY DEF FilePart, FileType, fileVars
<1>4. TransferInv(c)' BY <1>1 DEF FilePart, TransferInv, CallPart, CallType, Return, fileVars
<1>5. ASSUME NEW d \in Callers, d # c PROVE TransferInv(d)'
  BY <1>5, OtherTransfers DEF CallPart, CallType, Return, fileVars
<1>6. QED BY <1>2, <1>3, <1>4, <1>5 DEF FilePart

\* It returns nil.
LEMMA SuccessReturns ==
  ASSUME CallPart, FilePart, NEW c \in Callers, Return(c, "nil"), UNCHANGED <<box, file, fd, moved, alone>>,
         NEW b \in BOOLEAN, cut' = [cut EXCEPT ![c] = b],
         ~fd[c],
         op[c] = "write" /\ alone[c] => file = Whole(c),
         op[c] = "read" /\ alone[c] /\ ~b => file # Absent /\ moved[c] = Len(file)
  PROVE  CallPart' /\ FilePart'
<1>1. CallPart' BY DEF CallPart, CallType, CallInv, Return, Execs, Errors
<1>2. FileType' BY DEF FilePart, FileType
<1>3. cut'[c] = b BY DEF FilePart, FileType
<1>4. TransferInv(c)' BY <1>3 DEF FilePart, TransferInv, CallPart, CallType, Return, Whole
<1>5. ASSUME NEW d \in Callers, d # c PROVE TransferInv(d)'
  BY <1>5, OtherTransfers DEF CallPart, CallType, FilePart, FileType, Return
<1>6. QED BY <1>1, <1>2, <1>4, <1>5 DEF FilePart

\* It returns nil and is no read.
LEMMA OtherReturns ==
  ASSUME CallPart, FilePart, NEW c \in Callers, Return(c, "nil"), UNCHANGED <<box, fileVars>>,
         ~fd[c], op[c] # "read",
         op[c] = "write" /\ alone[c] => file = Whole(c)
  PROVE  CallPart' /\ FilePart'
<1>1. cut[c] \in BOOLEAN /\ cut' = [cut EXCEPT ![c] = cut[c]] BY DEF FilePart, FileType, fileVars
<1>2. QED BY <1>1, SuccessReturns DEF fileVars

\* It goes on to its first exec, or from mkdir to cat.
LEMMA FirstGoes ==
  ASSUME CallPart, FilePart, NEW c \in Callers, NEW step \in Execs, Goto(c, step),
         UNCHANGED <<box, fileVars>>,
         pc[c] \in {"open", "mkdir"}, step \notin {"chmod", "stream"},
         step = "run" => op[c] = "exec",
         step = "script" => op[c] = "start",
         step \in {"mkdir", "cat"} => op[c] = "write",
         step = "probe" => op[c] = "read"
  PROVE  CallPart' /\ FilePart'
<1>1. ~alone[c] /\ ~fd[c] BY DEF FilePart, TransferInv
<1>2. CallPart'
  <2>1. CallType' BY DEF CallPart, CallType, Goto
  <2>2. CallInv(c)'
    <3>1. pc'[c] = step /\ op'[c] = op[c] /\ ~on'[c] BY DEF CallPart, CallType, Goto
    <3>2. step # "answer" BY DEF Execs
    <3>3. QED BY <3>1, <3>2 DEF CallInv
  <2>3. ASSUME NEW d \in Callers, d # c PROVE CallInv(d)'
    BY <2>3 DEF CallPart, CallType, CallInv, Goto
  <2>4. QED BY <2>1, <2>2, <2>3 DEF CallPart
<1>3. FilePart'
  BY SMT, <1>1 DEF FilePart, FileType, TransferInv, CallPart, CallType, Goto, fileVars, Execs
<1>4. QED BY <1>2, <1>3

\* An exec other than the write's cat begins.
LEMMA ExecStarts ==
  ASSUME CallPart, FilePart, NEW c \in Callers, ExecBegins(c), pc[c] # "cat",
         UNCHANGED <<box, fileVars>>
  PROVE  CallPart' /\ FilePart'
<1>1. CallPart' BY DEF CallPart, CallType, CallInv, ExecBegins, Execs
<1>2. FilePart'
  BY DEF FilePart, FileType, TransferInv, CallPart, CallType, ExecBegins, Answered, fileVars
<1>3. QED BY <1>1, <1>2

\* An exec is cut short, or lost.
LEMMA ExecCutReturns ==
  ASSUME CallPart, FilePart, NEW c \in Callers, ExecCutShort(c) \/ ExecLost(c),
         UNCHANGED <<box, fileVars>>
  PROVE  CallPart' /\ FilePart'
<1>1. CASE Return(c, "ErrTimeout") BY <1>1, FailureReturns DEF Sentinels
<1>2. CASE Return(c, "other") BY <1>2, FailureReturns
<1>3. QED BY <1>1, <1>2 DEF ExecCutShort, ExecLost

-----------------------------------------------------------------------------
(* The steps of a call and its handler.                                     *)

LEMMA CallStep ==
  ASSUME CallPart, FilePart, NEW c \in Callers, ~fd[c], Call(c), UNCHANGED
         <<box, fileVars>>
  PROVE  CallPart' /\ FilePart'
<1> USE DEF fileVars
<1>1. CallPart' BY DEF Call, CallPart, CallType, CallInv, Execs, Errors
<1>2. FilePart'
  BY SMT, ChunksPositive, AbsentNoFile
  DEF Call, FilePart, FileType, TransferInv, CallPart, CallType, CallInv, Execs
<1>3. QED BY <1>1, <1>2

LEMMA ClientRefusesStep ==
  ASSUME CallPart, FilePart, NEW c \in Callers, ~fd[c], ClientRefuses(c), UNCHANGED
         <<box, fileVars>>
  PROVE  CallPart' /\ FilePart'
<1> USE DEF fileVars
<1>1. CallPart' BY DEF ClientRefuses, CallPart, CallType, CallInv, Execs, Errors, Sentinels
<1>2. FilePart'
  BY SMT, ChunksPositive, AbsentNoFile
  DEF ClientRefuses, FilePart, FileType, TransferInv, CallPart, CallType, CallInv, Execs
<1>3. QED BY <1>1, <1>2

LEMMA HandlerOpensStep ==
  ASSUME CallPart, FilePart, NEW c \in Callers, HandlerOpens(c), UNCHANGED <<box, fileVars>>
  PROVE  CallPart' /\ FilePart'
<1>1. CASE Goto(c, First[op[c]])
  <2>1. /\ First[op[c]] \in {"run", "script", "mkdir", "probe"}
        /\ First[op[c]] = "run" => op[c] = "exec"
        /\ First[op[c]] = "script" => op[c] = "start"
        /\ First[op[c]] = "mkdir" => op[c] = "write"
        /\ First[op[c]] = "probe" => op[c] = "read"
    <3>1. op[c] \in Ops BY DEF CallPart, CallType
    <3>2. QED BY SMT, <3>1 DEF First, Ops
  <2>2. QED BY <1>1, <2>1, FirstGoes DEF HandlerOpens, Execs
<1>2. CASE Return(c, "ErrNotFound") BY <1>2, FailureReturns DEF Sentinels
<1>3. CASE Return(c, "other") BY <1>3, FailureReturns
<1>4. QED BY <1>1, <1>2, <1>3 DEF HandlerOpens

LEMMA ExecRefusedStep ==
  ASSUME CallPart, FilePart, NEW c \in Callers, ExecRefused(c), UNCHANGED <<box, fileVars>>
  PROVE  CallPart' /\ FilePart'
<1>1. CASE Return(c, "ErrStopped") BY <1>1, FailureReturns DEF Sentinels
<1>2. CASE Return(c, "ErrNotFound") BY <1>2, FailureReturns DEF Sentinels
<1>3. CASE Return(c, "other") BY <1>3, FailureReturns
<1>4. QED BY <1>1, <1>2, <1>3 DEF ExecRefused

LEMMA ExecDiesStep ==
  ASSUME CallPart, FilePart, NEW c \in Callers, ExecDies(c), UNCHANGED <<box, fileVars>>
  PROVE  CallPart' /\ FilePart'
<1>1. CASE Return(c, "ErrNotFound") BY <1>1, FailureReturns DEF Sentinels
<1>2. CASE Return(c, "other") BY <1>2, FailureReturns
<1>3. CASE pc[c] = "run" /\ Return(c, "nil")
  <2>1. op[c] = "exec" /\ ~fd[c] BY <1>3 DEF CallPart, CallInv, FilePart, TransferInv
  <2>2. QED BY <1>3, <2>1, OtherReturns
<1>4. QED BY <1>1, <1>2, <1>3 DEF ExecDies

LEMMA RunEndsStep ==
  ASSUME CallPart, FilePart, NEW c \in Callers, RunEnds(c), UNCHANGED <<box, fileVars>>
  PROVE  CallPart' /\ FilePart'
<1>1. op[c] = "exec" /\ ~fd[c] BY DEF RunEnds, Running, CallPart, CallInv, FilePart, TransferInv
<1>2. QED BY <1>1, OtherReturns DEF RunEnds

LEMMA GivesUpStep ==
  ASSUME CallPart, FilePart, NEW c \in Callers, GivesUp(c), UNCHANGED <<box, fileVars>>
  PROVE  CallPart' /\ FilePart'
<1> USE DEF fileVars
<1>1. CallPart' BY DEF GivesUp, CallPart, CallType, CallInv, Execs
<1>2. FilePart'
  BY SMT, ChunksPositive, AbsentNoFile
  DEF GivesUp, FilePart, FileType, TransferInv, CallPart, CallType, CallInv, Execs
<1>3. QED BY <1>1, <1>2

LEMMA InvalidStep ==
  ASSUME CallPart, FilePart, NEW c \in Callers, Invalid(c), UNCHANGED <<box, fileVars>>
  PROVE  CallPart' /\ FilePart'
BY FailureReturns DEF Invalid, Sentinels

LEMMA AnswerStep ==
  ASSUME CallPart, FilePart, NEW c \in Callers, Answer(c), TransferOver(c), UNCHANGED box
  PROVE  CallPart' /\ FilePart'
<1>1. CallPart'
  <2>1. Outcome(err[c]) \in Errors BY ErrorsCross DEF Answer, CallPart, CallInv, Errors
  <2>2. QED BY <2>1 DEF Answer, CallPart, CallType, CallInv, Execs, Errors
<1>2. FilePart'
  <2>1. FileType'
    <3>1. 0 \in 0..Chunks BY SMT, ChunksPositive
    <3>2. QED BY <3>1 DEF TransferOver, FilePart, FileType
  <2>2. TransferInv(c)'
    BY DEF Answer, TransferOver, FilePart, FileType, TransferInv, CallPart, CallType
  <2>3. ASSUME NEW d \in Callers, d # c PROVE TransferInv(d)'
    BY <2>3, OtherTransfers DEF Answer, TransferOver, FilePart, FileType, CallPart, CallType
  <2>4. QED BY <2>1, <2>2, <2>3 DEF FilePart
<1>3. QED BY <1>1, <1>2

-----------------------------------------------------------------------------
(* The steps of a transfer.                                                 *)

LEMMA MkdirEndsStep ==
  ASSUME CallPart, FilePart, NEW c \in Callers, MkdirEnds(c)
  PROVE  CallPart' /\ FilePart'
<1>1. CASE Goto(c, "cat")
  BY <1>1, FirstGoes DEF MkdirEnds, Running, Execs, CallPart, CallInv
<1>2. CASE Return(c, "other") BY <1>2, FailureReturns DEF MkdirEnds
<1>3. QED BY <1>1, <1>2 DEF MkdirEnds

LEMMA CatBeginsStep ==
  ASSUME CallPart, FilePart, NEW c \in Callers, CatBegins(c)
  PROVE  CallPart' /\ FilePart'
<1> USE DEF fileVars, callVars
<1>1. CallPart' BY DEF CatBegins, ExecBegins, Answered, CallPart, CallType, CallInv, Execs
<1>2. FilePart'
  <2>0. <<>> \in Seq(Callers \cup {Hole}) /\ Len(<<>>) = 0 BY SMT
  <2>1. file' = <<>> /\ file' # Absent /\ file' \in Seq(Callers \cup {Hole}) /\ Len(file') = 0
    BY <2>0, AbsentNoFile DEF CatBegins
  <2> USE DEF CatBegins, ExecBegins, CallPart, CallType, FilePart, FileType
  <2>2. FileType' BY SMT, <2>1, ChunksPositive
  <2>3. ASSUME NEW d \in Callers PROVE TransferInv(d)'
    <3>1. CASE d = c
      <4>1. moved'[c] = 0 /\ fd'[c] /\ alone'[c] BY DEF FileType
      <4>2. <<>> = [i \in 1..0 |-> c] BY SMT
      <4>3. QED BY SMT, <2>1, <3>1, <4>1, <4>2 DEF TransferInv
    <3>2. CASE d # c BY <2>1, <3>2 DEF TransferInv
    <3>3. QED BY <3>1, <3>2
  <2>4. QED BY <2>2, <2>3
<1>3. QED BY <1>1, <1>2

LEMMA CatWritesStep ==
  ASSUME CallPart, FilePart, NEW c \in Callers, CatWrites(c)
  PROVE  CallPart' /\ FilePart'
<1> USE DEF fileVars, callVars
<1>1. CallPart' BY DEF CatWrites, CallPart, CallType, CallInv, Execs
<1>2. FilePart'
  <2> USE DEF CallPart, CallType, FilePart
  <2>1. /\ fd[c] /\ moved[c] \in 0..Chunks /\ moved[c] < Chunks
        /\ file # Absent /\ file \in Seq(Callers \cup {Hole}) /\ Len(file) <= Chunks
        /\ box = "running"
    BY DEF CatWrites, FileType, TransferInv
  <2> DEFINE at == moved[c] + 1
             length == IF at > Len(file) THEN at ELSE Len(file)
  <2>2. length \in 0..Chunks /\ at \in 1..length BY SMT, <2>1, ChunksPositive
  <2>3. file' = [i \in 1..length |-> IF i = at THEN c ELSE IF i <= Len(file) THEN file[i] ELSE Hole]
    BY DEF CatWrites
  <2>4. file' \in Seq(Callers \cup {Hole}) /\ Len(file') = length /\ file' # Absent
    <3>1. ASSUME NEW i \in 1..length
          PROVE  (IF i = at THEN c ELSE IF i <= Len(file) THEN file[i] ELSE Hole) \in Callers \cup {Hole}
      BY SMT, <2>1, <2>2
    <3> HIDE DEF at, length
    <3>2. file' \in [1..length -> Callers \cup {Hole}] BY <2>3, <3>1
    <3>3. length \in Nat BY SMT, <2>2, ChunksPositive
    <3>4. QED BY SMT, <3>2, <3>3, AbsentNoFile
  <2>5. UNCHANGED <<box, callVars, fd, cut>> BY DEF CatWrites
  <2>6. alone' = [d \in Callers |-> d = c /\ alone[d]] /\ moved' = [moved EXCEPT ![c] = @ + 1]
    BY DEF CatWrites
  <2>7. FileType' BY SMT, <2>1, <2>2, <2>4, <2>5, <2>6, ChunksPositive DEF FileType
  <2>8. ASSUME NEW d \in Callers PROVE TransferInv(d)'
    <3>1. CASE d = c
      <4>1. CASE pc[c] = "cat" /\ alone[c]
        <5>1. file = [i \in 1..moved[c] |-> c] /\ Len(file) = moved[c] BY SMT, <2>1, <4>1 DEF TransferInv
        <5>2. moved'[c] = moved[c] + 1 BY <2>6 DEF FileType
        <5>3. file' = [i \in 1..moved'[c] |-> c] BY SMT, <2>1, <2>3, <5>1, <5>2
        <5>4. QED BY <2>1, <2>4, <2>5, <3>1, <4>1, <5>3 DEF TransferInv
      <4>2. CASE ~(pc[c] = "cat" /\ alone[c])
        BY <2>1, <2>4, <2>5, <2>6, <3>1, <4>2
        DEF TransferInv, FileType
      <4>3. QED BY <4>1, <4>2
    <3>2. CASE d # c
      <4>1. ~alone'[d] BY <2>6, <3>2 DEF FileType
      <4>2. QED BY <2>1, <2>4, <2>5, <3>2, <4>1 DEF TransferInv
    <3>3. QED BY <3>1, <3>2
  <2>9. QED BY <2>7, <2>8
<1>3. QED BY <1>1, <1>2

LEMMA CatWritesAwayStep ==
  ASSUME CallPart, FilePart, NEW c \in Callers, CatWritesAway(c)
  PROVE  CallPart' /\ FilePart'
<1> USE DEF fileVars, callVars
<1>1. CallPart' BY DEF CatWritesAway, Running, CallPart, CallType, CallInv, Execs
<1>2. FilePart'
  <2>1. FileType'
    <3>1. moved[c] + 1 \in 0..Chunks
      BY SMT, ChunksPositive DEF CatWritesAway, FilePart, FileType
    <3>2. QED BY <3>1 DEF CatWritesAway, FilePart, FileType
  <2>2. TransferInv(c)'
    BY DEF CatWritesAway, Running, FilePart, TransferInv
  <2>3. ASSUME NEW d \in Callers, d # c PROVE TransferInv(d)'
    BY <2>3, OtherTransfers DEF CatWritesAway, FilePart, FileType
  <2>4. QED BY <2>1, <2>2, <2>3 DEF FilePart
<1>3. QED BY <1>1, <1>2

LEMMA Closes == ASSUME FilePart, NEW c \in Callers, Close(c) PROVE FileType'
BY DEF FilePart, FileType, Close

\* cat is gone and its call fails.
LEMMA ClosesFailing ==
  ASSUME CallPart, FilePart, NEW c \in Callers, NEW e \in {"ErrTimeout", "other"}, Return(c, e),
         Close(c)
  PROVE  CallPart' /\ FilePart'
<1>1. e \in Sentinels \cup {"other"} /\ e # "nil" BY DEF Sentinels
<1>2. CallPart' BY <1>1 DEF Close, Return, CallPart, CallType, CallInv, Execs, Errors
<1>3. TransferInv(c)'
  BY <1>1 DEF Close, Return, CallPart, CallType, FilePart, FileType, TransferInv
<1>4. ASSUME NEW d \in Callers, d # c PROVE TransferInv(d)'
  BY <1>4, OtherTransfers DEF Close, Return, CallPart, CallType, FilePart, FileType
<1>5. QED BY <1>2, <1>3, <1>4, Closes DEF FilePart

LEMMA CatEndsStep ==
  ASSUME CallPart, FilePart, NEW c \in Callers, CatEnds(c)
  PROVE  CallPart' /\ FilePart'
<1>1. pc[c] = "cat" /\ on[c] /\ op[c] = "write" BY DEF CatEnds, Running, CallPart, CallInv
<1>2. Close(c) BY DEF CatEnds
<1>3. CASE (moved[c] = Chunks \/ ~ctx[c]) /\ Goto(c, "chmod")
  <2>1. CallPart' BY <1>1, <1>2, <1>3 DEF CallPart, CallType, CallInv, Goto, Execs, Close
  <2>2. TransferInv(c)'
    BY <1>1, <1>2, <1>3 DEF FilePart, FileType, TransferInv, CallPart, CallType, Goto, Close, Whole
  <2>3. ASSUME NEW d \in Callers, d # c PROVE TransferInv(d)'
    BY <1>2, <1>3, <2>3, OtherTransfers DEF CallPart, CallType, FilePart, FileType, Goto, Close
  <2>4. QED BY <1>2, <2>1, <2>2, <2>3, Closes DEF FilePart
<1>4. CASE Return(c, "other") BY <1>2, <1>4, ClosesFailing
<1>5. QED BY <1>3, <1>4 DEF CatEnds

LEMMA CatCutStep ==
  ASSUME CallPart, FilePart, NEW c \in Callers, CatCut(c)
  PROVE  CallPart' /\ FilePart'
<1>1. CASE Close(c)
  <2>1. PICK e \in {"ErrTimeout", "other"} : Return(c, e) BY DEF CatCut, ExecCutShort
  <2>2. QED BY <1>1, <2>1, ClosesFailing
<1>2. CASE UNCHANGED <<box, fileVars>> BY <1>2, ExecCutReturns DEF CatCut
<1>3. QED BY <1>1, <1>2 DEF CatCut

LEMMA CatForgottenStep ==
  ASSUME CallPart, FilePart, NEW c \in Callers, CatForgotten(c)
  PROVE  CallPart' /\ FilePart'
<1> USE DEF fileVars, callVars
<1>1. CallPart' BY DEF CatForgotten, Running, CallPart, CallType, CallInv, Execs
<1>2. FilePart'
  <2>1. FileType'
    <3>1. 0 \in 0..Chunks BY SMT, ChunksPositive
    <3>2. QED BY <3>1 DEF CatForgotten, FilePart, FileType
  <2>2. TransferInv(c)'
    BY DEF CatForgotten, Running, FilePart, FileType, TransferInv
  <2>3. ASSUME NEW d \in Callers, d # c PROVE TransferInv(d)'
    BY <2>3, OtherTransfers DEF CatForgotten, FilePart, FileType
  <2>4. QED BY <2>1, <2>2, <2>3 DEF FilePart
<1>3. QED BY <1>1, <1>2

LEMMA ChmodEndsStep ==
  ASSUME CallPart, FilePart, NEW c \in Callers, ChmodEnds(c)
  PROVE  CallPart' /\ FilePart'
<1>1. CASE Return(c, "other") BY <1>1, FailureReturns DEF ChmodEnds
<1>2. CASE Return(c, "nil")
  <2>1. ~fd[c] /\ op[c] = "write" /\ (alone[c] => file = Whole(c))
    BY DEF ChmodEnds, Running, CallPart, CallInv, FilePart, TransferInv
  <2>2. QED BY <1>2, <2>1, OtherReturns DEF ChmodEnds
<1>3. QED BY <1>1, <1>2 DEF ChmodEnds

LEMMA ProbeEndsStep ==
  ASSUME CallPart, FilePart, NEW c \in Callers, ProbeEnds(c)
  PROVE  CallPart' /\ FilePart'
<1>1. CallPart'
  <2> USE DEF ProbeEnds, Running, CallPart, CallType, CallInv, Execs
  <2>1. CASE Goto(c, "stream") BY <2>1 DEF Goto
  <2>2. CASE Return(c, "ErrNotFound") BY SMT, <2>2 DEF Return, Errors, Sentinels
  <2>3. QED BY <2>1, <2>2
<1>2. FilePart'
  <2>1. FileType'
    <3>1. UNCHANGED <<box, file, fd, cut>> /\ moved' = [moved EXCEPT ![c] = 0] BY DEF ProbeEnds
    <3>2. alone' \in [Callers -> BOOLEAN]
      <4>1. CASE UNCHANGED alone BY <4>1 DEF FilePart, FileType
      <4>2. CASE alone' = [alone EXCEPT ![c] = TRUE] BY <4>2 DEF FilePart, FileType
      <4>3. QED BY <4>1, <4>2 DEF ProbeEnds
    <3>3. moved' \in [Callers -> 0..Chunks] BY SMT, <3>1, ChunksPositive DEF FilePart, FileType
    <3>4. QED BY <3>1, <3>2, <3>3 DEF FilePart, FileType
  <2>2. TransferInv(c)'
    <3>1. ~fd[c] /\ ~alone[c] /\ box = "running" BY DEF ProbeEnds, Running, FilePart, TransferInv
    <3>2. CASE Return(c, "ErrNotFound") /\ UNCHANGED alone
      <4>1. pc'[c] = "answer" BY <3>2 DEF Return, CallPart, CallType
      <4>2. QED BY <3>1, <3>2, <4>1 DEF ProbeEnds, TransferInv
    <3>3. CASE file # Absent /\ Goto(c, "stream")
      <4>1. moved'[c] = 0 BY DEF ProbeEnds, FilePart, FileType
      <4>2. file \in Seq(Callers \cup {Hole}) BY <3>3 DEF FilePart, FileType
      <4>3. 0 <= Len(file) BY SMT, <4>2
      <4>4. pc'[c] = "stream" BY <3>3 DEF Goto, CallPart, CallType
      <4>5. QED BY <3>1, <3>3, <4>1, <4>3, <4>4 DEF ProbeEnds, TransferInv
    <3>4. QED BY <3>2, <3>3 DEF ProbeEnds
  <2>3. ASSUME NEW d \in Callers, d # c PROVE TransferInv(d)'
    <3>1. /\ pc'[d] = pc[d] /\ on'[d] = on[d] /\ ctx'[d] = ctx[d] /\ err'[d] = err[d]
          /\ op'[d] = op[d] /\ fd'[d] = fd[d] /\ alone'[d] = alone[d] /\ moved'[d] = moved[d]
          /\ cut'[d] = cut[d]
      <4>1. fd'[d] = fd[d] /\ moved'[d] = moved[d] /\ cut'[d] = cut[d] BY <2>3 DEF ProbeEnds, FilePart, FileType
      <4>2. alone'[d] = alone[d] BY <2>3 DEF ProbeEnds, FilePart, FileType
      <4>3. Goto(c, "stream") \/ Return(c, "ErrNotFound") BY DEF ProbeEnds
      <4>4. /\ pc'[d] = pc[d] /\ on'[d] = on[d] /\ ctx'[d] = ctx[d] /\ err'[d] = err[d]
            /\ op'[d] = op[d]
        BY <2>3, <4>3 DEF CallPart, CallType, Goto, Return
      <4>5. QED BY <4>1, <4>2, <4>4
    <3>2. QED BY <3>1, OtherTransfers DEF ProbeEnds
  <2>4. QED BY <2>1, <2>2, <2>3 DEF FilePart
<1>3. QED BY <1>1, <1>2

LEMMA StreamBeginsStep ==
  ASSUME CallPart, FilePart, NEW c \in Callers, StreamBegins(c)
  PROVE  CallPart' /\ FilePart'
BY ExecStarts DEF StreamBegins

LEMMA StreamCopiesStep ==
  ASSUME CallPart, FilePart, NEW c \in Callers, StreamCopies(c)
  PROVE  CallPart' /\ FilePart'
<1> USE DEF fileVars, callVars
<1>1. CallPart' BY DEF StreamCopies, Running, CallPart, CallType, CallInv, Execs
<1>2. FilePart'
  <2>1. moved[c] \in 0..Chunks /\ (alone[c] => moved[c] + 1 <= Len(file)) /\ moved[c] + 1 \in 0..Chunks
    <3>1. /\ moved[c] \in 0..Chunks /\ moved[c] < (IF alone[c] THEN Len(file) ELSE Chunks)
          /\ alone[c] => file \in Seq(Callers \cup {Hole}) /\ Len(file) <= Chunks
      BY DEF StreamCopies, Running, FilePart, FileType, TransferInv
    <3>2. QED BY SMT, <3>1, ChunksPositive
  <2>2. FileType' BY <2>1 DEF StreamCopies, FilePart, FileType
  <2>3. moved'[c] = moved[c] + 1 BY DEF StreamCopies, FilePart, FileType
  <2>4. TransferInv(c)' BY <2>1, <2>3 DEF StreamCopies, Running, FilePart, TransferInv
  <2>5. ASSUME NEW d \in Callers, d # c PROVE TransferInv(d)'
    BY <2>5, OtherTransfers DEF StreamCopies, FilePart, FileType
  <2>6. QED BY <2>2, <2>4, <2>5 DEF FilePart
<1>3. QED BY <1>1, <1>2

LEMMA StreamEndsStep ==
  ASSUME CallPart, FilePart, NEW c \in Callers, StreamEnds(c)
  PROVE  CallPart' /\ FilePart'
<1>1. ~fd[c] /\ op[c] = "read" /\ (alone[c] => file # Absent /\ moved[c] = Len(file))
  BY DEF StreamEnds, Running, CallPart, CallInv, FilePart, TransferInv
<1>2. QED BY <1>1, SuccessReturns DEF StreamEnds

LEMMA StreamKilledStep ==
  ASSUME CallPart, FilePart, NEW c \in Callers, StreamKilled(c)
  PROVE  CallPart' /\ FilePart'
<1>1. ~fd[c] /\ op[c] = "read" BY DEF StreamKilled, Running, CallPart, CallInv, FilePart, TransferInv
<1>2. QED BY <1>1, SuccessReturns DEF StreamKilled

LEMMA StreamFailsStep ==
  ASSUME CallPart, FilePart, NEW c \in Callers, StreamFails(c)
  PROVE  CallPart' /\ FilePart'
BY FailureReturns DEF StreamFails

LEMMA RunRemovesStep ==
  ASSUME CallPart, FilePart, NEW c \in Callers, RunRemoves(c)
  PROVE  CallPart' /\ FilePart'
<1> USE DEF fileVars, callVars
<1>1. CallPart' BY DEF RunRemoves, Running, CallPart, CallType, CallInv, Execs
<1>2. FilePart'
  BY ChunksPositive, AbsentNoFile
  DEF RunRemoves, Running, FilePart, FileType, TransferInv, CallPart, CallType, CallInv, Execs
<1>3. QED BY <1>1, <1>2

-----------------------------------------------------------------------------
(* The steps of a script.                                                   *)

LEMMA ScriptBeginsStep ==
  ASSUME CallPart, ProcPart, FilePart, NEW c \in Callers, ScriptBegins(c), UNCHANGED fileVars
  PROVE  GuestInv'
<1>1. CallPart' /\ FilePart' BY ExecStarts DEF ScriptBegins
<1>2. ProcPart'
  BY ProcessPids
  DEF ScriptBegins, ExecBegins, Answered, ProcPart, ProcType, SerialInv, Statements, Exited,
      Return
<1>3. QED BY <1>1, <1>2 DEF GuestInv

\* A shell that ends is at no statement any more, and the others stay where they are.
LEMMA Exiting ==
  ASSUME ProcPart, NEW c \in Callers, NEW status \in Exited, Exits(c, status)
  PROVE  /\ script' \in [Callers -> Statements \cup Exited \cup {"none"}]
         /\ bg' \in [Callers -> Pids \cup {NoPid}]
         /\ script'[c] \in Exited \cup {"none"}
         /\ \A d \in Callers \ {c} : script'[d] = script[d] /\ bg'[d] = bg[d]
<1> USE DEF ProcPart, ProcType
<1>1. CASE Then(c, status) /\ UNCHANGED bg BY <1>1 DEF Then
<1>2. CASE ScriptGone(c) BY <1>2 DEF ScriptGone
<1>3. QED BY <1>1, <1>2 DEF Exits

\* One that ends before it has started anything changes nothing else.
LEMMA ShellEnds ==
  ASSUME ProcPart, NEW c \in Callers, NEW status \in Exited, Exits(c, status),
         script[c] # "echo", UNCHANGED <<running, reused, pidfile, crossed>>
  PROVE  ProcPart'
<1>1. ProcType' BY Exiting DEF ProcPart, ProcType
<1>2. \A d \in Callers : script'[d] \in Statements => d # c /\ script'[d] = script[d] /\ bg'[d] = bg[d]
  BY Exiting DEF Statements, Exited
<1>3. (\A d \in Callers : script'[d] # "echo") => \A d \in Callers : script[d] # "echo"
  BY Exiting
<1>4. SerialInv' BY <1>2, <1>3 DEF ProcPart, SerialInv, Statements
<1>5. QED BY <1>1, <1>4 DEF ProcPart

\* Nor does one that nobody waits for, for a history that knows of it.
LEMMA ShellLeft ==
  ASSUME ProcPart, NEW c \in Callers, ScriptLeft(c), UNCHANGED <<reused, pidfile>>
  PROVE  ProcPart'
<1> USE DEF ProcPart, ProcType, SerialInv
<1>1. CASE script[c] \in Statements BY <1>1 DEF ScriptLeft
<1>2. CASE script[c] \notin Statements
  <2>1. ProcType' BY <1>2 DEF ScriptLeft, ScriptGone
  <2>2. /\ script'[c] = "none" /\ script[c] # "echo"
        /\ \A d \in Callers \ {c} : script'[d] = script[d] /\ bg'[d] = bg[d]
    BY <1>2 DEF ScriptLeft, ScriptGone, Statements
  <2>3. SerialInv' BY <1>2, <2>2 DEF ScriptLeft, Statements
  <2>4. QED BY <2>1, <2>3
<1>3. QED BY <1>1, <1>2

LEMMA StatementStep ==
  ASSUME CallPart, ProcPart, FilePart, NEW c \in Callers, Statement(c), UNCHANGED fileVars
  PROVE  GuestInv'
<1>1. CallPart' /\ FilePart' BY CallsAlone, FilesAlone DEF Statement
<1>2. ProcPart'
  <2> USE ProcessPids DEF ProcPart, ProcType, SerialInv, Statements, Exited
  <2>1. CASE Test(c)
    <3>1. CASE Exits(c, "exit0") BY <2>1, <3>1, ShellEnds DEF Test
    <3>2. CASE ~(pidfile \in running \/ reused) BY SMT, <2>1, <3>2 DEF Test, Then
    <3>3. QED BY <2>1, <3>1, <3>2 DEF Test
  <2>2. CASE Spawn(c)
    <3>1. ASSUME NEW p \in Pids, running' = running \cup {p}, bg' = [bg EXCEPT ![c] = p], Then(c, "echo")
          PROVE  ProcPart'
      BY <2>2, <3>1 DEF Spawn, Then
    <3>2. CASE Exits(c, "exit1") /\ UNCHANGED running BY <2>2, <3>2, ShellEnds DEF Spawn
    <3>3. QED BY <2>2, <3>1, <3>2 DEF Spawn, FreePids
  <2>3. CASE Echo(c)
    <3>1. CASE Exits(c, "exit0") /\ pidfile' = bg[c] /\ UNCHANGED crossed
      BY <2>3, <3>1, Exiting DEF Echo
    <3>2. CASE Exits(c, "exit1") /\ pidfile' = NoPid /\ crossed' = TRUE
      BY <2>3, <3>2, Exiting DEF Echo
    <3>3. QED BY <2>3, <3>1, <3>2 DEF Echo
  <2>4. QED BY <2>1, <2>2, <2>3 DEF Statement
<1>3. QED BY <1>1, <1>2 DEF GuestInv

LEMMA ScriptExitsStep ==
  ASSUME CallPart, ProcPart, FilePart, NEW c \in Callers, ScriptExits(c), UNCHANGED fileVars
  PROVE  GuestInv'
<1>1. CallPart' /\ FilePart'
  <2>1. CASE Return(c, "nil")
    <3>1. op[c] = "start" /\ ~fd[c] BY DEF ScriptExits, Running, CallPart, CallInv, FilePart, TransferInv
    <3>2. QED BY <2>1, <3>1, OtherReturns DEF ScriptExits
  <2>2. CASE Return(c, "other") BY <2>2, FailureReturns DEF ScriptExits
  <2>3. QED BY <2>1, <2>2 DEF ScriptExits
<1>2. ProcPart'
  BY ProcessPids
  DEF ScriptExits, Running, ScriptGone, ProcPart, ProcType, SerialInv, Statements, Exited, Return
<1>3. QED BY <1>1, <1>2 DEF GuestInv

LEMMA ScriptCutStep ==
  ASSUME CallPart, ProcPart, FilePart, NEW c \in Callers, ScriptCut(c), UNCHANGED fileVars
  PROVE  GuestInv'
<1>1. CallPart' /\ FilePart' BY ExecCutReturns DEF ScriptCut
<1>2. ProcPart'
  <2> USE DEF ProcPart, ProcType, SerialInv, Statements, Exited
  <2>1. CASE ScriptGone(c) /\ running' = running \ {bg[c]} /\ UNCHANGED crossed
    BY <2>1 DEF ScriptCut, ScriptGone
  <2>2. CASE ScriptLeft(c) BY <2>2, ShellLeft DEF ScriptCut
  <2>3. QED BY <2>1, <2>2 DEF ScriptCut
<1>3. QED BY <1>1, <1>2 DEF GuestInv

LEMMA ScriptLostStep ==
  ASSUME CallPart, ProcPart, FilePart, NEW c \in Callers, ScriptLost(c), UNCHANGED fileVars
  PROVE  GuestInv'
<1>1. CallPart' /\ FilePart' BY ExecCutReturns DEF ScriptLost
<1>2. ProcPart'
  BY ShellLeft DEF ScriptLost
<1>3. QED BY <1>1, <1>2 DEF GuestInv

-----------------------------------------------------------------------------
(* The sandbox and its processes; then any step.                            *)

LEMMA ProcessEndsStep == ASSUME GuestInv, ProcessEnds, UNCHANGED fileVars PROVE GuestInv'
<1>1. ProcPart' BY DEF GuestInv, ProcessEnds, ProcPart, ProcType, SerialInv
<1>2. QED BY <1>1, CallsAlone, FilesAlone DEF GuestInv, ProcessEnds

LEMMA PidReusedStep == ASSUME GuestInv, PidReused, UNCHANGED fileVars PROVE GuestInv'
<1>1. ProcPart' BY DEF GuestInv, PidReused, ProcPart, ProcType, SerialInv
<1>2. QED BY <1>1, CallsAlone, FilesAlone DEF GuestInv, PidReused

LEMMA BoxEndsStep == ASSUME GuestInv, BoxEnds PROVE GuestInv'
<1>1. CallPart' BY DEF GuestInv, BoxEnds, CallPart, CallType, CallInv, callVars
<1>2. ProcPart' BY DEF GuestInv, BoxEnds, ProcessesGo, ProcPart, ProcType, SerialInv, Statements
<1>3. FilePart'
  <2>1. box' # "running" /\ UNCHANGED callVars BY DEF BoxEnds
  <2>2. FileType' BY DEF GuestInv, BoxEnds, FilesGo, FilePart, FileType
  <2>3. ASSUME NEW c \in Callers PROVE TransferInv(c)'
    BY <2>1 DEF GuestInv, BoxEnds, FilesGo, FilePart, TransferInv, callVars
  <2>4. QED BY <2>2, <2>3 DEF FilePart
<1>4. QED BY <1>1, <1>2, <1>3 DEF GuestInv

LEMMA GuestStep == GuestInv /\ [Next]_vars => GuestInv'
<1> SUFFICES ASSUME GuestInv, [Next]_vars PROVE GuestInv' OBVIOUS
<1> USE DEF GuestInv
<1>1. ASSUME NEW c \in Callers, Calls(c) PROVE GuestInv'
  BY <1>1, CallStep, ClientRefusesStep, ProcAlone DEF Calls, Outside
<1>2. ASSUME NEW c \in Callers, Handles(c) PROVE GuestInv'
  <2>1. CASE Outside(HandlerOpens(c)) BY <2>1, HandlerOpensStep, ProcAlone DEF Outside
  <2>2. CASE Outside(ExecRefused(c)) BY <2>2, ExecRefusedStep, ProcAlone DEF Outside
  <2>3. CASE pc[c] \notin {"script", "cat", "stream"} /\ Outside(ExecBegins(c))
    BY <2>3, ExecStarts, ProcAlone DEF Outside
  <2>4. CASE ScriptBegins(c) /\ UNCHANGED fileVars BY <2>4, ScriptBeginsStep
  <2>5. CASE CatBegins(c) /\ UNCHANGED procVars BY <2>5, CatBeginsStep, ProcAlone
  <2>6. CASE StreamBegins(c) /\ UNCHANGED procVars BY <2>6, StreamBeginsStep, ProcAlone
  <2>7. CASE Answer(c) /\ TransferOver(c) /\ UNCHANGED <<box, procVars>>
    BY <2>7, AnswerStep, ProcAlone
  <2>8. QED BY <1>2, <2>1, <2>2, <2>3, <2>4, <2>5, <2>6, <2>7 DEF Handles
<1>3. ASSUME NEW c \in Callers, Bounded(c) PROVE GuestInv'
  <2>1. CASE Outside(ExecDies(c)) BY <2>1, ExecDiesStep, ProcAlone DEF Outside
  <2>2. CASE pc[c] \notin {"script", "cat"} /\ Outside(ExecCutShort(c))
    BY <2>2, ExecCutReturns, ProcAlone DEF Outside
  <2>3. CASE ScriptCut(c) /\ UNCHANGED fileVars BY <2>3, ScriptCutStep
  <2>4. CASE CatCut(c) /\ UNCHANGED procVars BY <2>4, CatCutStep, ProcAlone
  <2>5. QED BY <1>3, <2>1, <2>2, <2>3, <2>4 DEF Bounded
<1>4. ASSUME NEW c \in Callers, Streams(c) PROVE GuestInv'
  BY <1>4, StreamCopiesStep, StreamEndsStep, ProcAlone DEF Streams
<1>5. ASSUME NEW c \in Callers, Commands(c) PROVE GuestInv'
  <2>1. CASE Outside(RunEnds(c)) BY <2>1, RunEndsStep, ProcAlone DEF Outside
  <2>2. CASE (Statement(c) \/ ScriptExits(c)) /\ UNCHANGED fileVars
    BY <2>2, StatementStep, ScriptExitsStep
  <2>3. CASE /\ \/ MkdirEnds(c) \/ CatWrites(c) \/ CatWritesAway(c) \/ CatEnds(c)
                \/ CatForgotten(c) \/ ChmodEnds(c) \/ ProbeEnds(c) \/ RunRemoves(c)
             /\ UNCHANGED procVars
    BY <2>3, MkdirEndsStep, CatWritesStep, CatWritesAwayStep, CatEndsStep, CatForgottenStep,
       ChmodEndsStep, ProbeEndsStep, RunRemovesStep, ProcAlone
  <2>4. QED BY <1>5, <2>1, <2>2, <2>3 DEF Commands
<1>6. ASSUME NEW c \in Callers, Fails(c) PROVE GuestInv'
  <2>1. CASE Outside(GivesUp(c)) BY <2>1, GivesUpStep, ProcAlone DEF Outside
  <2>2. CASE Outside(Invalid(c)) BY <2>2, InvalidStep, ProcAlone DEF Outside
  <2>3. CASE pc[c] # "script" /\ Outside(ExecLost(c)) BY <2>3, ExecCutReturns, ProcAlone DEF Outside
  <2>4. CASE ScriptLost(c) /\ UNCHANGED fileVars BY <2>4, ScriptLostStep
  <2>5. CASE (StreamFails(c) \/ StreamKilled(c)) /\ UNCHANGED procVars
    BY <2>5, StreamFailsStep, StreamKilledStep, ProcAlone
  <2>6. QED BY <1>6, <2>1, <2>2, <2>3, <2>4, <2>5 DEF Fails
<1>7. CASE UNCHANGED vars BY <1>7, CallsAlone, ProcAlone, FilesAlone DEF vars
<1>8. QED
  BY <1>1, <1>2, <1>3, <1>4, <1>5, <1>6, <1>7, ProcessEndsStep, PidReusedStep, BoxEndsStep DEF Next

\* The inductive invariant holds throughout.
THEOREM GuestInvariant == Spec => []GuestInv
BY GuestStarts, GuestStep, PTL DEF Spec

\* Every variable keeps its type: no cat writes more than the body it was given,
\* and no caller is told an error that is none.
THEOREM GuestTyped == Spec => []TypeOK
<1>1. GuestInv => TypeOK
  BY DEF GuestInv, CallPart, CallType, ProcPart, ProcType, FilePart, FileType, TypeOK
<1>2. QED BY <1>1, GuestInvariant, PTL

\* StartProcess calls that do not overlap start the command once, for any number
\* of callers and any pids.
THEOREM SerialStarts == Spec => []SerialStartsOnce
<1>1. ASSUME GuestInv, ~crossed PROVE Cardinality(running) <= 1
  <2>1. PICK p : running \subseteq {p}
    <3>1. CASE \E c \in Callers : script[c] = "echo" BY <1>1, <3>1 DEF GuestInv, ProcPart, SerialInv
    <3>2. CASE \A c \in Callers : script[c] # "echo" BY <1>1, <3>2 DEF GuestInv, ProcPart, SerialInv
    <3>3. QED BY <3>1, <3>2
  <2>2. IsFiniteSet({p}) /\ Cardinality({p}) = 1 BY FS_Singleton
  <2>3. Cardinality(running) <= Cardinality({p}) BY <2>1, <2>2, FS_Subset
  <2>4. QED BY <2>2, <2>3
<1>2. GuestInv => SerialStartsOnce BY <1>1 DEF SerialStartsOnce
<1>3. QED BY <1>2, GuestInvariant, PTL

\* WriteFile and ReadFile through the broker: what is reported done is whole, for
\* any callers and bodies of any length.
THEOREM TransfersWhole == Spec => []TransferWhole
<1>1. GuestInv => TransferWhole BY DEF GuestInv, FilePart, TransferInv, TransferWhole
<1>2. QED BY <1>1, GuestInvariant, PTL

-----------------------------------------------------------------------------
(* The action properties: what a step tells a caller, and where it takes a  *)
(* call.                                                                    *)

RemoteStep ==
  \A c \in Callers :
    pc[c] # "idle" /\ pc'[c] = "idle" /\ err'[c] # "transport" =>
      err'[c] = IF err[c] = "other" THEN "ErrInternal" ELSE err[c]

RefusalStep ==
  \A c \in Callers :
    err'[c] # err[c] =>
      /\ err'[c] = "ErrStopped" => box = "stopped"
      /\ err'[c] = "ErrNotFound" => box = "gone" \/ op[c] = "read"

AdvanceStep ==
  \A c \in Callers :
    pc[c] # "idle" =>
      /\ pc'[c] # pc[c] => Stage[pc'[c]] > Stage[pc[c]]
      /\ pc'[c] = pc[c] /\ on[c] => on'[c]

Told == RemoteStep /\ RefusalStep /\ AdvanceStep

LEMMA Stages ==
  /\ \A x \in Execs \cup {"open"} : Stage[x] \in 1..4
  /\ Stage["answer"] = 5 /\ Stage["idle"] = 6 /\ Stage["idle"] > Stage["answer"]
  /\ Stage["cat"] > Stage["mkdir"] /\ Stage["chmod"] > Stage["cat"]
  /\ Stage["stream"] > Stage["probe"]
  /\ \A o \in Ops : First[o] \in Execs /\ Stage[First[o]] > Stage["open"]
<1>1. Stage["open"] = 1 /\ Stage["run"] = 2 /\ Stage["script"] = 2 /\ Stage["mkdir"] = 2 BY DEF Stage
<1>2. Stage["probe"] = 2 /\ Stage["cat"] = 3 /\ Stage["stream"] = 3 /\ Stage["chmod"] = 4 BY DEF Stage
<1>3. Stage["answer"] = 5 /\ Stage["idle"] = 6 BY DEF Stage
<1>4. \A o \in Ops : First[o] \in {"run", "script", "mkdir", "probe"} BY SMT DEF First, Ops
<1>5. \A x \in Execs \cup {"open"} : Stage[x] \in 1..4 BY SMT, <1>1, <1>2 DEF Execs
<1>6. /\ Stage["idle"] > Stage["answer"] /\ Stage["cat"] > Stage["mkdir"]
      /\ Stage["chmod"] > Stage["cat"] /\ Stage["stream"] > Stage["probe"]
      /\ 2 > Stage["open"]
  BY SMT, <1>1, <1>2, <1>3
<1>7. \A o \in Ops : First[o] \in Execs /\ Stage[First[o]] = 2 BY <1>1, <1>2, <1>4 DEF Execs
<1>8. QED BY <1>3, <1>5, <1>6, <1>7

LEMMA NothingTold ==
  ASSUME CallPart, UNCHANGED <<pc, err>>, UNCHANGED on \/ \E c \in Callers : on' = [on EXCEPT ![c] = TRUE]
  PROVE  Told
<1>1. RemoteStep /\ RefusalStep BY DEF RemoteStep, RefusalStep
<1>2. AdvanceStep BY DEF AdvanceStep, CallPart, CallType
<1>3. QED BY <1>1, <1>2 DEF Told

LEMMA GoesOn ==
  ASSUME CallPart, NEW c \in Callers, NEW step \in Execs, Goto(c, step), Stage[pc[c]] < Stage[step]
  PROVE  Told
<1>1. RemoteStep /\ RefusalStep BY DEF RemoteStep, RefusalStep, Goto, Execs, CallPart, CallType
<1>2. Stage[step] \in Nat /\ Stage[pc[c]] \in Nat BY SMT, Stages DEF CallPart, CallType
<1>3. AdvanceStep BY SMT, <1>2 DEF AdvanceStep, Goto, CallPart, CallType
<1>4. QED BY <1>1, <1>3 DEF Told

LEMMA ReturnTold ==
  ASSUME CallPart, NEW c \in Callers, NEW e, Return(c, e), pc[c] \in Execs \cup {"open"},
         e = "ErrStopped" => box = "stopped",
         e = "ErrNotFound" => box = "gone" \/ op[c] = "read"
  PROVE  Told
<1>1. RemoteStep /\ RefusalStep BY DEF RemoteStep, RefusalStep, Return, CallPart, CallType
<1>2. Stage["answer"] > Stage[pc[c]] BY SMT, Stages
<1>3. pc' = [pc EXCEPT ![c] = "answer"] /\ on' = [on EXCEPT ![c] = FALSE] BY DEF Return
<1>4. pc[c] # "answer" BY DEF Execs
<1>5. ASSUME NEW d \in Callers, pc[d] # "idle"
      PROVE  /\ pc'[d] # pc[d] => Stage[pc'[d]] > Stage[pc[d]]
             /\ pc'[d] = pc[d] /\ on[d] => on'[d]
  <2>1. CASE d = c BY <1>2, <1>3, <1>4, <2>1 DEF CallPart, CallType
  <2>2. CASE d # c BY <1>3, <2>2 DEF CallPart, CallType
  <2>3. QED BY <2>1, <2>2
<1>6. AdvanceStep BY <1>5 DEF AdvanceStep
<1>7. QED BY <1>1, <1>6 DEF Told

LEMMA AnswerTold == ASSUME CallPart, NEW c \in Callers, Answer(c) PROVE Told
<1>1. Outcome(err[c]) = IF err[c] = "other" THEN "ErrInternal" ELSE err[c]
  BY ErrorsCross DEF Answer, CallPart, CallInv
<1>2. RemoteStep /\ RefusalStep BY <1>1 DEF RemoteStep, RefusalStep, Answer, CallPart, CallType
<1>3. AdvanceStep BY Stages DEF AdvanceStep, Answer, CallPart, CallType
<1>4. QED BY <1>2, <1>3 DEF Told

LEMMA GuestTold == ASSUME GuestInv, [Next]_vars PROVE Told
<1> USE DEF GuestInv
<1>1. ASSUME NEW c \in Callers, Calls(c) PROVE Told
  BY <1>1
  DEF Calls, Outside, Call, ClientRefuses, Told, RemoteStep, RefusalStep, AdvanceStep, CallPart,
      CallType
<1>2. ASSUME NEW c \in Callers, Handles(c) PROVE Told
  <2>1. CASE HandlerOpens(c)
    <3>1. First[op[c]] \in Execs /\ Stage[First[op[c]]] > Stage["open"]
      BY Stages DEF CallPart, CallType
    <3>2. QED BY <2>1, <3>1, GoesOn, ReturnTold DEF HandlerOpens
  <2>2. CASE ExecRefused(c) BY <2>2, ReturnTold DEF ExecRefused
  <2>3. CASE ExecBegins(c) BY <2>3, NothingTold DEF ExecBegins
  <2>4. CASE Answer(c) BY <2>4, AnswerTold
  <2>5. QED
    BY <1>2, <2>1, <2>2, <2>3, <2>4
    DEF Handles, Outside, ScriptBegins, CatBegins, StreamBegins
<1>3. ASSUME NEW c \in Callers, Bounded(c) PROVE Told
  <2>1. CASE ExecDies(c)
    <3>1. pc[c] = "probe" => op[c] = "read" BY DEF CallPart, CallInv
    <3>2. QED BY <2>1, <3>1, ReturnTold DEF ExecDies
  <2>2. CASE ExecCutShort(c) BY <2>2, ReturnTold DEF ExecCutShort
  <2>3. QED BY <1>3, <2>1, <2>2 DEF Bounded, Outside, ScriptCut, CatCut
<1>4. ASSUME NEW c \in Callers, Streams(c) PROVE Told
  <2>1. CASE StreamCopies(c) BY <2>1, NothingTold DEF StreamCopies, callVars
  <2>2. CASE StreamEnds(c) BY <2>2, ReturnTold DEF StreamEnds, Running, Execs
  <2>3. QED BY <1>4, <2>1, <2>2 DEF Streams
<1>5. ASSUME NEW c \in Callers, Commands(c) PROVE Told
  <2>1. CASE RunEnds(c) \/ ScriptExits(c) BY <2>1, ReturnTold DEF RunEnds, ScriptExits, Running, Execs
  <2>2. CASE MkdirEnds(c) \/ CatEnds(c)
    BY <2>2, ReturnTold, GoesOn, Stages DEF MkdirEnds, CatEnds, Running, Execs
  <2>3. CASE ChmodEnds(c) BY <2>3, ReturnTold DEF ChmodEnds, Running, Execs
  <2>4. CASE ProbeEnds(c)
    <3>1. op[c] = "read" /\ pc[c] = "probe" BY <2>4 DEF ProbeEnds, Running, CallPart, CallInv
    <3>2. QED BY <2>4, <3>1, ReturnTold, GoesOn, Stages DEF ProbeEnds, Execs
  <2>5. CASE UNCHANGED callVars BY <2>5, NothingTold DEF callVars
  <2>6. QED
    BY <1>5, <2>1, <2>2, <2>3, <2>4, <2>5
    DEF Commands, Outside, Statement, CatWrites, CatWritesAway, CatForgotten, RunRemoves
<1>6. ASSUME NEW c \in Callers, Fails(c) PROVE Told
  <2>1. CASE GivesUp(c) BY <2>1, NothingTold DEF GivesUp
  <2>2. CASE Invalid(c) \/ ExecLost(c) \/ StreamFails(c) \/ StreamKilled(c)
    BY <2>2, ReturnTold
    DEF Invalid, DecodeRefuses, PathRefuses, NameRefuses, CommandRefuses, ExecLost, StreamFails,
        StreamKilled, Running, Execs
  <2>3. QED BY <1>6, <2>1, <2>2 DEF Fails, Outside, ScriptLost
<1>7. CASE UNCHANGED callVars BY <1>7, NothingTold DEF callVars
<1>8. QED
  BY <1>1, <1>2, <1>3, <1>4, <1>5, <1>6, <1>7 DEF Next, vars, ProcessEnds, PidReused, BoxEnds

\* A caller of brokerclient is told what the library returned, whatever the
\* sentinel, for any callers and faults.
THEOREM RemoteErrorsAgree == Spec => RemoteAgrees
<1>1. GuestInv /\ [Next]_vars => [RemoteStep]_vars BY GuestTold DEF Told
<1>2. QED BY <1>1, GuestInvariant, PTL DEF Spec, RemoteAgrees, RemoteStep

\* In a sandbox that has ended no script is at work and no process runs.
Halted ==
  box # "running" => running = {} /\ \A c \in Callers : script[c] \notin Statements

\* A sandbox that has ended stays so, and one that is gone stays gone.
LEMMA HaltedStep ==
  ASSUME GuestInv, Halted, [Next]_vars
  PROVE  /\ Halted' /\ op' = op
         /\ box # "running" => box' # "running"
         /\ box = "gone" => box' = "gone"
<1> USE DEF Halted
<1>1. CASE UNCHANGED <<box, procVars, op>> BY <1>1 DEF procVars
<1>2. CASE BoxEnds BY <1>2 DEF BoxEnds, ProcessesGo, callVars, Statements
<1>3. CASE \E c \in Callers : ScriptBegins(c)
  BY <1>3 DEF ScriptBegins, ExecBegins
<1>4. CASE \E c \in Callers : Statement(c)
  <2>1. PICK c \in Callers : Statement(c) BY <1>4
  <2>2. script[c] \in Statements /\ UNCHANGED <<box, callVars>>
    BY <2>1 DEF Statement, Test, Spawn, Echo, Statements
  <2>3. box = "running" BY <2>2
  <2>4. QED BY <2>2, <2>3 DEF callVars
<1>5. CASE \E c \in Callers : ScriptExits(c) \/ ScriptCut(c) \/ ScriptLost(c)
  <2>1. PICK c \in Callers : ScriptExits(c) \/ ScriptCut(c) \/ ScriptLost(c) BY <1>5
  <2>2. UNCHANGED <<box, op>>
    BY <2>1 DEF ScriptExits, ScriptCut, ScriptLost, Return, ExecCutShort, ExecLost
  <2>3. running' \subseteq running
    BY <2>1 DEF ScriptExits, ScriptCut, ScriptLost, ScriptLeft
  <2>4. ScriptGone(c) \/ UNCHANGED script
    BY <2>1 DEF ScriptExits, ScriptCut, ScriptLost, ScriptLeft
  <2>5. \A d \in Callers : script'[d] \in Statements => script[d] \in Statements
    <3>1. CASE ScriptGone(c) BY <3>1 DEF ScriptGone, Statements, GuestInv, ProcPart, ProcType
    <3>2. CASE UNCHANGED script BY <3>2
    <3>3. QED BY <2>4, <3>1, <3>2
  <2>6. QED BY <2>2, <2>3, <2>5
<1>6. CASE ProcessEnds BY <1>6 DEF ProcessEnds, callVars
<1>7. CASE PidReused BY <1>7 DEF PidReused, callVars
<1>8. ASSUME NEW c \in Callers, Calls(c) \/ Handles(c)
      PROVE  UNCHANGED <<box, procVars, op>> \/ ScriptBegins(c)
  BY <1>8
  DEF Calls, Handles, Outside, Call, ClientRefuses, HandlerOpens, ExecRefused, ExecBegins, Goto,
      Return, CatBegins, StreamBegins, Answer
<1>9. ASSUME NEW c \in Callers, Bounded(c) \/ Streams(c) \/ Fails(c)
      PROVE  UNCHANGED <<box, procVars, op>> \/ ScriptCut(c) \/ ScriptLost(c)
  <2>1. CASE Bounded(c)
    BY <2>1 DEF Bounded, Outside, ExecDies, ExecCutShort, CatCut, Close, Return
  <2>2. CASE Streams(c) BY <2>2 DEF Streams, StreamCopies, StreamEnds, Return, callVars
  <2>3. CASE Fails(c)
    BY <2>3 DEF Fails, Outside, GivesUp, Invalid, ExecLost, StreamFails, StreamKilled, Return
  <2>4. QED BY <1>9, <2>1, <2>2, <2>3
<1>10. ASSUME NEW c \in Callers, Commands(c)
       PROVE  UNCHANGED <<box, procVars, op>> \/ Statement(c) \/ ScriptExits(c)
  <2>1. CASE Outside(RunEnds(c)) BY <2>1 DEF Outside, RunEnds, Return
  <2>2. CASE (MkdirEnds(c) \/ CatEnds(c) \/ ChmodEnds(c) \/ ProbeEnds(c)) /\ UNCHANGED procVars
    BY <2>2 DEF MkdirEnds, CatEnds, ChmodEnds, ProbeEnds, Goto, Return, Close
  <2>3. CASE /\ CatWrites(c) \/ CatWritesAway(c) \/ CatForgotten(c) \/ RunRemoves(c)
             /\ UNCHANGED procVars
    BY <2>3 DEF CatWrites, CatWritesAway, CatForgotten, RunRemoves, callVars
  <2>4. QED BY <1>10, <2>1, <2>2, <2>3 DEF Commands
<1>11. CASE UNCHANGED vars BY <1>1, <1>11 DEF vars, callVars
<1>12. QED
  BY <1>1, <1>2, <1>3, <1>4, <1>5, <1>6, <1>7, <1>8, <1>9, <1>10, <1>11 DEF Next

\* What a caller was told of the sandbox stays so: a step tells it when it is so,
\* and the sandbox does not come back.
THEOREM RefusalsStayTrue == Spec => []RefusalsHold
<1>1. Init => Halted /\ RefusalsHold
  BY DEF Init, CallsInit, ProcessInit, FilesInit, Halted, RefusalsHold, Statements
<1>2. ASSUME GuestInv, GuestInv', Halted, RefusalsHold, [Next]_vars PROVE Halted' /\ RefusalsHold'
  <2>1. RefusalStep BY <1>2, GuestTold DEF Told
  <2>2. box' # "running" => running' = {} /\ file' = Absent
    BY <1>2, HaltedStep DEF Halted, GuestInv, FilePart, FileType
  <2>3. box = "stopped" => box' # "running" BY <1>2, HaltedStep
  <2>4. QED BY <1>2, <2>1, <2>2, <2>3, HaltedStep DEF RefusalsHold, RefusalStep
<1>3. QED BY <1>1, <1>2, GuestInvariant, PTL DEF Spec

\* A call never goes back, and never makes an exec twice, for any callers and
\* faults.
THEOREM CallsAdvance == Spec => CallAdvances
<1>1. GuestInv /\ [Next]_vars => [AdvanceStep]_vars BY GuestTold DEF Told
<1>2. QED BY <1>1, GuestInvariant, PTL DEF Spec, CallAdvances, AdvanceStep
=============================================================================
