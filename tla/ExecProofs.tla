----------------------------- MODULE ExecProofs -----------------------------
(***************************************************************************)
(* Proofs about Exec: its types, that killGroup's success is for good, that *)
(* a running command can be killed, that Stopped is the sandbox's death,    *)
(* that a result is the command's own, that only the kill is ever repeated, *)
(* and that Exec is the exec module Calls takes it for.                     *)
(***************************************************************************)
EXTENDS ExecRefines, TLAPS

\* Before the exec is attached nothing of it exists.
NotBegun ==
  pc \in {"create", "attach"} =>
    wrapper = "none" /\ kids = {} /\ rec = "none" /\ killer = "none"

\* A sandbox that does not run has no processes.
BoxEmpty ==
  box # "running" => wrapper \notin Alive /\ kids = {} /\ killer \notin KillerAlive

\* killGroup runs one killScript at a time; what the exits that end it stand for.
KillerDone ==
  /\ pc \notin {"killing", "done"} => killer \in {"none", "norecord"}
  /\ killer = "signalled" => wrapper \notin Alive /\ "group" \notin kids
  /\ killer = "killed" => box # "running"
  /\ kill = "done" => pc = "done" /\ killer \in {"signalled", "ignored", "killed"}

\* The record while the wrapper creates and has written it; killScript acts only on
\* a complete one.
RecordOK ==
  /\ RecordFindable
  /\ wrapper = "opened" => rec = "empty"
  /\ killer \in {"read", "misled", "unlinked", "ignored"} => wrapper \notin {"begun", "opened"}
  /\ rec \in {"pid", "forged"} => wrapper \notin {"begun", "opened"}
  /\ killer = "misled" /\ wrapper \in {"recorded", "running"} => rec = "forged"

\* Docker's exit status, and the points from which a result is given.
ExitOK ==
  /\ wrapper \in {"reaped", "unrecorded", "ended"} => own \in Codes
  /\ wrapper = "killed" => exit \in {128, 137}
  /\ wrapper = "ended" => exit = own
  /\ pc \in {"inspect", "died", "settled"} \/ res = "result" => wrapper \in Over
  /\ pc \in {"died", "settled"} => exit \in {128, 137}

IInv == TypeOK /\ NotBegun /\ BoxEmpty /\ KillerDone /\ RecordOK /\ StoppedIsDeath /\ ExitOK

\* The initial state: nothing has been started.
LEMMA ExecInit == Init => IInv
BY DEF Init, IInv, TypeOK, NotBegun, BoxEmpty, KillerDone, RecordOK, RecordFindable,
       StoppedIsDeath, ExitOK, Alive, Over, KillerAlive, Codes, NoCode

\* The inductive step, one action at a time.
LEMMA ExecStep == IInv /\ [Next]_vars => IInv'
<1> SUFFICES ASSUME IInv, [Next]_vars PROVE IInv'
  OBVIOUS
<1> USE DEF IInv, TypeOK, NotBegun, BoxEmpty, KillerDone, RecordOK, RecordFindable,
            StoppedIsDeath, ExitOK, Alive, Over, KillerAlive, Codes, NoCode, guestVars, callerVars,
            Goto, Return, Answered, Refused, Lost, MayHaveDied
<1>1. CASE ExecCreate
  BY <1>1 DEF ExecCreate
<1>2. CASE ExecAttach
  BY <1>2 DEF ExecAttach
<1>3. CASE ClassifyAttach
  BY <1>3 DEF ClassifyAttach
<1>4. CASE CopyDone
  BY <1>4 DEF CopyDone
<1>5. CASE CtxDone
  BY <1>5 DEF CtxDone
<1>6. CASE Inspect
  BY <1>6 DEF Inspect
<1>7. CASE AwaitStop
  BY <1>7 DEF AwaitStop
<1>8. CASE Settled
  <2>1. CASE box = "stopped" /\ stopped' = TRUE
    BY <1>8, <2>1 DEF Settled
  <2>2. CASE stopped' = stopped
    BY <1>8, <2>2 DEF Settled
  <2>3. (box = "stopped" /\ stopped' = TRUE) \/ stopped' = stopped
    BY <1>8 DEF Settled
  <2> HIDE DEF IInv
  <2>4. QED
    BY <2>1, <2>2, <2>3
<1>9. CASE KillStarts
  BY <1>9 DEF KillStarts, KillEnds
<1>10. CASE KillResult
  BY <1>10 DEF KillResult, KillEnds
<1>11. CASE KillRetries
  BY <1>11 DEF KillRetries, KillEnds
<1>12. CASE ContextEnds
  BY <1>12 DEF ContextEnds
<1>13. CASE WaitRunsOut
  BY <1>13 DEF WaitRunsOut
<1>14. CASE Guest
  <2>1. CASE OpensRecord
    BY <1>14, <2>1 DEF Guest, OpensRecord, Wrapper
  <2>2. CASE WritesRecord
    BY <1>14, <2>2 DEF Guest, WritesRecord, Wrapper
  <2>3. CASE Runs
    BY <1>14, <2>3 DEF Guest, Runs, Wrapper
  <2>4. CASE Spawns
    BY <1>14, <2>4 DEF Guest, Spawns
  <2>5. CASE Forges
    BY <1>14, <2>5 DEF Guest, Forges
  <2>6. CASE Finishes
    BY <1>14, <2>6 DEF Guest, Finishes, Wrapper
  <2>7. CASE Unrecords
    BY <1>14, <2>7 DEF Guest, Unrecords, Wrapper
  <2>8. CASE Exits
    BY <1>14, <2>8 DEF Guest, Exits, Wrapper
  <2>9. CASE KidEnds
    BY <1>14, <2>9 DEF Guest, KidEnds
  <2>10. QED
    BY <1>14, <2>1, <2>2, <2>3, <2>4, <2>5, <2>6, <2>7, <2>8, <2>9 DEF Guest
<1>15. CASE KillScript
  <2>1. CASE KillReads
    BY <2>1 DEF KillReads, KillRead
  <2>2. CASE KillUnlinks
    BY <2>2 DEF KillUnlinks
  <2>3. CASE KillSignals
    BY <2>3 DEF KillSignals, WrapperKilled
  <2>4. QED
    BY <1>15, <2>1, <2>2, <2>3 DEF KillScript
<1>16. CASE BoxDies
  BY <1>16 DEF BoxDies, BoxEnds, WrapperKilled
<1>17. CASE BoxSettles
  BY <1>17 DEF BoxSettles
<1>18. CASE BoxRemoved
  BY <1>18 DEF BoxRemoved, BoxEnds, WrapperKilled
<1>19. CASE CopyFails
  BY <1>19 DEF CopyFails
<1>20. CASE UNCHANGED vars
  BY <1>20 DEF vars
<1>21. QED
  BY <1>1, <1>2, <1>3, <1>4, <1>5, <1>6, <1>7, <1>8, <1>9, <1>10, <1>11, <1>12, <1>13,
     <1>14, <1>15, <1>16, <1>17, <1>18, <1>19, <1>20 DEF Next, Caller

LEMMA ExecInvariant == Spec => []IInv
BY ExecInit, ExecStep, PTL DEF Spec

(***************************************************************************)
(* The state of an Exec call stays well typed.                              *)
(***************************************************************************)
THEOREM ExecTyped == Spec => []TypeOK
<1>1. IInv => TypeOK
  BY DEF IInv
<1>2. QED
  BY ExecInvariant, <1>1, PTL

(***************************************************************************)
(* killGroup (sandbox.go:267) ends with "done" only when the command and    *)
(* its group are gone, and they stay gone.                                  *)
(***************************************************************************)
THEOREM ExecKilledForGood == Spec => []KilledForGood
<1>1. IInv => KilledForGood
  BY DEF IInv, KillerDone, BoxEmpty, KilledForGood
<1>2. QED
  BY ExecInvariant, <1>1, PTL

(***************************************************************************)
(* A command that runs can be killed: its record is whole or, once gone, in *)
(* the hands of a killScript that is about to signal (sandbox.go:224).      *)
(***************************************************************************)
THEOREM ExecRecordFindable == Spec => []RecordFindable
<1>1. IInv => RecordFindable
  BY DEF IInv, RecordOK
<1>2. QED
  BY ExecInvariant, <1>1, PTL

(***************************************************************************)
(* A result with Stopped set is of a sandbox that has halted with nothing   *)
(* left in it, and blames no status on it that its death cannot leave:      *)
(* diedUnder (sandbox.go:169) is asked about no other.                      *)
(***************************************************************************)
THEOREM ExecStoppedDeath == Spec => []StoppedIsDeath
<1>1. IInv => StoppedIsDeath
  BY DEF IInv
<1>2. QED
  BY ExecInvariant, <1>1, PTL

(***************************************************************************)
(* An exit status that no kill leaves is the command's own (sandbox.go:143).*)
(***************************************************************************)
THEOREM ExecResultOwn == Spec => []ResultIsOwn
<1>1. IInv => ResultIsOwn
  BY DEF IInv, ExitOK, ResultIsOwn, Over
<1>2. QED
  BY ExecInvariant, <1>1, PTL

LEMMA Orders ==
  /\ Order["create"] = 1 /\ Order["attach"] = 2 /\ Order["classify"] = 3 /\ Order["wait"] = 3
  /\ Order["inspect"] = 4 /\ Order["died"] = 5 /\ Order["settled"] = 6 /\ Order["pause"] = 4
  /\ Order["kill"] = 5 /\ Order["killing"] = 6 /\ Order["done"] = 7
<1>1. Order["create"] = 1 /\ Order["attach"] = 2 /\ Order["classify"] = 3 /\ Order["wait"] = 3
  BY DEF Order
<1>2. Order["inspect"] = 4 /\ Order["died"] = 5 /\ Order["settled"] = 6 /\ Order["pause"] = 4
  BY DEF Order
<1>3. Order["kill"] = 5 /\ Order["killing"] = 6 /\ Order["done"] = 7
  BY DEF Order
<1>4. QED
  BY <1>1, <1>2, <1>3

(***************************************************************************)
(* exec and killGroup (sandbox.go:267) repeat nothing but an attempt to     *)
(* kill, and that only while killRecordWait lasts.                          *)
(***************************************************************************)
THEOREM ExecMovesOn == Spec => ExecAdvances
<1> DEFINE Moves == \/ Order[pc'] > Order[pc]
                    \/ pc = "killing" /\ pc' = "pause" /\ ~waited
<1>1. ASSUME Next, pc' # pc
      PROVE  Moves
  <2>1. CASE Caller
    <3> USE Orders DEF Goto, Return, KillEnds
    <3>1. CASE ExecCreate \/ ExecAttach \/ ClassifyAttach
      BY <3>1 DEF ExecCreate, ExecAttach, ClassifyAttach
    <3>2. CASE CopyDone \/ CtxDone \/ Inspect \/ AwaitStop \/ Settled
      BY <3>2 DEF CopyDone, CtxDone, Inspect, AwaitStop, Settled
    <3>3. CASE KillStarts \/ KillResult \/ KillRetries
      BY <3>3 DEF KillStarts, KillResult, KillRetries
    <3>4. QED
      BY <2>1, <3>1, <3>2, <3>3 DEF Caller
  <2>2. CASE CopyFails
    BY <2>2, Orders DEF CopyFails, Return
  <2>3. CASE pc' = pc
    BY <1>1, <2>3
  <2>4. QED
    BY <1>1, <2>1, <2>2, <2>3
       DEF Next, ContextEnds, WaitRunsOut, Guest, KillScript, KillReads, KillUnlinks, KillSignals,
           BoxDies, BoxSettles, BoxRemoved, BoxEnds, callerVars
<1>2. [Next]_vars => [pc' # pc => Moves]_vars
  BY <1>1
<1>3. QED
  BY <1>2, PTL DEF Spec, ExecAdvances
-----------------------------------------------------------------------------
(* Exec as Calls knows it.                                                  *)

LEMMA OneCaller == \A v, w : [Alone(v) EXCEPT ![Self] = w] = Alone(w) /\ Alone(v)[Self] = v
BY Zenon DEF Alone

\* The handler's variables, read and written.
LEMMA HandlerReads ==
  /\ HandlerOp[Self] = "exec" /\ HandlerPc[Self] = (IF Decided THEN "answer" ELSE "run")
  /\ (HandlerOn[Self] <=> Waiting) /\ (HandlerCtx[Self] <=> ctx # "cancelled")
<1>1. HandlerOp[Self] = "exec"
  BY Zenon DEF HandlerOp, Alone
<1>2. HandlerPc[Self] = (IF Decided THEN "answer" ELSE "run")
  BY Zenon DEF HandlerPc, Alone
<1>3. HandlerOn[Self] <=> Waiting
  BY Zenon DEF HandlerOn, Alone
<1>4. HandlerCtx[Self] <=> ctx # "cancelled"
  BY Zenon DEF HandlerCtx, Alone
<1>5. QED
  BY <1>1, <1>2, <1>3, <1>4

\* A step the handler does not see.
LEMMA Unseen ==
  ASSUME UNCHANGED <<Recorded, Decided, Waiting, ErrOf>>, (ctx = "cancelled")' = (ctx = "cancelled")
  PROVE  UNCHANGED <<Recorded, C!callVars>>
<1>1. UNCHANGED <<HandlerOp, HandlerPc, HandlerOn, HandlerErr>>
  BY Zenon DEF HandlerOp, HandlerPc, HandlerOn, HandlerErr, Alone
<1>2. UNCHANGED HandlerCtx
  BY Zenon DEF HandlerCtx, Alone
<1>3. QED
  BY Zenon, <1>1, <1>2 DEF C!callVars

\* The exec is answered.
LEMMA SeenReturn ==
  ASSUME NEW e, Decided', ~Waiting', ErrOf' = e, ctx' = ctx
  PROVE  C!Return(Self, e)
<1>1. HandlerPc' = [HandlerPc EXCEPT ![Self] = "answer"]
  BY Zenon, OneCaller DEF HandlerPc, Alone
<1>2. HandlerOn' = [HandlerOn EXCEPT ![Self] = FALSE]
  <2>1. Waiting' = FALSE
    OBVIOUS
  <2>2. QED
    BY Zenon, <2>1, OneCaller DEF HandlerOn, Alone
<1>3. HandlerErr' = [HandlerErr EXCEPT ![Self] = e]
  BY Zenon, OneCaller DEF HandlerErr, Alone
<1>4. UNCHANGED <<HandlerOp, HandlerCtx>>
  BY Zenon DEF HandlerOp, HandlerCtx, Alone
<1>5. QED
  BY Zenon, <1>1, <1>2, <1>3, <1>4 DEF C!Return

\* What the handler makes of each return.
LEMMA DoneErr ==
  ASSUME pc' = "done"
  PROVE  /\ Decided' /\ ~Waiting'
         /\ res' = "result" => ErrOf' = "nil"
         /\ res' = "timeout" => ErrOf' = "ErrTimeout"
         /\ res' = "stopped" => ErrOf' = "ErrStopped"
         /\ res' = "notfound" => ErrOf' = "ErrNotFound"
         /\ res' \in {"cancelled", "error"} => ErrOf' = "other"
BY DEF Decided, Waiting, ErrOf

\* An exec that has not begun is refused.
LEMMA SeenRefusal ==
  ASSUME ~Decided, ~Waiting, UNCHANGED <<box, ctx>>, pc' = "done",
         \/ res' = "stopped" /\ ctx = "live" /\ box = "stopped"
         \/ res' = "notfound" /\ ctx = "live" /\ box = "gone"
         \/ res' = "error"
  PROVE  CallNext
<1>1. /\ HandlerPc[Self] = "run" /\ ~HandlerOn[Self]
      /\ ctx = "live" => HandlerCtx[Self]
  BY HandlerReads
<1>2. HandlerPc[Self] \in C!Execs
  BY <1>1 DEF C!Execs
<1>3. UNCHANGED Recorded
  BY DEF Recorded
<1>4. C!ExecRefused(Self)
  <2>1. CASE res' = "stopped" /\ ctx = "live" /\ box = "stopped"
    <3>1. C!Return(Self, "ErrStopped")
      BY Zenon, <2>1, DoneErr, SeenReturn
    <3>2. C!Answered(Self) /\ Recorded = "stopped"
      BY <1>1, <2>1 DEF C!Answered, Recorded
    <3>3. QED
      BY Zenon, <1>1, <1>2, <3>1, <3>2 DEF C!ExecRefused
  <2>2. CASE res' = "notfound" /\ ctx = "live" /\ box = "gone"
    <3>1. C!Return(Self, "ErrNotFound")
      BY Zenon, <2>2, DoneErr, SeenReturn
    <3>2. C!Answered(Self) /\ Recorded = "gone"
      BY <1>1, <2>2 DEF C!Answered, Recorded
    <3>3. QED
      BY Zenon, <1>1, <1>2, <3>1, <3>2 DEF C!ExecRefused
  <2>3. CASE res' = "error"
    <3>1. C!Return(Self, "other")
      BY <2>3, DoneErr, SeenReturn
    <3>2. C!Refused(Self)
      BY DEF C!Refused, CallFaults
    <3>3. QED
      BY Zenon, <1>1, <1>2, <3>1, <3>2 DEF C!ExecRefused
  <2>4. QED
    BY <2>1, <2>2, <2>3
<1>5. QED
  BY Zenon, <1>3, <1>4 DEF CallNext

\* An exec that has begun ends without a result.
LEMMA SeenFailure ==
  ASSUME Waiting, UNCHANGED <<box, ctx>>, pc' = "done", res' \in {"timeout", "cancelled", "error"}
  PROVE  CallNext
<1>1. ~Decided
  BY DEF Waiting, Decided
<1>2. HandlerPc[Self] = "run" /\ HandlerOn[Self]
  BY <1>1, HandlerReads
<1>3. HandlerPc[Self] \in C!Execs \ {"stream"}
  BY <1>2 DEF C!Execs
<1>4. UNCHANGED Recorded
  BY DEF Recorded
<1>5. CASE res' = "timeout"
  <2>1. C!Return(Self, "ErrTimeout")
    BY Zenon, <1>5, DoneErr, SeenReturn
  <2>2. C!ExecCutShort(Self)
    BY <1>2, <1>3, <2>1 DEF C!ExecCutShort, CallFaults
  <2>3. QED
    BY Zenon, <1>4, <2>2 DEF CallNext
<1>6. CASE res' \in {"cancelled", "error"}
  <2>1. C!Return(Self, "other")
    BY Zenon, <1>6, DoneErr, SeenReturn
  <2>2. C!ExecLost(Self)
    BY <1>2, <1>3, <2>1 DEF C!ExecLost, CallFaults
  <2>3. QED
    BY Zenon, <1>4, <2>2 DEF CallNext
<1>7. QED
  BY <1>5, <1>6

\* It ends with a result, of its own or of the sandbox's death.
LEMMA SeenResult ==
  ASSUME TypeOK, Waiting, UNCHANGED <<box, ctx>>, box # "gone", Decided', ~Waiting', ErrOf' = "nil"
  PROVE  CallNext
<1>1. ~Decided
  BY DEF Waiting, Decided
<1>2. HandlerPc[Self] = "run" /\ HandlerOn[Self]
  BY <1>1, HandlerReads
<1>3. HandlerPc[Self] \in C!Execs \ {"stream"}
  BY <1>2 DEF C!Execs
<1>4. UNCHANGED Recorded
  BY DEF Recorded
<1>5. C!Return(Self, "nil")
  BY Zenon, SeenReturn
<1>6. CASE Recorded = "running"
  <2>1. C!RunEnds(Self)
    BY Zenon, <1>2, <1>5, <1>6 DEF C!RunEnds, C!Running
  <2>2. QED
    BY Zenon, <1>4, <2>1 DEF CallNext
<1>7. CASE Recorded = "stopped"
  <2>1. C!ExecDies(Self)
    BY <1>2, <1>3, <1>5, <1>7 DEF C!ExecDies
  <2>2. QED
    BY Zenon, <1>4, <2>1 DEF CallNext
<1>8. QED
  BY <1>6, <1>7 DEF Recorded, TypeOK

\* The exec begins; the caller gives up; the sandbox ends.
LEMMA SeenBegin ==
  ASSUME pc = "attach", pc' = "wait", UNCHANGED <<box, ctx, res>>, ctx = "live", box = "running"
  PROVE  CallNext
<1>1. ~Decided /\ ~Waiting /\ ~Decided' /\ Waiting' /\ ErrOf' = ErrOf /\ UNCHANGED Recorded
  BY DEF Decided, Waiting, ErrOf, Recorded
<1>2. HandlerPc[Self] \in C!Execs /\ ~HandlerOn[Self] /\ C!Answered(Self) /\ Recorded = "running"
  BY <1>1, HandlerReads DEF C!Execs, C!Answered, Recorded
<1>3. HandlerOn' = [HandlerOn EXCEPT ![Self] = TRUE]
  <2>1. Waiting' = TRUE
    BY <1>1 DEF Waiting
  <2>2. QED
    BY Zenon, <2>1, OneCaller DEF HandlerOn, Alone
<1>4. UNCHANGED <<HandlerOp, HandlerPc, HandlerCtx, HandlerErr>>
  BY Zenon, <1>1 DEF HandlerOp, HandlerPc, HandlerCtx, HandlerErr, Alone
<1>5. C!ExecBegins(Self)
  BY Zenon, <1>2, <1>3, <1>4 DEF C!ExecBegins
<1>6. QED
  BY Zenon, <1>1, <1>5 DEF CallNext

LEMMA SeenGivingUp ==
  ASSUME ctx = "live", ctx' = "cancelled", UNCHANGED <<Recorded, Decided, Waiting, ErrOf>>
  PROVE  CallNext
<1>1. HandlerPc[Self] # "idle" /\ HandlerCtx[Self]
  BY HandlerReads
<1>2. HandlerCtx' = [HandlerCtx EXCEPT ![Self] = FALSE]
  <2>1. (ctx # "cancelled")' = FALSE
    OBVIOUS
  <2>2. QED
    BY Zenon, <2>1, OneCaller DEF HandlerCtx, Alone
<1>3. UNCHANGED <<HandlerOp, HandlerPc, HandlerOn, HandlerErr>>
  BY Zenon DEF HandlerOp, HandlerPc, HandlerOn, HandlerErr, Alone
<1>4. C!GivesUp(Self)
  BY <1>1, <1>2, <1>3 DEF C!GivesUp, CallFaults
<1>5. QED
  BY Zenon, <1>4 DEF CallNext

LEMMA SeenBoxEnd ==
  ASSUME TypeOK, \/ box = "dying" /\ box' = "stopped"
                 \/ box # "gone" /\ box' = "gone",
         UNCHANGED <<pc, ctx, res>>
  PROVE  CallNext
<1>1. UNCHANGED <<Decided, Waiting, ErrOf>>
  BY DEF Decided, Waiting, ErrOf
<1>2. UNCHANGED C!callVars
  <2>1. UNCHANGED <<HandlerOp, HandlerPc, HandlerOn, HandlerErr, HandlerCtx>>
    BY Zenon, <1>1 DEF HandlerOp, HandlerPc, HandlerOn, HandlerErr, HandlerCtx, Alone
  <2>2. QED
    BY Zenon, <2>1 DEF C!callVars
<1>3. \/ Recorded = "running" /\ Recorded' \in {"stopped", "gone"}
      \/ Recorded = "stopped" /\ Recorded' = "gone"
  BY DEF Recorded, TypeOK
<1>4. QED
  BY Zenon, <1>2, <1>3 DEF CallNext

LEMMA CallsStep ==
  ASSUME TypeOK, [Next]_vars
  PROVE  [CallNext]_<<Recorded, C!callVars>>
<1> DEFINE Same == UNCHANGED <<Recorded, Decided, Waiting, ErrOf>>
<1>1. CASE ExecCreate
  <2>1. CASE Answered /\ Goto("attach")
    <3>1. Same /\ ctx' = ctx
      BY <1>1, <2>1 DEF ExecCreate, Answered, Goto, Recorded, Decided, Waiting, ErrOf
    <3>2. QED
      BY <3>1, Unseen
  <2>2. CASE Return("stopped") \/ Return("notfound") \/ Return("error")
    BY <1>1, <2>2, SeenRefusal DEF ExecCreate, Answered, Refused, Return, Goto, Decided, Waiting
  <2>3. QED
    BY <1>1, <2>1, <2>2 DEF ExecCreate
<1>2. CASE ExecAttach
  <2>1. CASE Goto("wait")
    BY <1>2, <2>1, SeenBegin DEF ExecAttach, Answered, Goto
  <2>2. CASE Goto("classify")
    <3>1. Same
      BY <1>2, <2>2 DEF ExecAttach, Goto, Recorded, Decided, Waiting, ErrOf
    <3>2. CASE ctx' = ctx \/ ctx' = "deadline"
      BY <1>2, <3>1, <3>2, Unseen DEF ExecAttach, Answered, Refused, Lost
    <3>3. CASE ctx' = "cancelled" /\ ctx' # ctx
      BY <1>2, <3>1, <3>3, SeenGivingUp DEF ExecAttach, Answered, Refused, Lost
    <3>4. QED
      BY <1>2, <3>2, <3>3 DEF ExecAttach, Answered, Refused, Lost
  <2>3. QED
    BY <1>2, <2>1, <2>2 DEF ExecAttach
<1>3. CASE ClassifyAttach
  BY <1>3, SeenRefusal DEF ClassifyAttach, Answered, Refused, Return, Decided, Waiting
<1>4. CASE CopyDone \/ CtxDone
  <2>1. Same /\ ctx' = ctx
    BY <1>4 DEF CopyDone, CtxDone, Goto, Recorded, Decided, Waiting, ErrOf
  <2>2. QED
    BY <2>1, Unseen
<1>5. CASE CopyFails
  BY <1>5, SeenFailure DEF CopyFails, Return, Waiting
<1>6. CASE Inspect
  <2>1. CASE Goto("died")
    <3>1. Decided' /\ ~Waiting' /\ ErrOf' = "nil" /\ Waiting
      BY <1>6, <2>1 DEF Inspect, Goto, Decided, Waiting, ErrOf
    <3>2. QED
      BY <1>6, <2>1, <3>1, SeenResult DEF Inspect, Goto, Return
  <2>2. CASE Return("result")
    BY <1>6, <2>2, DoneErr, SeenResult DEF Inspect, Goto, Return, Waiting
  <2>3. CASE Return("error")
    BY <1>6, <2>3, SeenFailure DEF Inspect, Return, Waiting
  <2>4. QED
    BY <1>6, <2>1, <2>2, <2>3 DEF Inspect
<1>7. CASE AwaitStop \/ Settled
  <2>1. Same /\ ctx' = ctx
    BY <1>7 DEF AwaitStop, Settled, Goto, Return, Recorded, Decided, Waiting, ErrOf
  <2>2. QED
    BY <2>1, Unseen
<1>8. CASE KillStarts \/ KillResult \/ KillRetries
  <2>1. UNCHANGED <<box, ctx>> /\ Waiting
    BY <1>8 DEF KillStarts, KillResult, KillRetries, Waiting
  <2>2. CASE \E how : KillEnds(how)
    BY <2>1, <2>2, SeenFailure DEF KillEnds
  <2>3. CASE Goto("killing") \/ Goto("pause") \/ Goto("kill")
    <3>1. Same
      BY <2>1, <2>3 DEF Goto, Recorded, Decided, Waiting, ErrOf
    <3>2. QED
      BY <2>1, <3>1, Unseen
  <2>4. QED
    BY <1>8, <2>2, <2>3 DEF KillStarts, KillResult, KillRetries
<1>9. CASE ContextEnds
  <2>1. Same
    BY <1>9 DEF ContextEnds, Recorded, Decided, Waiting, ErrOf
  <2>2. QED
    BY <1>9, <2>1, Unseen, SeenGivingUp DEF ContextEnds
<1>10. CASE UNCHANGED <<box, ctx, pc, res>>
  <2>1. Same
    BY <1>10 DEF Recorded, Decided, Waiting, ErrOf
  <2>2. QED
    BY <1>10, <2>1, Unseen
<1>11. CASE BoxDies
  <2>1. Same /\ ctx' = ctx
    BY <1>11 DEF BoxDies, BoxEnds, callerVars, Recorded, Decided, Waiting, ErrOf
  <2>2. QED
    BY <2>1, Unseen
<1>12. CASE BoxSettles \/ BoxRemoved
  BY <1>12, SeenBoxEnd DEF BoxSettles, BoxRemoved, BoxEnds, callerVars
<1>13. QED
  BY <1>1, <1>2, <1>3, <1>4, <1>5, <1>6, <1>7, <1>8, <1>9, <1>10, <1>11, <1>12
     DEF Next, Caller, WaitRunsOut, Guest, KillScript, KillReads, KillUnlinks, KillSignals,
         callerVars, vars

(***************************************************************************)
(* Calls, and with it Guest, rests on the Exec of sandbox.go:58: whatever  *)
(* interleaving of the command, the kill, the context and the sandbox, its  *)
(* handler sees it begin at most once and end in a way Calls provides for.  *)
(***************************************************************************)
THEOREM ExecIsCall == Spec => ImplementsCalls
<1>1. ASSUME Init
      PROVE  CallInit
  <2>1. /\ Recorded = "running" /\ Decided = FALSE /\ Waiting = FALSE /\ ErrOf = "none"
        /\ (ctx # "cancelled") = TRUE
    BY <1>1 DEF Init, Recorded, Decided, Waiting, ErrOf
  <2>2. /\ HandlerPc = Alone("run") /\ HandlerOn = Alone(FALSE) /\ HandlerCtx = Alone(TRUE)
        /\ HandlerErr = Alone("none")
    BY Zenon, <2>1 DEF HandlerPc, HandlerOn, HandlerCtx, HandlerErr, Alone
  <2>3. QED
    BY <2>1, <2>2 DEF CallInit
<1>2. QED
  BY <1>1, CallsStep, ExecTyped, PTL DEF Spec, ImplementsCalls
=============================================================================
