---------------------------- MODULE BrokerProofs ----------------------------
(***************************************************************************)
(* Theorems about module Broker, for any number of requests, containers,    *)
(* names, profiles and caps, and under every combination of faults.         *)
(***************************************************************************)
EXTENDS BrokerLive, BackendProofs, FiniteSetTheorems

\* First-order steps go to Zenon; a step that counts or takes a sequence apart
\* cites SMT.
USE Zenon

\* What Backend.Create is about to hand back, or has handed back.
Reached(c) ==
  /\ sb[c] \in Ids
  /\ status[sb[c]] # "unborn"
  /\ nameOf[sb[c]] = wantName[c]

RequestOK(c) ==
  /\ CallOK(c)
  /\ pc[c] \in {"check", "reserve", "count", "options"}
       => wantName[c] \in Names /\ wantSpec[c] \in Specs
  /\ slot[c] => /\ pc[c] \in CreateSteps \cup {"options", "respond", "done"}
                /\ wantSpec[c] \in Specs
  /\ pc[c] = "halted" => Reached(c)
  /\ pc[c] = "done" /\ out[c] = "ok" /\ wantSpec[c] # Nil => Reached(c)
  /\ pc[c] = "respond" /\ out[c] = "created" => Reached(c) /\ specOf[sb[c]] = wantSpec[c]

RequestsOK == \A c \in Callers : RequestOK(c)

\* The inductive invariant of Broker.
BrokerInv == BrokerTypeOK /\ RequestsOK /\ OneSandboxPerName /\ PendingExact

-----------------------------------------------------------------------------
LEMMA BrokerEffect ==
  ASSUME RequestsOK, BrokerNext
  PROVE  DockerEffect
<1>1. ASSUME NEW c \in Callers, CallStep(c)
      PROVE  DockerEffect
  BY <1>1, StepEffect DEF RequestsOK, RequestOK
<1>2. ASSUME NEW c \in Callers, NEW n \in Names,
             (\E p \in Specs : HandleCreate(c, n, p)) \/ HandleGet(c, n)
               \/ HandleDestroy(c, n) \/ HandleStop(c, n)
      PROVE  DockerEffect
  BY <1>2 DEF HandleCreate, HandleGet, HandleDestroy, HandleStop, CallOpen, CallDestroy,
              CallStop, Begin, DockerEffect
<1>3. ASSUME NEW c \in Callers,
             CheckExisting(c) \/ Reserve(c) \/ CountLive(c) \/ Options(c) \/ Recheck(c)
               \/ HandlerReturns(c) \/ CancelRequest(c)
      PROVE  DockerEffect
  BY <1>3 DEF CheckExisting, Reserve, CountLive, Options, Recheck, HandlerReturns, Forget,
              CancelRequest, DockerEffect
<1>4. ASSUME NEW i \in Ids, ReapRemoves(i) \/ Halt(i)
      PROVE  DockerEffect
  BY <1>4 DEF ReapRemoves, Halt, DockerEffect
<1>5. CASE CrashDaemon
  BY <1>5 DEF CrashDaemon, DockerEffect
<1> QED
  BY <1>1, <1>2, <1>3, <1>4, <1>5 DEF BrokerNext, RequestStep, Environment

-----------------------------------------------------------------------------
(* What the steps of one request leave alone, and where they send it. *)

\* Functions over requests, their ranges put aside.
LEMMA RequestFunctions ==
  ASSUME BrokerTypeOK
  PROVE  \E P, N, S, H, O, B :
           /\ pc \in [Callers -> P] /\ wantName \in [Callers -> N]
           /\ wantSpec \in [Callers -> S] /\ sb \in [Callers -> H]
           /\ out \in [Callers -> O] /\ slot \in [Callers -> B]
BY DEF BrokerTypeOK

LEMMA StepFrame ==
  ASSUME BrokerTypeOK, NEW c \in Callers, CallStep(c)
  PROVE  /\ pc'[c] \in CallSteps \cup {"done"}
         /\ \A d \in Callers : d # c => pc'[d] = pc[d] /\ sb'[d] = sb[d] /\ out'[d] = out[d]
         /\ wantName' = wantName /\ wantSpec' = wantSpec
<1>1. PICK P, H, O :
        pc \in [Callers -> P] /\ sb \in [Callers -> H] /\ out \in [Callers -> O]
  BY RequestFunctions
<1>2. PICK x \in CallSteps \cup {"done"} : pc' = [pc EXCEPT ![c] = x]
  BY StepShape
<1>3. out' = out \/ \E o \in Outcomes : out' = [out EXCEPT ![c] = o]
  BY StepShape
<1>4. sb' = sb \/ \E i \in Ids : sb' = [sb EXCEPT ![c] = i]
  BY StepShape
<1>5. \A d \in Callers : d # c => pc'[d] = pc[d]
  BY <1>1, <1>2
<1>6. \A d \in Callers : d # c => out'[d] = out[d]
  BY <1>1, <1>3
<1>7. \A d \in Callers : d # c => sb'[d] = sb[d]
  BY <1>1, <1>4
<1>8. pc'[c] = x
  BY <1>1, <1>2
<1>9. wantName' = wantName /\ wantSpec' = wantSpec
  BY StepShape
<1> QED
  BY <1>2, <1>5, <1>6, <1>7, <1>8, <1>9

\* A request arrives.
Arrives(c, n) ==
  (\E p \in Specs : HandleCreate(c, n, p)) \/ HandleGet(c, n) \/ HandleDestroy(c, n)
    \/ HandleStop(c, n)

LEMMA ArriveFrame ==
  ASSUME BrokerTypeOK, NEW c \in Callers, NEW n \in Names, Arrives(c, n)
  PROVE  /\ pc[c] = "idle"
         /\ \/ pc'[c] = "check" /\ wantSpec'[c] \in Specs
            \/ pc'[c] \in {"lookup", "destroy", "stopOpen"} /\ wantSpec'[c] = Nil
         /\ wantName'[c] = n
         /\ \A d \in Callers : d # c => /\ pc'[d] = pc[d]
                                        /\ wantName'[d] = wantName[d] /\ wantSpec'[d] = wantSpec[d]
         /\ UNCHANGED <<dockerVars, sb, out, capVars>>
<1>1. PICK P, N, S :
        pc \in [Callers -> P] /\ wantName \in [Callers -> N] /\ wantSpec \in [Callers -> S]
  BY RequestFunctions
<1>2. \E s, q : /\ Begin(c, s, n, q) /\ UNCHANGED capVars
                /\ \/ s = "check" /\ q \in Specs
                   \/ s \in {"lookup", "destroy", "stopOpen"} /\ q = Nil
  BY DEF Arrives, HandleCreate, HandleGet, HandleDestroy, HandleStop, CallOpen, CallDestroy,
         CallStop
<1>3. PICK s, q : /\ Begin(c, s, n, q) /\ UNCHANGED capVars
                  /\ \/ s = "check" /\ q \in Specs
                     \/ s \in {"lookup", "destroy", "stopOpen"} /\ q = Nil
  BY <1>2
<1>4. pc'[c] = s /\ wantName'[c] = n /\ wantSpec'[c] = q
  BY <1>1, <1>3 DEF Begin
<1>5. \A d \in Callers : d # c => /\ pc'[d] = pc[d]
                                  /\ wantName'[d] = wantName[d] /\ wantSpec'[d] = wantSpec[d]
  BY <1>1, <1>3 DEF Begin
<1>6. pc[c] = "idle" /\ UNCHANGED <<dockerVars, sb, out, capVars>>
  BY <1>3 DEF Begin
<1> QED
  BY <1>3, <1>4, <1>5, <1>6

\* A step of handleCreate outside Backend.Create.
Asks(c) == CheckExisting(c) \/ Reserve(c) \/ CountLive(c) \/ Options(c) \/ Recheck(c)

LEMMA AskFrame ==
  ASSUME BrokerTypeOK, NEW c \in Callers, Asks(c)
  PROVE  /\ UNCHANGED <<dockerVars, callVars, sb>>
         /\ \A d \in Callers : d # c => pc'[d] = pc[d] /\ out'[d] = out[d]
         /\ \/ CheckExisting(c) /\ pc[c] = "check" /\ pc'[c] \in {"reserve", "options", "respond"}
            \/ Reserve(c) /\ pc[c] = "reserve" /\ pc'[c] \in {"count", "options"}
            \/ CountLive(c) /\ pc[c] = "count" /\ pc'[c] \in {"options", "respond"}
            \/ Options(c) /\ pc[c] = "options" /\ pc'[c] \in {"open", "respond"}
            \/ Recheck(c) /\ pc[c] = "done" /\ pc'[c] = "respond"
         /\ pc[c] # "done" /\ pc'[c] = "respond" => out'[c] # "created"
<1>1. PICK P, O : pc \in [Callers -> P] /\ out \in [Callers -> O]
  BY RequestFunctions
<1> USE DEF Respond, Goto
<1>2. UNCHANGED <<dockerVars, callVars, sb>>
  BY DEF Asks, CheckExisting, Reserve, CountLive, Options, Recheck
<1>3. CASE CheckExisting(c)
  <2>1. /\ pc[c] = "check"
        /\ \/ \E x \in {"options", "reserve"} : pc' = [pc EXCEPT ![c] = x] /\ out' = out
           \/ /\ pc' = [pc EXCEPT ![c] = "respond"]
              /\ \E r \in {"conflict", "failed"} : out' = [out EXCEPT ![c] = r]
    BY <1>3 DEF CheckExisting
  <2> QED
    BY <1>1, <1>2, <1>3, <2>1
<1>4. CASE Reserve(c)
  <2>1. pc[c] = "reserve" /\ out' = out /\ \E x \in {"count", "options"} : pc' = [pc EXCEPT ![c] = x]
    BY <1>4 DEF Reserve
  <2> QED
    BY <1>1, <1>2, <1>4, <2>1
<1>5. CASE CountLive(c)
  <2>1. /\ pc[c] = "count"
        /\ \/ pc' = [pc EXCEPT ![c] = "options"] /\ out' = out
           \/ /\ pc' = [pc EXCEPT ![c] = "respond"]
              /\ \E r \in {"atcapacity", "failed"} : out' = [out EXCEPT ![c] = r]
    BY <1>5 DEF CountLive
  <2> QED
    BY <1>1, <1>2, <1>5, <2>1
<1>6. CASE Options(c)
  <2>1. /\ pc[c] = "options"
        /\ \/ pc' = [pc EXCEPT ![c] = "open"] /\ out' = out
           \/ pc' = [pc EXCEPT ![c] = "respond"] /\ out' = [out EXCEPT ![c] = "invalid"]
    BY <1>6 DEF Options
  <2> QED
    BY <1>1, <1>2, <1>6, <2>1
<1>7. CASE Recheck(c)
  <2>1. /\ pc[c] = "done" /\ pc' = [pc EXCEPT ![c] = "respond"]
        /\ \E r : out' = [out EXCEPT ![c] = r]
    BY <1>7 DEF Recheck
  <2> QED
    BY <1>1, <1>2, <1>7, <2>1
<1> QED
  BY <1>3, <1>4, <1>5, <1>6, <1>7 DEF Asks

LEMMA ReturnFrame ==
  ASSUME BrokerTypeOK, NEW c \in Callers, HandlerReturns(c)
  PROVE  /\ pc[c] \in {"respond", "done"} /\ pc'[c] = "idle" /\ sb'[c] = Nil
         /\ \A d \in Callers : d # c => /\ pc'[d] = pc[d] /\ sb'[d] = sb[d] /\ out'[d] = out[d]
                                        /\ wantName'[d] = wantName[d] /\ wantSpec'[d] = wantSpec[d]
         /\ UNCHANGED <<dockerVars, mu>>
<1>1. PICK P, N, S, H, O :
        /\ pc \in [Callers -> P] /\ wantName \in [Callers -> N] /\ wantSpec \in [Callers -> S]
        /\ sb \in [Callers -> H] /\ out \in [Callers -> O]
  BY RequestFunctions
<1> QED
  BY <1>1 DEF HandlerReturns, Forget

\* Where a step of a backend call leads.
LEMMA StepEdges ==
  ASSUME NEW P, pc \in [Callers -> P], NEW c \in Callers, CallStep(c)
  PROVE  \/ pc[c] = "open" /\ pc'[c] \in {"halted", "prepare", "done"}
         \/ pc[c] = "halted" /\ pc'[c] \in {"replace", "done"}
         \/ pc[c] = "replace" /\ pc'[c] \in {"prepare", "done"}
         \/ pc[c] = "prepare" /\ pc'[c] \in {"create", "done"}
         \/ pc[c] = "create" /\ pc'[c] \in {"start", "reopen", "done"}
         \/ pc[c] = "start" /\ pc'[c] \in {"reopen", "rollback"}
         \/ pc[c] = "rollback" /\ pc'[c] \in {"done"}
         \/ pc[c] = "reopen" /\ pc'[c] \in {"done"}
         \/ pc[c] = "lookup" /\ pc'[c] \in {"done"}
         \/ pc[c] = "destroy" /\ pc'[c] \in {"done"}
         \/ pc[c] = "stopOpen" /\ pc'[c] \in {"stop", "done"}
         \/ pc[c] = "stop" /\ pc'[c] \in {"done"}
<1> USE DEF Goto, Return
<1>1. CASE CreateOpen(c)
  <2>1. pc[c] = "open" /\ pc'[c] \in {"halted", "prepare", "done"}
    BY <1>1 DEF CreateOpen
  <2> QED
    BY <2>1
<1>2. CASE CreateHalted(c)
  <2>1. pc[c] = "halted" /\ pc'[c] \in {"replace", "done"}
    BY <1>2 DEF CreateHalted
  <2> QED
    BY <2>1
<1>3. CASE CreateReplace(c)
  <2>1. pc[c] = "replace" /\ pc'[c] \in {"prepare", "done"}
    BY <1>3 DEF CreateReplace, RemoveByName
  <2> QED
    BY <2>1
<1>4. CASE CreatePrepare(c)
  <2>1. pc[c] = "prepare" /\ pc'[c] \in {"create", "done"}
    BY <1>4 DEF CreatePrepare
  <2> QED
    BY <2>1
<1>5. CASE CreateContainer(c)
  <2>1. pc[c] = "create" /\ pc'[c] \in {"start", "reopen", "done"}
    BY <1>5 DEF CreateContainer
  <2> QED
    BY <2>1
<1>6. CASE CreateStart(c)
  <2>1. pc[c] = "start" /\ pc'[c] \in {"reopen", "rollback"}
    BY <1>6 DEF CreateStart
  <2> QED
    BY <2>1
<1>7. CASE CreateRollback(c)
  <2>1. pc[c] = "rollback" /\ pc'[c] \in {"done"}
    BY <1>7 DEF CreateRollback
  <2> QED
    BY <2>1
<1>8. CASE CreateReopen(c)
  <2>1. pc[c] = "reopen" /\ pc'[c] \in {"done"}
    BY <1>8 DEF CreateReopen, OpenThen
  <2> QED
    BY <2>1
<1>9. CASE Open(c)
  <2>1. pc[c] = "lookup" /\ pc'[c] \in {"done"}
    BY <1>9 DEF Open, OpenThen
  <2> QED
    BY <2>1
<1>10. CASE Destroy(c)
  <2>1. pc[c] = "destroy" /\ pc'[c] \in {"done"}
    BY <1>10 DEF Destroy, RemoveByName
  <2> QED
    BY <2>1
<1>11. CASE StopOpen(c)
  <2>1. pc[c] = "stopOpen" /\ pc'[c] \in {"stop", "done"}
    BY <1>11 DEF StopOpen, OpenThen
  <2> QED
    BY <2>1
<1>12. CASE Stop(c)
  <2>1. pc[c] = "stop" /\ pc'[c] \in {"done"}
    BY <1>12 DEF Stop
  <2> QED
    BY <2>1
<1> QED
  BY <1>1, <1>2, <1>3, <1>4, <1>5, <1>6, <1>7, <1>8, <1>9, <1>10, <1>11, <1>12
     DEF CallStep

\* What a step of a backend call does to Docker.
LEMMA StepDocker ==
  ASSUME NEW c \in Callers, CallOK(c), CallStep(c)
  PROVE  \/ UNCHANGED dockerVars
         \/ \E S : ContainerRemove(S) \/ ContainerRemoveFailed(S)
         \/ \E j \in Ids : ContainerStart(j) \/ ContainerStop(j)
         \/ pc[c] = "create" /\ \E j \in Ids : ContainerCreate(j, wantName[c], wantSpec[c])
<1>1. CASE CreateOpen(c) \/ CreateHalted(c) \/ CreatePrepare(c) \/ CreateReopen(c)
           \/ Open(c) \/ StopOpen(c)
  BY <1>1 DEF CreateOpen, CreateHalted, CreatePrepare, CreateReopen, Open, StopOpen
<1>2. CASE CreateReplace(c) \/ Destroy(c)
  BY <1>2 DEF CreateReplace, Destroy, RemoveByName
<1>3. CASE CreateRollback(c)
  BY <1>3 DEF CreateRollback
<1>4. CASE CreateContainer(c)
  BY <1>4 DEF CreateContainer
<1>5. CASE CreateStart(c)
  BY <1>5 DEF CreateStart, CallOK
<1>6. CASE Stop(c)
  BY <1>6 DEF Stop, CallOK
<1> QED
  BY <1>1, <1>2, <1>3, <1>4, <1>5, <1>6 DEF CallStep

\* How Backend.Create comes to hold a handle it may return.
LEMMA StepReached ==
  ASSUME BrokerTypeOK, NEW c \in Callers, RequestOK(c), CallStep(c)
  PROVE  /\ pc'[c] = "halted" => Reached(c)'
         /\ pc'[c] = "done" /\ out'[c] = "ok" /\ wantSpec'[c] # Nil => Reached(c)'
         /\ pc'[c] # "respond"
<1> USE DEF BrokerTypeOK, DockerTypeOK, RequestOK, CallOK, Reached, callVars, dockerVars, Goto,
            Return, Holds, CallSteps, CreateSteps, Present, Named
<1>1. CASE CreateOpen(c)
  BY <1>1 DEF CreateOpen
<1>2. CASE CreateHalted(c)
  BY <1>2 DEF CreateHalted
<1>3. CASE CreateReplace(c)
  BY <1>3 DEF CreateReplace, RemoveByName
<1>4. CASE CreatePrepare(c)
  BY <1>4 DEF CreatePrepare
<1>5. CASE CreateContainer(c)
  BY <1>5 DEF CreateContainer
<1>6. CASE CreateStart(c)
  BY <1>6 DEF CreateStart
<1>7. CASE CreateRollback(c)
  BY <1>7 DEF CreateRollback
<1>8. CASE CreateReopen(c)
  BY <1>8 DEF CreateReopen, OpenThen
<1>9. CASE Open(c)
  BY <1>9 DEF Open, OpenThen
<1>10. CASE Destroy(c)
  BY <1>10 DEF Destroy, RemoveByName
<1>11. CASE StopOpen(c)
  BY <1>11 DEF StopOpen, OpenThen
<1>12. CASE Stop(c)
  BY <1>12 DEF Stop
<1> QED
  BY <1>1, <1>2, <1>3, <1>4, <1>5, <1>6, <1>7, <1>8, <1>9, <1>10, <1>11, <1>12
     DEF CallStep

-----------------------------------------------------------------------------
LEMMA BrokerTypeNext ==
  ASSUME BrokerInv, BrokerNext
  PROVE  BrokerTypeOK'
<1>1. DockerTypeOK'
  BY BrokerEffect, EffectTypes DEF BrokerInv, BrokerTypeOK
<1> USE <1>1 DEF BrokerInv, BrokerTypeOK
<1>2. ASSUME NEW c \in Callers, CallStep(c), UNCHANGED capVars
      PROVE  BrokerTypeOK'
  <2>1. pc' \in [Callers -> CallSteps \cup BrokerSteps \cup {"idle", "done"}]
    BY <1>2, StepShape
  <2>2. out' \in [Callers -> Outcomes \cup Responses]
    BY SMT, <1>2, StepShape
  <2>3. sb' \in [Callers -> Ids \cup {Nil}]
    BY SMT, <1>2, StepShape
  <2>4. cancelled' \in [Callers -> BOOLEAN]
    BY <1>2, StepShape
  <2>5. wantName' = wantName /\ wantSpec' = wantSpec
    BY <1>2, StepShape
  <2> QED
    BY <1>2, <2>1, <2>2, <2>3, <2>4, <2>5 DEF capVars
<1>3. ASSUME NEW c \in Callers, NEW n \in Names, Arrives(c, n)
      PROVE  BrokerTypeOK'
  BY SMT, <1>3 DEF Arrives, HandleCreate, HandleGet, HandleDestroy, HandleStop, CallOpen, CallDestroy,
              CallStop, Begin, CallSteps, BrokerSteps, capVars
<1>4. ASSUME NEW c \in Callers, CheckExisting(c)
      PROVE  BrokerTypeOK'
  BY <1>4 DEF CheckExisting, Respond, Goto, Answered, Refused, BrokerSteps, Responses, callVars,
              capVars
<1>5. ASSUME NEW c \in Callers, Reserve(c)
      PROVE  BrokerTypeOK'
  BY <1>5 DEF Reserve, Goto, BrokerSteps, callVars
<1>6. ASSUME NEW c \in Callers, CountLive(c)
      PROVE  BrokerTypeOK'
  <2>1. wantSpec[c] \in Specs
    BY <1>6 DEF CountLive, RequestsOK, RequestOK
  <2>2. pending' \in [Specs -> Nat]
    BY SMT, <1>6, <2>1 DEF CountLive
  <2> QED
    BY <1>6, <2>2 DEF CountLive, Respond, Goto, Answered, Refused, BrokerSteps, Responses, callVars
<1>7. ASSUME NEW c \in Callers, Options(c) \/ Recheck(c) \/ CancelRequest(c)
      PROVE  BrokerTypeOK'
  BY <1>7 DEF Options, Recheck, CancelRequest, Respond, Goto, CallSteps, CreateSteps,
              BrokerSteps, Responses, callVars, capVars
<1>8. ASSUME NEW c \in Callers, HandlerReturns(c)
      PROVE  BrokerTypeOK'
  <2>1. CASE ~slot[c]
    BY <1>8, <2>1 DEF HandlerReturns, Forget, Outcomes
  <2>2. CASE slot[c]
    <3>1. pending' \in [Specs -> Nat]
      BY SMT, <1>8, <2>2 DEF HandlerReturns, Released, RequestsOK, RequestOK
    <3> QED
      BY <1>8, <3>1 DEF HandlerReturns, Forget, Outcomes
  <2> QED
    BY <2>1, <2>2
<1>9. ASSUME NEW i \in Ids, ReapRemoves(i) \/ Halt(i), UNCHANGED capVars
      PROVE  BrokerTypeOK'
  BY <1>9 DEF ReapRemoves, Halt, callVars, capVars
<1>10. CASE CrashDaemon
  BY <1>10 DEF CrashDaemon, Outcomes
<1> QED
  BY <1>2, <1>3, <1>4, <1>5, <1>6, <1>7, <1>8, <1>9, <1>10
     DEF BrokerNext, Arrives, RequestStep, Environment

\* A step that leaves a request's own variables alone leaves its invariant alone.
LEMMA RequestKept ==
  ASSUME BrokerTypeOK, DockerEffect, NEW d \in Callers, RequestOK(d),
         pc'[d] = pc[d], wantName'[d] = wantName[d], wantSpec'[d] = wantSpec[d],
         sb'[d] = sb[d], out'[d] = out[d], slot'[d] = slot[d]
  PROVE  RequestOK(d)'
<1>1. Reached(d) => Reached(d)' /\ specOf'[sb'[d]] = specOf[sb[d]]
  BY EffectForward DEF Reached, Forward, BrokerTypeOK
<1> QED
  BY <1>1 DEF RequestOK, CallOK

LEMMA RequestsNext ==
  ASSUME BrokerInv, BrokerNext
  PROVE  RequestsOK'
<1> SUFFICES ASSUME NEW d \in Callers
             PROVE  RequestOK(d)'
  BY DEF RequestsOK
<1>1. BrokerTypeOK /\ DockerTypeOK /\ RequestsOK /\ RequestOK(d) /\ DockerEffect
  BY BrokerEffect DEF BrokerInv, RequestsOK, BrokerTypeOK
<1>2. ASSUME NEW c \in Callers, CallStep(c), UNCHANGED capVars
      PROVE  RequestOK(d)'
  <2>1. CASE c # d
    <3>1. /\ pc'[d] = pc[d] /\ wantName'[d] = wantName[d] /\ wantSpec'[d] = wantSpec[d]
          /\ sb'[d] = sb[d] /\ out'[d] = out[d] /\ slot'[d] = slot[d]
      BY <1>1, <1>2, <2>1, StepFrame DEF capVars
    <3> QED
      BY <3>1, <1>1, RequestKept
  <2>2. CASE c = d
    <3>1. CallOK(d)'
      <4>1. CallOK(d) /\ pc \in [Callers -> CallSteps \cup BrokerSteps \cup {"idle", "done"}]
            /\ sb \in [Callers -> Ids \cup {Nil}]
        BY <1>1 DEF RequestOK, BrokerTypeOK
      <4> QED
        BY <1>2, <2>2, <4>1, StepCallOK
    <3>2. /\ pc'[d] \in CallSteps \cup {"done"} /\ wantSpec' = wantSpec /\ slot' = slot
      BY <1>1, <1>2, <2>2, StepFrame DEF capVars
    <3>3. slot[d] => pc'[d] \in CreateSteps \cup {"done"} /\ wantSpec'[d] \in Specs
      BY <1>1, <3>1, <3>2, NilAssumption DEF RequestOK, CallOK, CallSteps
    <3>4. pc'[d] \notin {"check", "reserve", "count", "options", "respond"}
      BY <3>2 DEF CallSteps, CreateSteps
    <3> QED
      BY <1>1, <1>2, <2>2, <3>1, <3>2, <3>3, <3>4, StepReached DEF RequestOK
  <2> QED
    BY <2>1, <2>2
<1>3. ASSUME NEW c \in Callers, NEW n \in Names, Arrives(c, n)
      PROVE  RequestOK(d)'
  <2>1. CASE c # d
    <3>1. /\ pc'[d] = pc[d] /\ wantName'[d] = wantName[d] /\ wantSpec'[d] = wantSpec[d]
          /\ sb'[d] = sb[d] /\ out'[d] = out[d] /\ slot'[d] = slot[d]
      BY <1>1, <1>3, <2>1, ArriveFrame DEF capVars
    <3> QED
      BY <1>1, <3>1, RequestKept
  <2>2. CASE c = d
    <3>1. /\ \/ pc'[d] = "check" /\ wantSpec'[d] \in Specs
             \/ pc'[d] \in {"lookup", "destroy", "stopOpen"} /\ wantSpec'[d] = Nil
          /\ wantName'[d] \in Names
      BY <1>1, <1>3, <2>2, ArriveFrame
    <3>2. pc[d] = "idle" /\ slot'[d] = slot[d]
      BY <1>1, <1>3, <2>2, ArriveFrame DEF capVars
    <3>3. ~slot'[d]
      BY <1>1, <3>2 DEF RequestOK, CreateSteps
    <3>4. CallOK(d)'
      BY <3>1 DEF CallOK, CallSteps, CreateSteps
    <3> QED
      BY <3>1, <3>3, <3>4 DEF RequestOK
  <2> QED
    BY <2>1, <2>2
<1> USE DEF BrokerTypeOK
<1>4. ASSUME NEW c \in Callers,
             CheckExisting(c) \/ Reserve(c) \/ CountLive(c) \/ Options(c) \/ CancelRequest(c)
      PROVE  RequestOK(d)'
  <2> USE DEF CheckExisting, Reserve, CountLive, Options, CancelRequest, Respond, Goto,
              callVars, capVars
  <2>1. CASE c # d \/ CancelRequest(c)
    BY <1>1, <1>4, <2>1, RequestKept
  <2>2. CASE c = d /\ CheckExisting(c)
    BY <1>1, <2>2 DEF RequestOK, CallOK, CallSteps, CreateSteps
  <2>3. CASE c = d /\ Reserve(c)
    BY <1>1, <2>3 DEF RequestOK, CallOK, CallSteps, CreateSteps
  <2>4. CASE c = d /\ CountLive(c)
    BY <1>1, <2>4 DEF RequestOK, CallOK, CallSteps, CreateSteps
  <2>5. CASE c = d /\ Options(c)
    BY <1>1, <2>5 DEF RequestOK, CallOK, CallSteps, CreateSteps
  <2> QED
    BY <1>4, <2>1, <2>2, <2>3, <2>4, <2>5
<1>5. ASSUME NEW c \in Callers, Recheck(c)
      PROVE  RequestOK(d)'
  <2> USE DEF Recheck, Respond, callVars, capVars
  <2>1. CASE c # d
    BY <1>1, <1>5, <2>1, RequestKept
  <2>2. CASE c = d
    <3>1. pc'[d] = "respond" /\ UNCHANGED <<dockerVars, wantName, wantSpec, sb, slot>>
      BY <1>1, <1>5, <2>2
    <3>2. out'[d] = "created" => out[d] = "ok" /\ specOf[sb[d]] = wantSpec[d]
      BY <1>1, <1>5, <2>2
    <3> QED
      BY <1>1, <1>5, <2>2, <3>1, <3>2
         DEF RequestOK, Reached, CallOK, CallSteps, CreateSteps, dockerVars
  <2> QED
    BY <2>1, <2>2
<1>6. ASSUME NEW c \in Callers, HandlerReturns(c)
      PROVE  RequestOK(d)'
  <2>1. CASE c # d
    BY <1>1, <1>6, <2>1, RequestKept DEF HandlerReturns, Forget
  <2>2. CASE c = d
    BY <1>1, <1>6, <2>2 DEF HandlerReturns, Forget, RequestOK, CallOK, CallSteps, CreateSteps
  <2> QED
    BY <2>1, <2>2
<1>7. ASSUME NEW i \in Ids, ReapRemoves(i) \/ Halt(i), UNCHANGED capVars
      PROVE  RequestOK(d)'
  BY <1>1, <1>7, RequestKept DEF ReapRemoves, Halt, callVars, capVars
<1>8. CASE CrashDaemon
  BY <1>8 DEF CrashDaemon, RequestOK, CallOK, CallSteps, CreateSteps
<1> QED
  BY <1>2, <1>3, <1>4, <1>5, <1>6, <1>7, <1>8 DEF BrokerNext, Arrives, RequestStep, Environment

-----------------------------------------------------------------------------
(* pending counts the requests that owe a release. *)

LEMMA FiniteHolders == \A p : IsFiniteSet(Holders(p))
BY CapAssumption, FS_Subset DEF Holders

\* No slot moves: the sets of holders, and so the counts, stay.
LEMMA SlotsKept ==
  ASSUME PendingExact, pending' = pending,
         \A c \in Callers : slot'[c] = slot[c] /\ (slot[c] => wantSpec'[c] = wantSpec[c])
  PROVE  PendingExact'
<1>1. \A p \in Specs : Holders(p)' = Holders(p)
  BY DEF Holders
<1> QED
  BY <1>1 DEF PendingExact

LEMMA SlotTaken ==
  ASSUME BrokerTypeOK, PendingExact, NEW c \in Callers, ~slot[c], wantSpec[c] \in Specs,
         slot' = [slot EXCEPT ![c] = TRUE], wantSpec' = wantSpec,
         pending' = [pending EXCEPT ![wantSpec[c]] = @ + 1]
  PROVE  PendingExact'
<1> SUFFICES ASSUME NEW p \in Specs
             PROVE  pending'[p] = Cardinality(Holders(p)')
  BY DEF PendingExact
<1>1. pending[p] = Cardinality(Holders(p)) /\ IsFiniteSet(Holders(p))
  BY FiniteHolders DEF PendingExact
<1>2. CASE p = wantSpec[c]
  <2>1. Holders(p)' = Holders(p) \cup {c} /\ c \notin Holders(p)
    BY <1>2 DEF Holders, BrokerTypeOK
  <2>2. Cardinality(Holders(p) \cup {c}) = Cardinality(Holders(p)) + 1
    BY <1>1, <2>1, FS_AddElement
  <2> QED
    BY <1>1, <1>2, <2>1, <2>2 DEF BrokerTypeOK
<1>3. CASE p # wantSpec[c]
  <2>1. Holders(p)' = Holders(p)
    BY <1>3 DEF Holders, BrokerTypeOK
  <2> QED
    BY <1>1, <1>3, <2>1 DEF BrokerTypeOK
<1> QED
  BY <1>2, <1>3

LEMMA SlotReleased ==
  ASSUME BrokerTypeOK, PendingExact, NEW c \in Callers, slot[c], wantSpec[c] \in Specs,
         slot' = [slot EXCEPT ![c] = FALSE],
         \A d \in Callers : d # c => wantSpec'[d] = wantSpec[d],
         pending' = [pending EXCEPT ![wantSpec[c]] = Released(@)]
  PROVE  PendingExact'
<1> SUFFICES ASSUME NEW p \in Specs
             PROVE  pending'[p] = Cardinality(Holders(p)')
  BY DEF PendingExact
<1>1. pending[p] = Cardinality(Holders(p)) /\ IsFiniteSet(Holders(p))
  BY FiniteHolders DEF PendingExact
<1>2. CASE p = wantSpec[c]
  <2>1. Holders(p)' = Holders(p) \ {c} /\ c \in Holders(p)
    BY <1>2 DEF Holders, BrokerTypeOK
  <2>2. Cardinality(Holders(p) \ {c}) = Cardinality(Holders(p)) - 1
    BY <1>1, <2>1, FS_RemoveElement
  <2>3. Cardinality(Holders(p) \ {c}) \in Nat
    BY <1>1, FS_RemoveElement, FS_CardinalityType
  <2> QED
    BY SMT, <1>1, <1>2, <2>1, <2>2, <2>3 DEF BrokerTypeOK, Released
<1>3. CASE p # wantSpec[c]
  <2>1. Holders(p)' = Holders(p)
    BY <1>3 DEF Holders, BrokerTypeOK
  <2> QED
    BY <1>1, <1>3, <2>1 DEF BrokerTypeOK
<1> QED
  BY <1>2, <1>3

LEMMA PendingNext ==
  ASSUME BrokerInv, BrokerNext
  PROVE  PendingExact'
<1>1. BrokerTypeOK /\ PendingExact /\ \A c \in Callers : RequestOK(c)
  BY DEF BrokerInv, RequestsOK
<1>2. ASSUME NEW c \in Callers, CallStep(c), UNCHANGED capVars
      PROVE  PendingExact'
  BY <1>1, <1>2, StepShape, SlotsKept DEF capVars
<1>3. ASSUME NEW c \in Callers, NEW n \in Names, Arrives(c, n)
      PROVE  PendingExact'
  <2>1. pc[c] = "idle"
    BY <1>1, <1>3, ArriveFrame
  <2>2. ~slot[c]
    BY <1>1, <2>1 DEF RequestOK, CreateSteps
  <2>3. /\ \A d \in Callers : d # c => wantSpec'[d] = wantSpec[d]
        /\ slot' = slot /\ pending' = pending
    BY <1>1, <1>3, ArriveFrame DEF capVars
  <2> QED
    BY <1>1, <2>2, <2>3, SlotsKept
<1>4. ASSUME NEW c \in Callers,
             CheckExisting(c) \/ Reserve(c) \/ Options(c) \/ Recheck(c) \/ CancelRequest(c)
      PROVE  PendingExact'
  BY <1>1, <1>4, SlotsKept DEF CheckExisting, Reserve, Options, Recheck, CancelRequest, callVars,
                               capVars
<1>5. ASSUME NEW c \in Callers, CountLive(c)
      PROVE  PendingExact'
  <2>1. ~slot[c] /\ wantSpec[c] \in Specs /\ wantSpec' = wantSpec
    BY <1>1, <1>5 DEF CountLive, callVars, RequestOK, CreateSteps
  <2>2. CASE slot' = slot /\ pending' = pending
    BY <1>1, <2>1, <2>2, SlotsKept
  <2>3. CASE /\ pending' = [pending EXCEPT ![wantSpec[c]] = @ + 1]
             /\ slot' = [slot EXCEPT ![c] = TRUE]
    BY <1>1, <2>1, <2>3, SlotTaken
  <2> QED
    BY <1>5, <2>2, <2>3 DEF CountLive
<1>6. ASSUME NEW c \in Callers, HandlerReturns(c)
      PROVE  PendingExact'
  <2>1. \A d \in Callers : d # c => wantSpec'[d] = wantSpec[d]
    BY <1>1, <1>6 DEF HandlerReturns, Forget, BrokerTypeOK
  <2>2. CASE slot[c]
    BY <1>1, <1>6, <2>1, <2>2, SlotReleased DEF HandlerReturns, RequestOK
  <2>3. CASE ~slot[c]
    BY <1>1, <1>6, <2>1, <2>3, SlotsKept DEF HandlerReturns, BrokerTypeOK
  <2> QED
    BY <2>2, <2>3
<1>7. ASSUME NEW i \in Ids, ReapRemoves(i) \/ Halt(i), UNCHANGED capVars
      PROVE  PendingExact'
  BY <1>1, <1>7, SlotsKept DEF ReapRemoves, Halt, callVars, capVars
<1>8. CASE CrashDaemon
  <2>1. \A p \in Specs : Holders(p)' = {}
    BY <1>8 DEF CrashDaemon, Holders
  <2> QED
    BY <1>8, <2>1, FS_EmptySet DEF CrashDaemon, PendingExact
<1> QED
  BY <1>2, <1>3, <1>4, <1>5, <1>6, <1>7, <1>8 DEF BrokerNext, Arrives, RequestStep, Environment

-----------------------------------------------------------------------------
LEMMA BrokerInvInit == BrokerInit => BrokerInv
<1> SUFFICES ASSUME BrokerInit
             PROVE  BrokerInv
  OBVIOUS
<1>1. BrokerTypeOK /\ RequestsOK /\ OneSandboxPerName
  BY DEF BrokerInit, Init, DockerInit, BrokerTypeOK, DockerTypeOK, Status, Outcomes, RequestsOK,
         RequestOK, CallOK, CallSteps, CreateSteps, OneSandboxPerName, Present
<1>2. \A p \in Specs : Holders(p) = {} /\ pending[p] = 0
  BY DEF BrokerInit, Holders
<1> QED
  BY <1>1, <1>2, FS_EmptySet DEF BrokerInv, PendingExact

LEMMA BrokerInvNext == BrokerInv /\ [BrokerNext]_vars => BrokerInv'
<1>1. ASSUME BrokerInv, BrokerNext
      PROVE  BrokerInv'
  <2>1. OneSandboxPerName'
    BY <1>1, BrokerEffect, EffectUnique DEF BrokerInv, BrokerTypeOK
  <2> QED
    BY <1>1, <2>1, BrokerTypeNext, RequestsNext, PendingNext DEF BrokerInv
<1>2. ASSUME BrokerInv, UNCHANGED vars
      PROVE  BrokerInv'
  <2>1. PendingExact'
    BY <1>2, SlotsKept DEF BrokerInv, vars
  <2>2. BrokerTypeOK'
    BY <1>2 DEF BrokerInv, BrokerTypeOK, DockerTypeOK, vars
  <2>3. RequestsOK'
    <3> SUFFICES ASSUME NEW d \in Callers
                 PROVE  RequestOK(d)'
      BY DEF RequestsOK
    <3>1. RequestOK(d) /\ BrokerTypeOK
      BY <1>2 DEF BrokerInv, RequestsOK
    <3>2. DockerEffect
      BY <1>2 DEF vars, dockerVars, DockerEffect
    <3> QED
      BY <1>2, <3>1, <3>2, RequestKept DEF vars
  <2>4. OneSandboxPerName'
    BY <1>2 DEF BrokerInv, OneSandboxPerName, Present, vars
  <2> QED
    BY <2>1, <2>2, <2>3, <2>4 DEF BrokerInv
<1> QED
  BY <1>1, <1>2

-----------------------------------------------------------------------------
(***************************************************************************)
(* How far a profile can go past its cap.  Counted are not containers but   *)
(* names: those the profile holds, and those a request may still create     *)
(* under it.  A request that found its sandbox adds no name, and neither    *)
(* does the creation itself.  Only a reservation adds one, and it is given  *)
(* while the profile holds fewer than its cap.                              *)
(***************************************************************************)
MayCreate == {"options", "open", "halted", "replace", "prepare", "create"}

HeldNames(p)   == {nameOf[i] : i \in Held(p)}
Wanting(p)     == {c \in Callers : wantSpec[c] = p /\ pc[c] \in MayCreate}
WantedNames(p) == {wantName[c] : c \in Wanting(p)}
Taken(p)       == HeldNames(p) \cup WantedNames(p)

TakenBounded ==
  \A p \in Specs :
    MaxSandboxes[p] > 0
      => Cardinality(Taken(p)) <= MaxSandboxes[p] + Cardinality(Callers) - 1

LEMMA ImageBound ==
  ASSUME NEW S, IsFiniteSet(S), NEW f
  PROVE  /\ IsFiniteSet({f[x] : x \in S})
         /\ Cardinality({f[x] : x \in S}) <= Cardinality(S)
<1> DEFINE T == {f[x] : x \in S}
           g == [x \in S |-> f[x]]
<1>1. g \in Surjection(S, T)
  BY DEF Surjection
<1> HIDE DEF T, g
<1>2. IsFiniteSet(T) /\ Cardinality(T) <= Cardinality(S)
  BY <1>1, FS_Surjection
<1> QED
  BY <1>2 DEF T

LEMMA FiniteHeld == \A p : IsFiniteSet(Held(p))
BY CapAssumption, FS_Subset DEF Held, Listed

\* However many requests are under way, they want no more names than they are.
LEMMA NamesBound ==
  ASSUME NEW S \in SUBSET Ids, NEW A, IsFiniteSet(A), Cardinality(A) <= Cardinality(S),
         NEW W \in SUBSET Callers, NEW B, IsFiniteSet(B), Cardinality(B) <= Cardinality(W)
  PROVE  IsFiniteSet(A \cup B) /\ Cardinality(A \cup B) <= Cardinality(S) + Cardinality(Callers)
<1>1. /\ IsFiniteSet(S) /\ IsFiniteSet(W) /\ IsFiniteSet(Callers)
      /\ Cardinality(W) <= Cardinality(Callers)
  BY CapAssumption, FS_Subset
<1>2. /\ IsFiniteSet(A \cup B) /\ IsFiniteSet(A \cap B)
      /\ Cardinality(A \cup B) = Cardinality(A) + Cardinality(B) - Cardinality(A \cap B)
  BY FS_Union, FS_Subset
<1>3. /\ Cardinality(A) \in Nat /\ Cardinality(B) \in Nat /\ Cardinality(A \cap B) \in Nat
      /\ Cardinality(S) \in Nat /\ Cardinality(W) \in Nat /\ Cardinality(Callers) \in Nat
  BY <1>1, <1>2, FS_CardinalityType
<1> QED
  BY SMT, <1>1, <1>2, <1>3

LEMMA TakenSize ==
  ASSUME NEW p
  PROVE  /\ IsFiniteSet(Taken(p))
         /\ Cardinality(Taken(p)) <= Cardinality(Held(p)) + Cardinality(Callers)
<1>1. Held(p) \in SUBSET Ids /\ Wanting(p) \in SUBSET Callers
  BY DEF Held, Listed, Wanting
<1>2. IsFiniteSet(HeldNames(p)) /\ Cardinality(HeldNames(p)) <= Cardinality(Held(p))
  BY FiniteHeld, ImageBound DEF HeldNames
<1>3. IsFiniteSet(WantedNames(p)) /\ Cardinality(WantedNames(p)) <= Cardinality(Wanting(p))
  <2>1. IsFiniteSet(Wanting(p))
    BY <1>1, CapAssumption, FS_Subset
  <2> QED
    BY <2>1, ImageBound DEF WantedNames
<1> QED
  BY <1>1, <1>2, <1>3, NamesBound DEF Taken

\* Names are unique, so a profile holds as many containers as names.
LEMMA HeldByName ==
  ASSUME OneSandboxPerName, NEW p
  PROVE  Cardinality(Held(p)) <= Cardinality(Taken(p))
<1> DEFINE g == [i \in Held(p) |-> nameOf[i]]
<1>1. g \in [Held(p) -> Taken(p)]
  BY DEF Taken, HeldNames
<1>2. \A i, j \in Held(p) : g[i] = g[j] => i = j
  BY DEF OneSandboxPerName, Held, Listed
<1>3. g \in Injection(Held(p), Taken(p))
  BY <1>1, <1>2 DEF Injection, IsInjective
<1> HIDE DEF g
<1> QED
  BY <1>3, TakenSize, FS_Injection

\* A step that adds no name to a profile.
AddsNone(p) ==
  /\ \A i \in Ids : Present(i)' /\ specOf'[i] = p => nameOf'[i] \in Taken(p)
  /\ \A c \in Callers : wantSpec'[c] = p /\ pc'[c] \in MayCreate => wantName'[c] \in Taken(p)

LEMMA AddsNoneKeeps ==
  ASSUME TakenBounded, NEW p \in Specs, MaxSandboxes[p] > 0, AddsNone(p)
  PROVE  Cardinality(Taken(p)') <= MaxSandboxes[p] + Cardinality(Callers) - 1
<1>1. Taken(p)' \subseteq Taken(p)
  BY DEF AddsNone, Taken, HeldNames, WantedNames, Wanting, Held, Listed
<1>2. /\ IsFiniteSet(Taken(p)) /\ IsFiniteSet(Taken(p)')
      /\ Cardinality(Taken(p)') <= Cardinality(Taken(p))
  BY <1>1, TakenSize, FS_Subset
<1>3. /\ Cardinality(Taken(p)) \in Nat /\ Cardinality(Taken(p)') \in Nat
      /\ Cardinality(Callers) \in Nat /\ MaxSandboxes[p] \in Nat
  BY <1>2, CapAssumption, FS_CardinalityType
<1> QED
  BY SMT, <1>2, <1>3 DEF TakenBounded

\* What is present after an effect on Docker was present before it, or has just
\* been created.
LEMMA EffectPresent ==
  ASSUME DockerTypeOK, NEW i \in Ids, Present(i)'
  PROVE  /\ UNCHANGED dockerVars
              => Present(i) /\ nameOf'[i] = nameOf[i] /\ specOf'[i] = specOf[i]
         /\ (\E S : ContainerRemove(S) \/ ContainerRemoveFailed(S))
              => Present(i) /\ nameOf'[i] = nameOf[i] /\ specOf'[i] = specOf[i]
         /\ (\E j \in Ids : ContainerStart(j) \/ ContainerStop(j) \/ GuestHalts(j))
              => Present(i) /\ nameOf'[i] = nameOf[i] /\ specOf'[i] = specOf[i]
         /\ \A n, q :
              (\E j \in Ids : ContainerCreate(j, n, q))
                => \/ Present(i) /\ nameOf'[i] = nameOf[i] /\ specOf'[i] = specOf[i]
                   \/ nameOf'[i] = n /\ specOf'[i] = q
<1> USE DEF DockerTypeOK, Present
<1>1. ASSUME UNCHANGED dockerVars
      PROVE  Present(i) /\ nameOf'[i] = nameOf[i] /\ specOf'[i] = specOf[i]
  BY <1>1 DEF dockerVars
<1>2. ASSUME NEW S, ContainerRemove(S) \/ ContainerRemoveFailed(S)
      PROVE  Present(i) /\ nameOf'[i] = nameOf[i] /\ specOf'[i] = specOf[i]
  BY <1>2 DEF ContainerRemove, ContainerRemoveFailed
<1>3. ASSUME NEW j \in Ids, ContainerStart(j) \/ ContainerStop(j) \/ GuestHalts(j)
      PROVE  Present(i) /\ nameOf'[i] = nameOf[i] /\ specOf'[i] = specOf[i]
  BY <1>3 DEF ContainerStart, ContainerStop, GuestHalts
<1>4. ASSUME NEW j \in Ids, NEW n, NEW q, ContainerCreate(j, n, q)
      PROVE  \/ Present(i) /\ nameOf'[i] = nameOf[i] /\ specOf'[i] = specOf[i]
             \/ nameOf'[i] = n /\ specOf'[i] = q
  BY <1>4 DEF ContainerCreate
<1> QED
  BY <1>1, <1>2, <1>3, <1>4

\* A backend call brings in a container only for a request about to create one.
LEMMA StepPresent ==
  ASSUME BrokerTypeOK, NEW c \in Callers, RequestOK(c), CallStep(c)
  PROVE  /\ \A i \in Ids : Present(i)' =>
              \/ Present(i) /\ nameOf'[i] = nameOf[i] /\ specOf'[i] = specOf[i]
              \/ pc[c] = "create" /\ nameOf'[i] = wantName[c] /\ specOf'[i] = wantSpec[c]
         /\ pc'[c] \in MayCreate => pc[c] \in MayCreate
<1>1. PICK P : pc \in [Callers -> P]
  BY RequestFunctions
<1>2. pc'[c] \in MayCreate => pc[c] \in MayCreate
  BY <1>1, StepEdges DEF MayCreate
<1>3. DockerTypeOK /\ CallOK(c)
  BY DEF BrokerTypeOK, RequestOK
<1>4. ASSUME NEW i \in Ids, Present(i)'
      PROVE  \/ Present(i) /\ nameOf'[i] = nameOf[i] /\ specOf'[i] = specOf[i]
             \/ pc[c] = "create" /\ nameOf'[i] = wantName[c] /\ specOf'[i] = wantSpec[c]
  BY <1>3, <1>4, StepDocker, EffectPresent
<1> QED
  BY <1>2, <1>4

LEMMA TakenNext ==
  ASSUME BrokerInv, TakenBounded, BrokerNext
  PROVE  TakenBounded'
<1> SUFFICES ASSUME NEW p \in Specs, MaxSandboxes[p] > 0
             PROVE  Cardinality(Taken(p)') <= MaxSandboxes[p] + Cardinality(Callers) - 1
  BY DEF TakenBounded
<1>1. BrokerTypeOK /\ DockerTypeOK /\ \A c \in Callers : RequestOK(c)
  BY DEF BrokerInv, RequestsOK, BrokerTypeOK
<1>0. PICK P : pc \in [Callers -> P]
  BY <1>1, RequestFunctions
<1>2. /\ \A i \in Ids : Present(i) /\ specOf[i] = p => nameOf[i] \in Taken(p)
      /\ \A c \in Callers : wantSpec[c] = p /\ pc[c] \in MayCreate => wantName[c] \in Taken(p)
  BY DEF Taken, HeldNames, WantedNames, Wanting, Held, Listed
<1>3. ASSUME NEW c \in Callers, CallStep(c), UNCHANGED capVars
      PROVE  AddsNone(p)
  <2>1. /\ \A d \in Callers : d # c => pc'[d] = pc[d]
        /\ wantName' = wantName /\ wantSpec' = wantSpec
    BY <1>1, <1>3, StepFrame
  <2>2. "create" \in MayCreate
    BY DEF MayCreate
  <2>3. /\ \A i \in Ids : Present(i)' =>
              \/ Present(i) /\ nameOf'[i] = nameOf[i] /\ specOf'[i] = specOf[i]
              \/ pc[c] = "create" /\ nameOf'[i] = wantName[c] /\ specOf'[i] = wantSpec[c]
        /\ pc'[c] \in MayCreate => pc[c] \in MayCreate
    BY <1>1, <1>3, StepPresent
  <2>4. \A i \in Ids : Present(i)' /\ specOf'[i] = p => nameOf'[i] \in Taken(p)
    BY <1>2, <2>2, <2>3
  <2>5. \A d \in Callers : wantSpec'[d] = p /\ pc'[d] \in MayCreate => wantName'[d] \in Taken(p)
    BY <1>2, <2>1, <2>3
  <2> QED
    BY <2>4, <2>5 DEF AddsNone
<1>4. ASSUME UNCHANGED dockerVars
      PROVE  \A i \in Ids : Present(i)' /\ specOf'[i] = p => nameOf'[i] \in Taken(p)
  BY <1>2, <1>4 DEF Present, dockerVars
<1>5. ASSUME NEW c \in Callers, NEW n \in Names, Arrives(c, n)
      PROVE  AddsNone(p)
  <2>1. /\ pc'[c] \in {"check", "lookup", "destroy", "stopOpen"}
        /\ \A d \in Callers : d # c => /\ pc'[d] = pc[d]
                                       /\ wantName'[d] = wantName[d] /\ wantSpec'[d] = wantSpec[d]
        /\ UNCHANGED dockerVars
    BY <1>1, <1>5, ArriveFrame
  <2>2. pc'[c] \notin MayCreate
    BY <2>1 DEF MayCreate
  <2>3. \A d \in Callers : wantSpec'[d] = p /\ pc'[d] \in MayCreate => wantName'[d] \in Taken(p)
    BY <1>2, <2>1, <2>2
  <2> QED
    BY <1>4, <2>1, <2>3 DEF AddsNone
<1>6. ASSUME NEW c \in Callers, Asks(c), ~CountLive(c)
      PROVE  AddsNone(p)
  <2>1. /\ UNCHANGED <<dockerVars, wantName, wantSpec>>
        /\ \A d \in Callers : d # c => pc'[d] = pc[d]
    BY <1>1, <1>6, AskFrame DEF callVars
  <2>2. /\ \/ CheckExisting(c) /\ pc'[c] \in {"reserve", "options", "respond"}
           \/ Reserve(c) /\ pc'[c] \in {"count", "options"}
           \/ pc[c] = "options" /\ pc'[c] \in {"open", "respond"}
           \/ pc'[c] = "respond"
    BY <1>1, <1>6, AskFrame
  <2>3. \A i \in Ids : Present(i)' /\ specOf'[i] = p => nameOf'[i] \in Taken(p)
    BY <1>4, <2>1
  <2>4. wantSpec[c] = p /\ pc'[c] \in MayCreate => wantName[c] \in Taken(p)
    <3>1. CASE CheckExisting(c) /\ pc'[c] = "options"
      <4>1. \E i \in Named(wantName[c]) : specOf[i] = wantSpec[c]
        BY <1>0, <3>1 DEF CheckExisting, Respond, Goto
      <4> QED
        BY <1>2, <4>1 DEF Named
    <3>2. CASE Reserve(c) /\ pc'[c] = "options"
      <4>1. MaxSandboxes[wantSpec[c]] = 0
        BY <1>0, <3>2 DEF Reserve, Goto
      <4> QED
        BY SMT, <4>1
    <3>3. CASE pc[c] = "options"
      BY <1>2, <3>3 DEF MayCreate
    <3>4. CASE pc'[c] \in {"reserve", "count", "respond"}
      BY <3>4 DEF MayCreate
    <3> QED
      BY <2>2, <3>1, <3>2, <3>3, <3>4
  <2>5. \A d \in Callers : wantSpec'[d] = p /\ pc'[d] \in MayCreate => wantName'[d] \in Taken(p)
    BY <1>2, <2>1, <2>4
  <2> QED
    BY <2>3, <2>5 DEF AddsNone
<1>7. ASSUME NEW c \in Callers, CancelRequest(c)
      PROVE  AddsNone(p)
  BY <1>2, <1>4, <1>7 DEF CancelRequest, AddsNone, callVars
<1>8. ASSUME NEW c \in Callers, HandlerReturns(c)
      PROVE  AddsNone(p)
  <2>1. /\ UNCHANGED dockerVars /\ pc'[c] = "idle"
        /\ \A d \in Callers : d # c => /\ pc'[d] = pc[d]
                                       /\ wantName'[d] = wantName[d] /\ wantSpec'[d] = wantSpec[d]
    BY <1>1, <1>8, ReturnFrame
  <2>2. pc'[c] \notin MayCreate
    BY <2>1 DEF MayCreate
  <2>3. \A d \in Callers : wantSpec'[d] = p /\ pc'[d] \in MayCreate => wantName'[d] \in Taken(p)
    BY <1>2, <2>1, <2>2
  <2> QED
    BY <1>4, <2>1, <2>3 DEF AddsNone
<1>9. ASSUME NEW i \in Ids, ReapRemoves(i) \/ Halt(i)
      PROVE  AddsNone(p)
  <2>1. ContainerRemove({i}) \/ ContainerRemoveFailed({i}) \/ GuestHalts(i)
    BY <1>9 DEF ReapRemoves, Halt
  <2>2. \A k \in Ids : Present(k)' => Present(k) /\ nameOf'[k] = nameOf[k] /\ specOf'[k] = specOf[k]
    BY <1>1, <2>1, EffectPresent
  <2>3. pc' = pc /\ wantName' = wantName /\ wantSpec' = wantSpec
    BY <1>9 DEF ReapRemoves, Halt, callVars
  <2> QED
    BY <1>2, <2>2, <2>3 DEF AddsNone
<1>10. ASSUME CrashDaemon
       PROVE  AddsNone(p)
  <2>1. \A c \in Callers : pc'[c] \notin MayCreate
    BY <1>10 DEF CrashDaemon, MayCreate
  <2>2. \A i \in Ids : Present(i)' /\ specOf'[i] = p => nameOf'[i] \in Taken(p)
    BY <1>4, <1>10 DEF CrashDaemon
  <2> QED
    BY <2>1, <2>2 DEF AddsNone
<1>11. ASSUME NEW c \in Callers, CountLive(c), ~AddsNone(p)
       PROVE  Cardinality(Taken(p)') <= MaxSandboxes[p] + Cardinality(Callers) - 1
  <2>1. /\ UNCHANGED <<dockerVars, wantName, wantSpec>>
        /\ \A d \in Callers : d # c => pc'[d] = pc[d]
    BY <1>1, <1>11, AskFrame DEF Asks, callVars
  <2>2. wantSpec[c] = p /\ pc'[c] \in MayCreate
    BY <1>2, <1>11, <2>1 DEF AddsNone, Present, dockerVars
  <2>3. ~(Cardinality(Live(p)) + pending[p] >= MaxSandboxes[p])
    <3>1. pc'[c] # "respond"
      BY <2>2 DEF MayCreate
    <3> QED
      BY <1>0, <1>11, <2>2, <3>1 DEF CountLive, Respond
  <2>4. Live(p) = Held(p) /\ Held(p)' = Held(p)
    BY <2>1 DEF Live, Held, Listed, Present, dockerVars
  <2>5. /\ IsFiniteSet(Taken(p)')
        /\ Cardinality(Taken(p)') <= Cardinality(Held(p)) + Cardinality(Callers)
    <3>1. Held(p)' \in SUBSET Ids /\ Wanting(p)' \in SUBSET Callers
      BY DEF Held, Listed, Wanting
    <3>2. Cardinality(Held(p)') = Cardinality(Held(p))
      BY <2>4
    <3>3. IsFiniteSet(Held(p)') /\ IsFiniteSet(Wanting(p)')
      BY <3>1, CapAssumption, FS_Subset
    <3>4. IsFiniteSet(HeldNames(p)') /\ Cardinality(HeldNames(p)') <= Cardinality(Held(p)')
      BY <3>3, ImageBound DEF HeldNames
    <3>5. IsFiniteSet(WantedNames(p)') /\ Cardinality(WantedNames(p)') <= Cardinality(Wanting(p)')
      BY <3>3, ImageBound DEF WantedNames
    <3> QED
      BY <3>1, <3>2, <3>4, <3>5, NamesBound DEF Taken
  <2>6. /\ Cardinality(Held(p)) \in Nat /\ Cardinality(Callers) \in Nat
        /\ Cardinality(Taken(p)') \in Nat /\ MaxSandboxes[p] \in Nat /\ pending[p] \in Nat
    BY <1>1, <2>5, CapAssumption, FiniteHeld, FS_CardinalityType DEF BrokerTypeOK
  <2>7. Cardinality(Held(p)) <= MaxSandboxes[p] - 1
    BY SMT, <2>3, <2>4, <2>6
  <2> QED
    BY SMT, <2>5, <2>6, <2>7
<1> QED
  BY <1>3, <1>5, <1>6, <1>7, <1>8, <1>9, <1>10, <1>11, AddsNoneKeeps
     DEF BrokerNext, Arrives, Asks, RequestStep, Environment

LEMMA TakenInit == BrokerInit => TakenBounded
<1> SUFFICES ASSUME BrokerInit, NEW p \in Specs, MaxSandboxes[p] > 0
             PROVE  Cardinality(Taken(p)) <= MaxSandboxes[p] + Cardinality(Callers) - 1
  BY DEF TakenBounded
<1>1. Held(p) = {}
  BY DEF BrokerInit, Init, DockerInit, Held, Listed, Present
<1>2. Cardinality(Held(p)) = 0
  BY <1>1, FS_EmptySet
<1>3. /\ Cardinality(Callers) \in Nat /\ Cardinality(Taken(p)) \in Nat /\ MaxSandboxes[p] \in Nat
  BY CapAssumption, TakenSize, FS_CardinalityType
<1> QED
  BY SMT, <1>2, <1>3, TakenSize

-----------------------------------------------------------------------------
(* Who holds the lock, and which way a request moves. *)

LEMMA Orders ==
  /\ Order["check"] = 1 /\ Order["reserve"] = 2 /\ Order["count"] = 3 /\ Order["options"] = 4
  /\ Order["open"] = 5 /\ Order["halted"] = 6 /\ Order["replace"] = 7 /\ Order["prepare"] = 8
  /\ Order["create"] = 9 /\ Order["start"] = 10 /\ Order["rollback"] = 11 /\ Order["reopen"] = 11
  /\ Order["lookup"] = 11 /\ Order["destroy"] = 11 /\ Order["stopOpen"] = 10 /\ Order["stop"] = 11
  /\ Order["done"] = 12 /\ Order["respond"] = 13 /\ Order["idle"] = 14
<1>1. Order["check"] = 1 /\ Order["reserve"] = 2 /\ Order["count"] = 3 /\ Order["options"] = 4
  BY DEF Order
<1>2. Order["open"] = 5 /\ Order["halted"] = 6 /\ Order["replace"] = 7 /\ Order["prepare"] = 8
  BY DEF Order
<1>3. Order["create"] = 9 /\ Order["start"] = 10 /\ Order["rollback"] = 11 /\ Order["reopen"] = 11
  BY DEF Order
<1>4. Order["lookup"] = 11 /\ Order["destroy"] = 11 /\ Order["stopOpen"] = 10 /\ Order["stop"] = 11
  BY DEF Order
<1>5. Order["done"] = 12 /\ Order["respond"] = 13 /\ Order["idle"] = 14
  BY DEF Order
<1> QED
  BY <1>1, <1>2, <1>3, <1>4, <1>5

LEMMA StepAdvances ==
  ASSUME NEW P, pc \in [Callers -> P], NEW c \in Callers, CallStep(c)
  PROVE  Order[pc'[c]] > Order[pc[c]]
<1>1. CASE pc[c] = "open" /\ pc'[c] \in {"halted", "prepare", "done"}
  BY SMT, <1>1, Orders
<1>2. CASE pc[c] = "halted" /\ pc'[c] \in {"replace", "done"}
  BY SMT, <1>2, Orders
<1>3. CASE pc[c] = "replace" /\ pc'[c] \in {"prepare", "done"}
  BY SMT, <1>3, Orders
<1>4. CASE pc[c] = "prepare" /\ pc'[c] \in {"create", "done"}
  BY SMT, <1>4, Orders
<1>5. CASE pc[c] = "create" /\ pc'[c] \in {"start", "reopen", "done"}
  BY SMT, <1>5, Orders
<1>6. CASE pc[c] = "start" /\ pc'[c] \in {"reopen", "rollback"}
  BY SMT, <1>6, Orders
<1>7. CASE pc[c] = "rollback" /\ pc'[c] \in {"done"}
  BY SMT, <1>7, Orders
<1>8. CASE pc[c] = "reopen" /\ pc'[c] \in {"done"}
  BY SMT, <1>8, Orders
<1>9. CASE pc[c] = "lookup" /\ pc'[c] \in {"done"}
  BY SMT, <1>9, Orders
<1>10. CASE pc[c] = "destroy" /\ pc'[c] \in {"done"}
  BY SMT, <1>10, Orders
<1>11. CASE pc[c] = "stopOpen" /\ pc'[c] \in {"stop", "done"}
  BY SMT, <1>11, Orders
<1>12. CASE pc[c] = "stop" /\ pc'[c] \in {"done"}
  BY SMT, <1>12, Orders
<1> QED
  BY <1>1, <1>2, <1>3, <1>4, <1>5, <1>6, <1>7, <1>8, <1>9, <1>10, <1>11, <1>12, StepEdges

LEMMA AdvancesNext ==
  ASSUME BrokerTypeOK, BrokerNext, NEW d \in Callers, pc[d] # "idle", pc'[d] # pc[d]
  PROVE  Order[pc'[d]] > Order[pc[d]]
<1>0. PICK P : pc \in [Callers -> P]
  BY RequestFunctions
<1>1. ASSUME NEW c \in Callers, CallStep(c)
      PROVE  Order[pc'[d]] > Order[pc[d]]
  <2>1. c = d
    BY <1>1, StepFrame
  <2> QED
    BY <1>0, <1>1, <2>1, StepAdvances
<1>2. ASSUME NEW c \in Callers, NEW n \in Names, Arrives(c, n)
      PROVE  FALSE
  BY <1>2, ArriveFrame
<1>3. ASSUME NEW c \in Callers, Asks(c)
      PROVE  Order[pc'[d]] > Order[pc[d]]
  <2>1. c = d
    BY <1>3, AskFrame
  <2>2. \/ pc[d] = "check" /\ pc'[d] \in {"reserve", "options", "respond"}
        \/ pc[d] = "reserve" /\ pc'[d] \in {"count", "options"}
        \/ pc[d] = "count" /\ pc'[d] \in {"options", "respond"}
        \/ pc[d] = "options" /\ pc'[d] \in {"open", "respond"}
        \/ pc[d] = "done" /\ pc'[d] = "respond"
    BY <1>3, <2>1, AskFrame
  <2>3. CASE pc[d] = "check" /\ pc'[d] \in {"reserve", "options", "respond"}
    BY SMT, <2>3, Orders
  <2>4. CASE pc[d] = "reserve" /\ pc'[d] \in {"count", "options"}
    BY SMT, <2>4, Orders
  <2>5. CASE pc[d] = "count" /\ pc'[d] \in {"options", "respond"}
    BY SMT, <2>5, Orders
  <2>6. CASE pc[d] = "options" /\ pc'[d] \in {"open", "respond"}
    BY SMT, <2>6, Orders
  <2>7. CASE pc[d] = "done" /\ pc'[d] = "respond"
    BY SMT, <2>7, Orders
  <2> QED
    BY <2>2, <2>3, <2>4, <2>5, <2>6, <2>7
<1>4. ASSUME NEW c \in Callers, HandlerReturns(c)
      PROVE  Order[pc'[d]] > Order[pc[d]]
  <2>1. pc[d] \in {"respond", "done"} /\ pc'[d] = "idle"
    BY <1>4, ReturnFrame
  <2> QED
    BY SMT, <2>1, Orders
<1>5. ASSUME NEW c \in Callers, CancelRequest(c)
      PROVE  FALSE
  BY <1>5 DEF CancelRequest
<1>6. ASSUME NEW i \in Ids, ReapRemoves(i) \/ Halt(i)
      PROVE  FALSE
  BY <1>6 DEF ReapRemoves, Halt
<1>7. CASE CrashDaemon
  <2>1. pc'[d] = "idle"
    BY <1>7 DEF CrashDaemon
  <2>2. pc[d] \in CallSteps \cup BrokerSteps \cup {"done"}
    BY DEF BrokerTypeOK
  <2>3. Order[pc[d]] \in 1 .. 13
    BY SMT, <2>2, Orders DEF CallSteps, CreateSteps, BrokerSteps
  <2>4. Order["idle"] = 14
    BY Orders
  <2> QED
    BY SMT, <2>1, <2>3, <2>4
<1> QED
  BY <1>1, <1>2, <1>3, <1>4, <1>5, <1>6, <1>7
     DEF BrokerNext, Arrives, Asks, RequestStep, Environment

LEMMA LockNext ==
  ASSUME BrokerTypeOK, LockOwned, BrokerNext
  PROVE  LockOwned'
\* A step after which the same requests are at "count".
<1>0. ASSUME mu' = mu, \A d \in Callers : pc'[d] = "count" <=> pc[d] = "count"
      PROVE  LockOwned'
  BY <1>0 DEF LockOwned
<1>1. ASSUME NEW c \in Callers, CallStep(c), UNCHANGED capVars
      PROVE  LockOwned'
  <2>1. PICK P : pc \in [Callers -> P]
    BY RequestFunctions
  <2>2. pc[c] # "count" /\ pc'[c] # "count"
    BY <1>1, <2>1, StepEdges
  <2>3. \A d \in Callers : d # c => pc'[d] = pc[d]
    BY <1>1, StepFrame
  <2> QED
    BY <1>0, <1>1, <2>2, <2>3 DEF capVars
<1>2. ASSUME NEW c \in Callers, NEW n \in Names, Arrives(c, n)
      PROVE  LockOwned'
  <2>1. /\ pc[c] # "count" /\ pc'[c] # "count"
        /\ \A d \in Callers : d # c => pc'[d] = pc[d]
        /\ mu' = mu
    BY <1>2, ArriveFrame DEF capVars
  <2> QED
    BY <1>0, <2>1
<1>3. ASSUME NEW c \in Callers, CheckExisting(c) \/ Options(c) \/ Recheck(c)
      PROVE  LockOwned'
  <2>1. mu' = mu
    BY <1>3 DEF CheckExisting, Options, Recheck, capVars
  <2>2. pc[c] # "count"
    BY <1>3 DEF CheckExisting, Options, Recheck
  <2>3. pc'[c] # "count" /\ \A d \in Callers : d # c => pc'[d] = pc[d]
    BY <1>3, <2>2, AskFrame DEF Asks, CheckExisting, Options, Recheck
  <2> QED
    BY <1>0, <2>1, <2>2, <2>3
<1>4. ASSUME NEW c \in Callers, Reserve(c)
      PROVE  LockOwned'
  <2>1. PICK P : pc \in [Callers -> P]
    BY RequestFunctions
  <2>2. CASE mu' = mu /\ pc' = [pc EXCEPT ![c] = "options"]
    BY <1>0, <1>4, <2>1, <2>2 DEF Reserve
  <2>3. CASE mu = Nil /\ mu' = c /\ pc' = [pc EXCEPT ![c] = "count"]
    BY <2>1, <2>3, CapAssumption DEF LockOwned
  <2> QED
    BY <1>4, <2>2, <2>3 DEF Reserve, Goto
<1>5. ASSUME NEW c \in Callers, CountLive(c)
      PROVE  LockOwned'
  <2>1. pc[c] = "count" /\ mu' = Nil
    BY <1>5 DEF CountLive
  <2>2. /\ pc'[c] \in {"options", "respond"}
        /\ \A d \in Callers : d # c => pc'[d] = pc[d]
    BY <1>5, <2>1, AskFrame DEF Asks
  <2>3. \A d \in Callers : d # c => pc[d] # "count"
    BY <2>1 DEF LockOwned
  <2> QED
    BY <2>1, <2>2, <2>3, CapAssumption DEF LockOwned
<1>6. ASSUME NEW c \in Callers, HandlerReturns(c)
      PROVE  LockOwned'
  <2>1. /\ pc[c] # "count" /\ pc'[c] # "count" /\ mu' = mu
        /\ \A d \in Callers : d # c => pc'[d] = pc[d]
    BY <1>6, ReturnFrame
  <2> QED
    BY <1>0, <2>1
<1>7. ASSUME NEW c \in Callers, CancelRequest(c)
      PROVE  LockOwned'
  BY <1>0, <1>7 DEF CancelRequest, capVars
<1>8. ASSUME NEW i \in Ids, ReapRemoves(i) \/ Halt(i), UNCHANGED capVars
      PROVE  LockOwned'
  BY <1>0, <1>8 DEF ReapRemoves, Halt, capVars
<1>9. CASE CrashDaemon
  BY <1>9, CapAssumption DEF CrashDaemon, LockOwned
<1> QED
  BY <1>1, <1>2, <1>3, <1>4, <1>5, <1>6, <1>7, <1>8, <1>9
     DEF BrokerNext, Arrives, RequestStep, Environment

-----------------------------------------------------------------------------
(* What a 201 names was live at some instant of the request. *)

AnswerSeen(c) == pc[c] = "respond" /\ out[c] = "created" => sb[c] \in seen[c]

SeenInv == \A c \in Callers : SeenOK(c) /\ AnswerSeen(c)

LEMMA AnswerSeenKept ==
  ASSUME NEW d \in Callers, SeenGrows, AnswerSeen(d),
         pc'[d] = pc[d], sb'[d] = sb[d], out'[d] = out[d]
  PROVE  AnswerSeen(d)'
BY DEF AnswerSeen, SeenGrows

LEMMA SeenNext ==
  ASSUME BrokerInv, SeenInv, BrokerNext, SeenGrows
  PROVE  SeenInv'
<1> SUFFICES ASSUME NEW d \in Callers
             PROVE  SeenOK(d)' /\ AnswerSeen(d)'
  BY DEF SeenInv
<1>1. /\ BrokerTypeOK /\ DockerTypeOK /\ DockerEffect /\ RequestOK(d) /\ CallOK(d)
      /\ SeenOK(d) /\ AnswerSeen(d)
  BY BrokerEffect DEF BrokerInv, RequestsOK, RequestOK, BrokerTypeOK, SeenInv
<1>2. ASSUME /\ pc'[d] = pc[d] /\ wantName'[d] = wantName[d] /\ wantSpec'[d] = wantSpec[d]
             /\ sb'[d] = sb[d] /\ out'[d] = out[d]
      PROVE  SeenOK(d)' /\ AnswerSeen(d)'
  BY <1>1, <1>2, SeenKept, AnswerSeenKept
<1>3. ASSUME pc'[d] \in CallSteps \cup BrokerSteps, pc'[d] \notin Claiming, sb'[d] = sb[d],
             pc'[d] = "respond" /\ out'[d] = "created" => sb[d] \in seen[d]
      PROVE  SeenOK(d)' /\ AnswerSeen(d)'
  <2>1. pc'[d] \notin {"done", "idle"}
    BY <1>3 DEF CallSteps, CreateSteps, BrokerSteps
  <2>2. SeenOK(d)'
    BY <1>1, <1>3, <2>1, SeenElsewhere
  <2>3. seen[d] \subseteq seen'[d]
    BY <2>1 DEF SeenGrows
  <2> QED
    BY <1>3, <2>2, <2>3 DEF AnswerSeen
<1>4. ASSUME pc'[d] = "idle", sb'[d] = Nil
      PROVE  SeenOK(d)' /\ AnswerSeen(d)'
  BY <1>4, SeenIdle DEF AnswerSeen
<1>5. ASSUME NEW c \in Callers, CallStep(c)
      PROVE  SeenOK(d)' /\ AnswerSeen(d)'
  <2>1. CASE c # d
    <3>1. /\ pc'[d] = pc[d] /\ sb'[d] = sb[d] /\ out'[d] = out[d]
          /\ wantName' = wantName /\ wantSpec' = wantSpec
      BY <1>1, <1>5, <2>1, StepFrame
    <3> QED
      BY <1>2, <3>1
  <2>2. CASE c = d
    <3>1. SeenOK(d)'
      BY <1>1, <1>5, <2>2, SeenStep DEF BrokerTypeOK
    <3>2. pc'[d] # "respond"
      BY <1>1, <1>5, <2>2, StepReached
    <3> QED
      BY <3>1, <3>2 DEF AnswerSeen
  <2> QED
    BY <2>1, <2>2
<1>6. ASSUME NEW c \in Callers, NEW n \in Names, Arrives(c, n)
      PROVE  SeenOK(d)' /\ AnswerSeen(d)'
  <2>1. sb' = sb /\ out' = out
    BY <1>1, <1>6, ArriveFrame
  <2>2. CASE c # d
    <3>1. pc'[d] = pc[d] /\ wantName'[d] = wantName[d] /\ wantSpec'[d] = wantSpec[d]
      BY <1>1, <1>6, <2>2, ArriveFrame
    <3> QED
      BY <1>2, <2>1, <3>1
  <2>3. CASE c = d
    <3>1. pc'[d] \in {"check", "lookup", "destroy", "stopOpen"}
      BY <1>1, <1>6, <2>3, ArriveFrame
    <3>2. pc'[d] \in CallSteps \cup BrokerSteps /\ pc'[d] \notin Claiming /\ pc'[d] # "respond"
      BY <3>1 DEF CallSteps, BrokerSteps, Claiming
    <3> QED
      BY <1>3, <2>1, <3>2
  <2> QED
    BY <2>2, <2>3
<1>7. ASSUME NEW c \in Callers, Asks(c), ~Recheck(c)
      PROVE  SeenOK(d)' /\ AnswerSeen(d)'
  <2>1. wantName' = wantName /\ wantSpec' = wantSpec /\ sb' = sb
    BY <1>1, <1>7, AskFrame DEF callVars
  <2>2. CASE c # d
    <3>1. pc'[d] = pc[d] /\ out'[d] = out[d]
      BY <1>1, <1>7, <2>2, AskFrame
    <3> QED
      BY <1>2, <2>1, <3>1
  <2>3. CASE c = d
    <3>1. /\ pc'[d] \in {"reserve", "count", "options", "open", "respond"}
          /\ pc'[d] = "respond" => out'[d] # "created"
      BY <1>1, <1>7, <2>3, AskFrame
    <3>2. pc'[d] \in CallSteps \cup BrokerSteps /\ pc'[d] \notin Claiming
      BY <3>1 DEF CallSteps, CreateSteps, BrokerSteps, Claiming
    <3> QED
      BY <1>3, <2>1, <3>1, <3>2
  <2> QED
    BY <2>2, <2>3
<1> USE DEF BrokerTypeOK
<1>8. ASSUME NEW c \in Callers, Recheck(c)
      PROVE  SeenOK(d)' /\ AnswerSeen(d)'
  <2> USE DEF Recheck, Respond, callVars
  <2>1. CASE c # d
    BY <1>1, <1>2, <1>8, <2>1
  <2>2. CASE c = d
    <3>1. pc'[d] = "respond" /\ sb'[d] = sb[d]
      BY <1>1, <1>8, <2>2
    <3>2. out'[d] = "created" => out[d] = "ok"
      BY <1>1, <1>8, <2>2
    <3>3. out[d] = "ok" => sb[d] \in seen[d]
      BY <1>1, <1>8, <2>2 DEF SeenOK
    <3> QED
      BY <1>3, <3>1, <3>2, <3>3 DEF BrokerSteps, Claiming
  <2> QED
    BY <2>1, <2>2
<1>9. ASSUME NEW c \in Callers, HandlerReturns(c)
      PROVE  SeenOK(d)' /\ AnswerSeen(d)'
  BY <1>1, <1>2, <1>4, <1>9, ReturnFrame
<1>10. ASSUME NEW c \in Callers, CancelRequest(c)
       PROVE  SeenOK(d)' /\ AnswerSeen(d)'
  BY <1>2, <1>10 DEF CancelRequest, callVars
<1>11. ASSUME NEW i \in Ids, ReapRemoves(i) \/ Halt(i)
       PROVE  SeenOK(d)' /\ AnswerSeen(d)'
  BY <1>2, <1>11 DEF ReapRemoves, Halt, callVars
<1>12. ASSUME CrashDaemon
       PROVE  SeenOK(d)' /\ AnswerSeen(d)'
  BY <1>4, <1>12 DEF CrashDaemon
<1> QED
  BY <1>5, <1>6, <1>7, <1>8, <1>9, <1>10, <1>11, <1>12
     DEF BrokerNext, Arrives, Asks, RequestStep, Environment

-----------------------------------------------------------------------------
\* Every variable of Broker keeps its type; pending never goes below zero.
THEOREM BrokerTyped == BrokerSpec => []BrokerTypeOK
<1>1. BrokerInv => BrokerTypeOK
  BY DEF BrokerInv
<1> QED
  BY <1>1, BrokerInvInit, BrokerInvNext, PTL DEF BrokerSpec

\* A 201 of handleCreate names a sandbox of the requested name and profile.
THEOREM AnswersMatchPolicy == BrokerSpec => []PolicyMatch
<1>1. BrokerInv => PolicyMatch
  BY DEF BrokerInv, RequestsOK, RequestOK, Reached, PolicyMatch
<1> QED
  BY <1>1, BrokerInvInit, BrokerInvNext, PTL DEF BrokerSpec

\* capacity.pending is exactly the number of requests that owe a release.
THEOREM NoSlotLeaks == BrokerSpec => []PendingExact
<1>1. BrokerInv => PendingExact
  BY DEF BrokerInv
<1> QED
  BY <1>1, BrokerInvInit, BrokerInvNext, PTL DEF BrokerSpec

\* A profile exceeds its cap by less than the number of concurrent requests,
\* whatever handleCreate, Destroy, the reaper and restarts do in between.
THEOREM OvershootStaysBounded == BrokerSpec => []CapOvershootBounded
<1>1. BrokerInv /\ TakenBounded /\ [BrokerNext]_vars => TakenBounded'
  <2>1. ASSUME TakenBounded, UNCHANGED vars
        PROVE  TakenBounded'
    BY <2>1 DEF TakenBounded, Taken, HeldNames, WantedNames, Wanting, Held, Listed, Present, vars
  <2> QED
    BY <2>1, TakenNext
<1>2. BrokerInv /\ TakenBounded => CapOvershootBounded
  <2> SUFFICES ASSUME BrokerInv, TakenBounded, NEW p \in Specs, MaxSandboxes[p] > 0
               PROVE  Cardinality(Held(p)) <= MaxSandboxes[p] + Cardinality(Callers) - 1
    BY DEF CapOvershootBounded
  <2>1. Cardinality(Held(p)) <= Cardinality(Taken(p))
    BY HeldByName DEF BrokerInv
  <2>2. /\ Cardinality(Held(p)) \in Nat /\ Cardinality(Taken(p)) \in Nat
        /\ Cardinality(Callers) \in Nat /\ MaxSandboxes[p] \in Nat
    BY CapAssumption, FiniteHeld, TakenSize, FS_CardinalityType
  <2> QED
    BY SMT, <2>1, <2>2 DEF TakenBounded
<1> QED
  BY <1>1, <1>2, BrokerInvInit, BrokerInvNext, TakenInit, PTL DEF BrokerSpec

\* capacity.mu is never left locked: only a request inside its List call holds it.
THEOREM LockNeverLeaks == BrokerSpec => []LockOwned
<1>1. BrokerInit => LockOwned
  BY SMT, CapAssumption DEF BrokerInit, Init, LockOwned
<1>2. BrokerInv /\ LockOwned /\ [BrokerNext]_vars => LockOwned'
  <2>1. ASSUME LockOwned, UNCHANGED vars
        PROVE  LockOwned'
    BY <2>1 DEF LockOwned, vars
  <2> QED
    BY <2>1, LockNext DEF BrokerInv
<1> QED
  BY <1>1, <1>2, BrokerInvInit, BrokerInvNext, PTL DEF BrokerSpec

\* A request makes each of its calls once and in order, so its steps are bounded.
THEOREM HandlersAdvance == BrokerSpec => RequestAdvances
<1>1. BrokerInv /\ [BrokerNext]_vars
        => [\A c \in Callers :
              pc[c] # "idle" /\ pc'[c] # pc[c] => Order[pc'[c]] > Order[pc[c]]]_vars
  BY AdvancesNext DEF BrokerInv
<1> QED
  BY <1>1, BrokerInvInit, BrokerInvNext, PTL DEF BrokerSpec, RequestAdvances

\* Requests, the reaper, restarts and halts together never put two containers
\* under one name.
THEOREM BrokerUniqueName == BrokerSpec => []OneSandboxPerName
<1>1. BrokerInv => OneSandboxPerName
  BY DEF BrokerInv
<1> QED
  BY <1>1, BrokerInvInit, BrokerInvNext, PTL DEF BrokerSpec

\* Nor do they run a halted container again or rewrite the labels of one.
THEOREM BrokerNeverResurrects == BrokerSpec => NoResurrection
<1>1. ASSUME BrokerInv, [BrokerNext]_vars, NEW i \in Ids
      PROVE  Forward(i)
  <2>1. CASE BrokerNext
    BY <1>1, <2>1, BrokerEffect, EffectForward DEF BrokerInv, BrokerTypeOK
  <2>2. CASE UNCHANGED vars
    BY <1>1, <2>2 DEF vars, dockerVars, Forward, BrokerInv, BrokerTypeOK, DockerTypeOK
  <2> QED
    BY <1>1, <2>1, <2>2
<1>2. BrokerInv /\ [BrokerNext]_vars
        => [\A i \in Ids :
              /\ status[i] \in {"exited", "dead", "gone"}
                   => status'[i] \in {"exited", "dead", "gone"}
              /\ status[i] = "gone" => status'[i] = "gone"
              /\ status[i] # "unborn"
                   => nameOf'[i] = nameOf[i] /\ specOf'[i] = specOf[i]]_backendVars
  BY <1>1 DEF Forward
<1> QED
  BY <1>2, BrokerInvInit, BrokerInvNext, PTL DEF BrokerSpec, NoResurrection

\* The broker's requests, too, have only the Registry's effects, one at a time.
THEOREM BrokerRefinement == BrokerSpec => ImplementsRegistry
<1>1. BrokerInit => Labelled /\ R!Init
  BY LabelledInit, MapInit DEF BrokerInit
<1>2. ASSUME BrokerInv, [BrokerNext]_vars
      PROVE  DockerEffect
  <2>1. CASE BrokerNext
    BY <1>2, <2>1, BrokerEffect DEF BrokerInv
  <2>2. CASE UNCHANGED vars
    BY <2>2 DEF vars, dockerVars, DockerEffect
  <2> QED
    BY <1>2, <2>1, <2>2
<1>3. BrokerInv /\ Labelled /\ [BrokerNext]_vars => Labelled'
  BY <1>2, EffectLabelled DEF BrokerInv, BrokerTypeOK
<1>4. BrokerInv /\ BrokerInv' /\ Labelled /\ [BrokerNext]_vars => [R!Next]_(R!vars)
  BY <1>2, MapEffect DEF BrokerInv, BrokerTypeOK
<1> QED
  BY <1>1, <1>3, <1>4, BrokerInvInit, BrokerInvNext, PTL
     DEF BrokerSpec, ImplementsRegistry, R!Spec

\* What a 201 of handleCreate names was not halted at some instant of the request.
THEOREM AnswersLive == LiveBrokerSpec => []CreatedWasLive
<1> DEFINE LiveBrokerInit == BrokerInit /\ seen = [c \in Callers |-> {}]
           LiveBrokerNext == BrokerNext /\ SeenGrows
<1>1. LiveBrokerInit => BrokerInv /\ SeenInv
  <2> SUFFICES ASSUME LiveBrokerInit
               PROVE  BrokerInv /\ SeenInv
    OBVIOUS
  <2>1. BrokerInv
    BY BrokerInvInit
  <2>2. \A c \in Callers : pc[c] = "idle" /\ sb[c] = Nil
    BY DEF BrokerInit, Init
  <2> QED
    BY <2>1, <2>2, NilAssumption DEF SeenInv, SeenOK, AnswerSeen, Claiming
<1>2. BrokerInv /\ SeenInv /\ [LiveBrokerNext]_requestVars => BrokerInv' /\ SeenInv'
  <2>1. ASSUME BrokerInv, SeenInv, LiveBrokerNext
        PROVE  BrokerInv' /\ SeenInv'
    BY <2>1, BrokerInvNext, SeenNext
  <2>2. ASSUME BrokerInv, SeenInv, UNCHANGED requestVars
        PROVE  BrokerInv' /\ SeenInv'
    <3>1. UNCHANGED vars /\ seen' = seen
      BY <2>2 DEF requestVars
    <3>2. BrokerInv'
      BY <2>2, <3>1, BrokerInvNext
    <3> QED
      BY <2>2, <3>1, <3>2 DEF vars, SeenInv, SeenOK, AnswerSeen, Alive, Named, Present
  <2> QED
    BY <2>1, <2>2
<1>3. BrokerInv /\ SeenInv => CreatedWasLive
  BY DEF SeenInv, AnswerSeen, CreatedWasLive
<1> QED
  BY <1>1, <1>2, <1>3, PTL DEF LiveBrokerSpec
=============================================================================
