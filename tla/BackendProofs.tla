--------------------------- MODULE BackendProofs ----------------------------
(***************************************************************************)
(* Theorems about module Backend, for any number of callers, containers,    *)
(* names and policies, and under every combination of faults.               *)
(*                                                                         *)
(* The twelve steps of a call are looked at once, in StepShape and          *)
(* StepEffect: what they may do to the caller's own variables, and which    *)
(* single effect they may have on the container table.  Everything else is  *)
(* proved from those two facts.                                             *)
(***************************************************************************)
EXTENDS BackendLive, BackendRefines, TLAPS

\* First-order steps go to Zenon; a step that counts or takes a sequence apart
\* cites SMT.
USE Zenon

-----------------------------------------------------------------------------
(* What a step does to the caller's own variables. *)

LEMMA StepShape ==
  ASSUME NEW c \in Callers, CallStep(c)
  PROVE  /\ \E x \in CallSteps \cup {"done"} : pc' = [pc EXCEPT ![c] = x]
         /\ \/ out' = out
            \/ \E o \in Outcomes : out' = [out EXCEPT ![c] = o]
         /\ \/ sb' = sb
            \/ \E i \in Ids : sb' = [sb EXCEPT ![c] = i]
         /\ \/ cancelled' = cancelled
            \/ cancelled' = [cancelled EXCEPT ![c] = TRUE]
         /\ wantName' = wantName /\ wantSpec' = wantSpec
<1> USE DEF callVars, Answered, Refused, Lost, Goto, Return, Holds, CallSteps, CreateSteps,
            Outcomes
<1>1. CASE CreateOpen(c)
  BY <1>1 DEF CreateOpen, Named
<1>2. CASE CreateHalted(c)
  BY <1>2 DEF CreateHalted
<1>3. CASE CreateReplace(c)
  BY <1>3 DEF CreateReplace, RemoveByName
<1>4. CASE CreatePrepare(c)
  BY <1>4 DEF CreatePrepare
<1>5. CASE CreateContainer(c)
  BY <1>5 DEF CreateContainer
<1>6. CASE CreateStart(c)
  BY <1>6 DEF CreateStart
<1>7. CASE CreateRollback(c)
  BY <1>7 DEF CreateRollback
<1>8. CASE CreateReopen(c)
  BY <1>8 DEF CreateReopen, OpenThen, Named
<1>9. CASE Open(c)
  BY <1>9 DEF Open, OpenThen, Named
<1>10. CASE Destroy(c)
  BY <1>10 DEF Destroy, RemoveByName
<1>11. CASE StopOpen(c)
  BY <1>11 DEF StopOpen, OpenThen, Named
<1>12. CASE Stop(c)
  BY <1>12 DEF Stop
<1> QED
  BY <1>1, <1>2, <1>3, <1>4, <1>5, <1>6, <1>7, <1>8, <1>9, <1>10, <1>11, <1>12
     DEF CallStep

-----------------------------------------------------------------------------
(* The arguments and handles a call in progress relies on. *)

CallOK(c) ==
  /\ pc[c] \in CallSteps => wantName[c] \in Names
  /\ pc[c] \in CreateSteps => wantSpec[c] \in Specs
  /\ pc[c] \in {"lookup", "destroy", "stopOpen", "stop"} => wantSpec[c] = Nil
  /\ pc[c] \in {"halted", "start", "rollback", "stop"} => sb[c] \in Ids

LEMMA StepCallOK ==
  ASSUME NEW P, pc \in [Callers -> P], sb \in [Callers -> Ids \cup {Nil}],
         NEW c \in Callers, CallOK(c), CallStep(c)
  PROVE  CallOK(c)'
<1> USE DEF CallOK, callVars, Goto, Return, Holds, CallSteps, CreateSteps
<1>1. CASE CreateOpen(c)
  BY <1>1 DEF CreateOpen, Named
<1>2. CASE CreateHalted(c)
  BY <1>2 DEF CreateHalted
<1>3. CASE CreateReplace(c)
  BY <1>3 DEF CreateReplace, RemoveByName
<1>4. CASE CreatePrepare(c)
  BY <1>4 DEF CreatePrepare
<1>5. CASE CreateContainer(c)
  BY <1>5 DEF CreateContainer
<1>6. CASE CreateStart(c)
  BY <1>6 DEF CreateStart
<1>7. CASE CreateRollback(c)
  BY <1>7 DEF CreateRollback
<1>8. CASE CreateReopen(c)
  BY <1>8 DEF CreateReopen, OpenThen
<1>9. CASE Open(c)
  BY <1>9 DEF Open, OpenThen
<1>10. CASE Destroy(c)
  BY <1>10 DEF Destroy, RemoveByName
<1>11. CASE StopOpen(c)
  BY <1>11 DEF StopOpen, OpenThen, Named
<1>12. CASE Stop(c)
  BY <1>12 DEF Stop
<1> QED
  BY <1>1, <1>2, <1>3, <1>4, <1>5, <1>6, <1>7, <1>8, <1>9, <1>10, <1>11, <1>12
     DEF CallStep

-----------------------------------------------------------------------------
(* The one effect a step may have on the container table. *)

DockerEffect ==
  \/ UNCHANGED dockerVars
  \/ \E i \in Ids, n \in Names, s \in Specs : ContainerCreate(i, n, s)
  \/ \E i \in Ids :
       \/ ContainerStart(i) \/ ContainerStop(i) \/ GuestHalts(i)
       \/ ContainerRemove({i}) \/ ContainerRemoveFailed({i})
  \/ \E n \in Names : ContainerRemove(Named(n)) \/ ContainerRemoveFailed(Named(n))

LEMMA StepEffect ==
  ASSUME NEW c \in Callers, CallOK(c), CallStep(c)
  PROVE  DockerEffect
<1> USE DEF DockerEffect, CallOK, CallSteps, CreateSteps
<1>1. CASE CreateOpen(c) \/ CreateHalted(c) \/ CreatePrepare(c) \/ CreateReopen(c)
           \/ Open(c) \/ StopOpen(c)
  BY <1>1 DEF CreateOpen, CreateHalted, CreatePrepare, CreateReopen, Open, StopOpen
<1>2. CASE CreateReplace(c)
  BY <1>2 DEF CreateReplace, RemoveByName
<1>3. CASE Destroy(c)
  BY <1>3 DEF Destroy, RemoveByName
<1>4. CASE CreateContainer(c)
  BY <1>4 DEF CreateContainer
<1>5. CASE CreateStart(c)
  BY <1>5 DEF CreateStart
<1>6. CASE CreateRollback(c)
  BY <1>6 DEF CreateRollback
<1>7. CASE Stop(c)
  BY <1>7 DEF Stop
<1> QED
  BY <1>1, <1>2, <1>3, <1>4, <1>5, <1>6, <1>7 DEF CallStep

(* What any such effect preserves. *)

LEMMA EffectTypes ==
  ASSUME DockerTypeOK, DockerEffect
  PROVE  DockerTypeOK'
<1> USE DEF DockerTypeOK, Status
<1>1. CASE UNCHANGED dockerVars
  BY <1>1 DEF dockerVars
<1>2. ASSUME NEW i \in Ids, NEW n \in Names, NEW s \in Specs, ContainerCreate(i, n, s)
      PROVE  DockerTypeOK'
  BY <1>2 DEF ContainerCreate
<1>3. ASSUME NEW i \in Ids, ContainerStart(i) \/ ContainerStop(i) \/ GuestHalts(i)
      PROVE  DockerTypeOK'
  BY <1>3 DEF ContainerStart, ContainerStop, GuestHalts
<1>4. ASSUME NEW S, ContainerRemove(S) \/ ContainerRemoveFailed(S)
      PROVE  DockerTypeOK'
  BY <1>4 DEF ContainerRemove, ContainerRemoveFailed
<1> QED
  BY <1>1, <1>2, <1>3, <1>4 DEF DockerEffect

\* Statuses only move forward, and labels never change once written.
Forward(i) ==
  /\ status[i] \in {"exited", "dead", "gone"} => status'[i] \in {"exited", "dead", "gone"}
  /\ status[i] = "gone" => status'[i] = "gone"
  /\ status[i] # "unborn" => nameOf'[i] = nameOf[i] /\ specOf'[i] = specOf[i]
  /\ status[i] # "unborn" => status'[i] # "unborn"

LEMMA EffectForward ==
  ASSUME DockerTypeOK, DockerEffect, NEW i \in Ids
  PROVE  Forward(i)
<1> USE DEF DockerTypeOK, Forward
<1>1. CASE UNCHANGED dockerVars
  BY <1>1 DEF dockerVars
<1>2. ASSUME NEW j \in Ids, NEW n \in Names, NEW s \in Specs, ContainerCreate(j, n, s)
      PROVE  Forward(i)
  BY <1>2 DEF ContainerCreate
<1>3. ASSUME NEW j \in Ids, ContainerStart(j) \/ ContainerStop(j) \/ GuestHalts(j)
      PROVE  Forward(i)
  BY <1>3 DEF ContainerStart, ContainerStop, GuestHalts
<1>4. ASSUME NEW S, ContainerRemove(S) \/ ContainerRemoveFailed(S)
      PROVE  Forward(i)
  BY <1>4 DEF ContainerRemove, ContainerRemoveFailed, Present
<1> QED
  BY <1>1, <1>2, <1>3, <1>4 DEF DockerEffect

\* Only ContainerCreate makes a container present, and only under a free name.
LEMMA EffectUnique ==
  ASSUME DockerTypeOK, OneSandboxPerName, DockerEffect
  PROVE  OneSandboxPerName'
<1> USE DEF DockerTypeOK, OneSandboxPerName, Present
<1>1. CASE UNCHANGED dockerVars
  BY <1>1 DEF dockerVars
<1>2. ASSUME NEW i \in Ids, NEW n \in Names, NEW s \in Specs, ContainerCreate(i, n, s)
      PROVE  OneSandboxPerName'
  BY <1>2 DEF ContainerCreate, Named
<1>3. ASSUME NEW i \in Ids, ContainerStart(i) \/ ContainerStop(i) \/ GuestHalts(i)
      PROVE  OneSandboxPerName'
  BY <1>3 DEF ContainerStart, ContainerStop, GuestHalts
<1>4. ASSUME NEW S, ContainerRemove(S) \/ ContainerRemoveFailed(S)
      PROVE  OneSandboxPerName'
  BY <1>4 DEF ContainerRemove, ContainerRemoveFailed
<1> QED
  BY <1>1, <1>2, <1>3, <1>4 DEF DockerEffect

-----------------------------------------------------------------------------
(* The inductive invariant of Backend. *)

CallsOK == \A c \in Callers : CallOK(c)

BackendInv == TypeOK /\ CallsOK /\ OneSandboxPerName

LEMMA NextEffect ==
  ASSUME CallsOK, Next
  PROVE  DockerEffect
<1>1. ASSUME NEW c \in Callers, CallStep(c)
      PROVE  DockerEffect
  BY <1>1, StepEffect DEF CallsOK
<1>2. ASSUME NEW c \in Callers, NEW n \in Names,
             (\E s \in Specs : CallCreate(c, n, s)) \/ CallOpen(c, n)
               \/ CallDestroy(c, n) \/ CallStop(c, n)
      PROVE  DockerEffect
  BY <1>2 DEF CallCreate, CallOpen, CallDestroy, CallStop, Begin, DockerEffect
<1>3. ASSUME NEW c \in Callers, Cancel(c) \/ Finish(c) \/ Crash(c)
      PROVE  DockerEffect
  BY <1>3 DEF Cancel, Finish, Crash, Forget, DockerEffect
<1>4. ASSUME NEW i \in Ids, ReapRemoves(i) \/ Halt(i)
      PROVE  DockerEffect
  BY <1>4 DEF ReapRemoves, Halt, DockerEffect
<1> QED
  BY <1>1, <1>2, <1>3, <1>4 DEF Next, Environment

LEMMA InvInit == Init => BackendInv
BY SMT, NilAssumption
   DEF Init, DockerInit, BackendInv, TypeOK, DockerTypeOK, CallsOK, CallOK, OneSandboxPerName,
       Present, Status, CallSteps, CreateSteps, Outcomes

LEMMA TypeNext ==
  ASSUME BackendInv, Next
  PROVE  TypeOK'
<1>1. DockerTypeOK'
  BY NextEffect, EffectTypes DEF BackendInv, TypeOK
<1> USE <1>1 DEF BackendInv, TypeOK
<1>2. ASSUME NEW c \in Callers, CallStep(c)
      PROVE  TypeOK'
  <2>1. pc' \in [Callers -> CallSteps \cup {"idle", "done"}]
    BY <1>2, StepShape
  <2>2. out' \in [Callers -> Outcomes]
    BY <1>2, StepShape
  <2>3. sb' \in [Callers -> Ids \cup {Nil}]
    BY SMT, <1>2, StepShape
  <2>4. cancelled' \in [Callers -> BOOLEAN]
    BY <1>2, StepShape
  <2>5. wantName' = wantName /\ wantSpec' = wantSpec
    BY <1>2, StepShape
  <2> QED
    BY <2>1, <2>2, <2>3, <2>4, <2>5
<1>3. ASSUME NEW c \in Callers, NEW n \in Names,
             (\E s \in Specs : CallCreate(c, n, s)) \/ CallOpen(c, n)
               \/ CallDestroy(c, n) \/ CallStop(c, n)
      PROVE  TypeOK'
  BY SMT, <1>3 DEF CallCreate, CallOpen, CallDestroy, CallStop, Begin, CallSteps, CreateSteps
<1>4. ASSUME NEW c \in Callers, Cancel(c) \/ Finish(c) \/ Crash(c)
      PROVE  TypeOK'
  BY <1>4 DEF Cancel, Finish, Crash, Forget, callVars, Outcomes
<1>5. ASSUME NEW i \in Ids, ReapRemoves(i) \/ Halt(i)
      PROVE  TypeOK'
  BY <1>5 DEF ReapRemoves, Halt, callVars
<1> QED
  BY <1>2, <1>3, <1>4, <1>5 DEF Next, Environment

LEMMA CallsNext ==
  ASSUME BackendInv, Next
  PROVE  CallsOK'
<1> SUFFICES ASSUME NEW d \in Callers
             PROVE  CallOK(d)'
  BY DEF CallsOK
<1> USE DEF BackendInv, CallsOK, TypeOK
<1>1. ASSUME NEW c \in Callers, CallStep(c)
      PROVE  CallOK(d)'
  <2>1. CASE c = d
    BY <1>1, <2>1, StepCallOK
  <2>2. CASE c # d
    <3>1. pc'[d] = pc[d] /\ sb'[d] = sb[d] /\ wantName' = wantName /\ wantSpec' = wantSpec
      BY SMT, <1>1, <2>2, StepShape
    <3> QED
      BY <3>1 DEF CallOK
  <2> QED
    BY <2>1, <2>2
<1>2. ASSUME NEW c \in Callers, NEW n \in Names,
             (\E s \in Specs : CallCreate(c, n, s)) \/ CallOpen(c, n)
               \/ CallDestroy(c, n) \/ CallStop(c, n)
      PROVE  CallOK(d)'
  BY SMT, <1>2 DEF CallCreate, CallOpen, CallDestroy, CallStop, Begin, CallSteps, CreateSteps, CallOK
<1>3. ASSUME NEW c \in Callers, Cancel(c) \/ Finish(c) \/ Crash(c)
      PROVE  CallOK(d)'
  BY SMT, <1>3 DEF Cancel, Finish, Crash, Forget, callVars, CallOK, CallSteps, CreateSteps
<1>4. ASSUME NEW i \in Ids, ReapRemoves(i) \/ Halt(i)
      PROVE  CallOK(d)'
  BY <1>4 DEF ReapRemoves, Halt, callVars, CallOK
<1> QED
  BY <1>1, <1>2, <1>3, <1>4 DEF Next, Environment

LEMMA InvNext == BackendInv /\ [Next]_backendVars => BackendInv'
<1>1. ASSUME BackendInv, Next
      PROVE  BackendInv'
  <2>1. OneSandboxPerName'
    BY <1>1, NextEffect, EffectUnique DEF BackendInv, TypeOK
  <2> QED
    BY <1>1, <2>1, TypeNext, CallsNext DEF BackendInv
<1>2. ASSUME BackendInv, UNCHANGED backendVars
      PROVE  BackendInv'
  BY <1>2 DEF BackendInv, TypeOK, DockerTypeOK, CallsOK, CallOK, OneSandboxPerName, Present,
              backendVars
<1> QED
  BY <1>1, <1>2

\* Every variable of Backend keeps its type.
THEOREM Typed == Spec => []TypeOK
<1>1. BackendInv => TypeOK
  BY DEF BackendInv
<1> QED
  BY <1>1, InvInit, InvNext, PTL DEF Spec

\* A name reaches at most one container, whatever the callers do and fail at.
THEOREM UniqueName == Spec => []OneSandboxPerName
<1>1. BackendInv => OneSandboxPerName
  BY DEF BackendInv
<1> QED
  BY <1>1, InvInit, InvNext, PTL DEF Spec

\* No step runs a halted container again or rewrites the labels of one.
THEOREM NeverResurrected == Spec => NoResurrection
<1>1. ASSUME BackendInv, [Next]_backendVars, NEW i \in Ids
      PROVE  Forward(i)
  <2>1. CASE Next
    BY <1>1, <2>1, NextEffect, EffectForward DEF BackendInv, TypeOK
  <2>2. CASE UNCHANGED backendVars
    BY <1>1, <2>2 DEF backendVars, Forward, BackendInv, TypeOK, DockerTypeOK
  <2> QED
    BY <1>1, <2>1, <2>2
<1>2. BackendInv /\ [Next]_backendVars
        => [\A i \in Ids :
              /\ status[i] \in {"exited", "dead", "gone"}
                   => status'[i] \in {"exited", "dead", "gone"}
              /\ status[i] = "gone" => status'[i] = "gone"
              /\ status[i] # "unborn"
                   => nameOf'[i] = nameOf[i] /\ specOf'[i] = specOf[i]]_backendVars
  BY <1>1 DEF Forward
<1> QED
  BY <1>2, InvInit, InvNext, PTL DEF Spec, NoResurrection

-----------------------------------------------------------------------------
(* Create hands back a sandbox that was not halted at some instant of the call. *)

\* Between finding the name free and the last Open.
Claiming == {"prepare", "create", "start", "reopen"}

\* How a step reaches the states the invariant below talks about.
LEMMA StepLive ==
  ASSUME DockerTypeOK, NEW P, pc \in [Callers -> P], NEW O, out \in [Callers -> O],
         sb \in [Callers -> Ids \cup {Nil}], NEW c \in Callers, CallOK(c), CallStep(c)
  PROVE  /\ pc'[c] \in Claiming => pc[c] \in Claiming \/ Named(wantName[c])' = {}
         /\ pc'[c] = "done" /\ out'[c] = "ok" =>
              \/ wantSpec[c] = Nil
              \/ pc[c] = "halted" /\ sb'[c] = sb[c] /\ ~IsHalted(sb[c])
              \/ pc[c] = "reopen" /\ sb'[c] \in Named(wantName[c])
         /\ sb' = sb \/ (sb'[c] \in Ids /\ Present(sb[c])')
<1> USE DEF DockerTypeOK, CallOK, Claiming, callVars, dockerVars, Goto, Return, Holds,
            CallSteps, CreateSteps, Outcomes, Present, Named
<1>1. CASE CreateOpen(c)
  BY <1>1 DEF CreateOpen
<1>2. CASE CreateHalted(c)
  BY <1>2 DEF CreateHalted
<1>3. CASE CreateReplace(c)
  BY <1>3 DEF CreateReplace, RemoveByName, ContainerRemove
<1>4. CASE CreatePrepare(c)
  BY <1>4 DEF CreatePrepare
<1>5. CASE CreateContainer(c)
  BY <1>5 DEF CreateContainer, ContainerCreate
<1>6. CASE CreateStart(c)
  BY <1>6 DEF CreateStart
<1>7. CASE CreateRollback(c)
  BY <1>7 DEF CreateRollback
<1>8. CASE CreateReopen(c)
  BY <1>8 DEF CreateReopen, OpenThen
<1>9. CASE Open(c)
  BY <1>9 DEF Open, OpenThen
<1>10. CASE Destroy(c)
  BY <1>10 DEF Destroy, RemoveByName
<1>11. CASE StopOpen(c)
  BY <1>11 DEF StopOpen, OpenThen
<1>12. CASE Stop(c)
  BY <1>12 DEF Stop
<1> QED
  BY <1>1, <1>2, <1>3, <1>4, <1>5, <1>6, <1>7, <1>8, <1>9, <1>10, <1>11, <1>12
     DEF CallStep

\* A container that newly holds a name has just been created.
LEMMA EffectNamed ==
  ASSUME DockerTypeOK, DockerEffect, NEW i \in Ids, NEW n, i \in Named(n)'
  PROVE  i \in Named(n) \/ Alive(i)'
<1> USE DEF DockerTypeOK, Named, Present, Alive
<1>1. CASE UNCHANGED dockerVars
  BY <1>1 DEF dockerVars
<1>2. ASSUME NEW j \in Ids, NEW m \in Names, NEW s \in Specs, ContainerCreate(j, m, s)
      PROVE  i \in Named(n) \/ Alive(i)'
  BY <1>2 DEF ContainerCreate
<1>3. ASSUME NEW j \in Ids, ContainerStart(j) \/ ContainerStop(j) \/ GuestHalts(j)
      PROVE  i \in Named(n) \/ Alive(i)'
  BY <1>3 DEF ContainerStart, ContainerStop, GuestHalts
<1>4. ASSUME NEW S, ContainerRemove(S) \/ ContainerRemoveFailed(S)
      PROVE  i \in Named(n) \/ Alive(i)'
  BY <1>4 DEF ContainerRemove, ContainerRemoveFailed
<1> QED
  BY <1>1, <1>2, <1>3, <1>4 DEF DockerEffect

SeenOK(c) ==
  /\ pc[c] # "idle" => \A i \in Ids : Alive(i) => i \in seen[c]
  /\ pc[c] \in Claiming => Named(wantName[c]) \subseteq seen[c]
  /\ sb[c] \in Ids => status[sb[c]] # "unborn"
  /\ pc[c] = "done" /\ out[c] = "ok" /\ wantSpec[c] # Nil => sb[c] \in seen[c]

LiveInv ==
  /\ BackendInv
  /\ seen \in [Callers -> SUBSET Ids]
  /\ \A c \in Callers : SeenOK(c)

LEMMA LiveInvInit == LiveInit => LiveInv
<1> SUFFICES ASSUME LiveInit
             PROVE  LiveInv
  OBVIOUS
<1>1. BackendInv
  BY InvInit DEF LiveInit
<1>2. \A c \in Callers : SeenOK(c)
  BY NilAssumption DEF LiveInit, Init, DockerInit, SeenOK, Claiming
<1> QED
  BY <1>1, <1>2 DEF LiveInv, LiveInit

\* A caller that is not in `CallStep` keeps, starts or forgets its call.
LEMMA OtherSteps ==
  ASSUME TypeOK, Next, NEW d \in Callers, ~CallStep(d)
  PROVE  \/ /\ pc'[d] = pc[d] /\ wantName'[d] = wantName[d] /\ wantSpec'[d] = wantSpec[d]
            /\ sb'[d] = sb[d] /\ out'[d] = out[d]
         \/ pc'[d] \in {"open", "lookup", "destroy", "stopOpen"} /\ sb'[d] = sb[d]
         \/ pc'[d] = "idle" /\ sb'[d] = Nil
<1> DEFINE Goal == \/ /\ pc'[d] = pc[d] /\ wantName'[d] = wantName[d]
                      /\ wantSpec'[d] = wantSpec[d] /\ sb'[d] = sb[d] /\ out'[d] = out[d]
                   \/ pc'[d] \in {"open", "lookup", "destroy", "stopOpen"} /\ sb'[d] = sb[d]
                   \/ pc'[d] = "idle" /\ sb'[d] = Nil
<1> USE DEF TypeOK
<1>1. ASSUME NEW c \in Callers, CallStep(c)
      PROVE  Goal
  BY SMT, <1>1, StepShape
<1>2. ASSUME NEW c \in Callers, NEW n \in Names,
             (\E s \in Specs : CallCreate(c, n, s)) \/ CallOpen(c, n)
               \/ CallDestroy(c, n) \/ CallStop(c, n)
      PROVE  Goal
  BY <1>2 DEF CallCreate, CallOpen, CallDestroy, CallStop, Begin
<1>3. ASSUME NEW c \in Callers, Cancel(c) \/ Finish(c) \/ Crash(c)
      PROVE  Goal
  BY <1>3 DEF Cancel, Finish, Crash, Forget, callVars
<1>4. ASSUME NEW i \in Ids, ReapRemoves(i) \/ Halt(i)
      PROVE  Goal
  BY <1>4 DEF ReapRemoves, Halt, callVars
<1> QED
  BY <1>1, <1>2, <1>3, <1>4 DEF Next, Environment

\* What any step adds to `seen`, and what may newly hold a name.
LEMMA SeenKeepsUp ==
  ASSUME DockerTypeOK, DockerEffect, SeenGrows, NEW d \in Callers, pc'[d] # "idle"
  PROVE  /\ seen[d] \subseteq seen'[d]
         /\ \A i \in Ids : Alive(i) \/ Alive(i)' => i \in seen'[d]
         /\ \A i \in Ids : Forward(i)
         /\ \A n : Named(n) \subseteq seen[d] => Named(n)' \subseteq seen'[d]
<1>1. /\ seen[d] \subseteq seen'[d]
      /\ \A i \in Ids : Alive(i) \/ Alive(i)' => i \in seen'[d]
  BY DEF SeenGrows
<1>2. \A i \in Ids : Forward(i)
  BY EffectForward
<1>3. ASSUME NEW n, Named(n) \subseteq seen[d]
      PROVE  Named(n)' \subseteq seen'[d]
  <2>1. \A i \in Ids : i \in Named(n)' => i \in Named(n) \/ Alive(i)'
    BY EffectNamed
  <2>2. Named(n)' \subseteq Ids
    BY DEF Named
  <2> QED
    BY <1>1, <1>3, <2>1, <2>2
<1> QED
  BY <1>1, <1>2, <1>3

\* A step of the call itself.
LEMMA SeenStep ==
  ASSUME DockerTypeOK, DockerEffect, SeenGrows, NEW P, pc \in [Callers -> P],
         NEW O, out \in [Callers -> O], sb \in [Callers -> Ids \cup {Nil}],
         NEW d \in Callers, CallOK(d), SeenOK(d), CallStep(d)
  PROVE  SeenOK(d)'
<1>1. wantName' = wantName /\ wantSpec' = wantSpec /\ pc'[d] \in CallSteps \cup {"done"}
  BY StepShape
<1>2. pc'[d] # "idle"
  BY <1>1 DEF CallSteps, CreateSteps
<1>3. pc'[d] \in Claiming => Named(wantName[d])' \subseteq seen'[d]
  <2>1. CASE pc[d] \in Claiming
    BY <2>1, <1>1, <1>2, SeenKeepsUp DEF SeenOK, Named
  <2>2. CASE pc[d] \notin Claiming
    BY <2>2, StepLive
  <2> QED
    BY <2>1, <2>2
<1>4. sb'[d] \in Ids => status'[sb'[d]] # "unborn"
  BY <1>2, SeenKeepsUp, StepLive DEF SeenOK, Forward, Present
<1>5. pc'[d] = "done" /\ out'[d] = "ok" /\ wantSpec[d] # Nil => sb'[d] \in seen'[d]
  <2> SUFFICES ASSUME pc'[d] = "done", out'[d] = "ok", wantSpec[d] # Nil
               PROVE  sb'[d] \in seen'[d]
    OBVIOUS
  <2>1. CASE pc[d] = "halted" /\ sb'[d] = sb[d] /\ ~IsHalted(sb[d])
    BY <2>1, <1>2, SeenKeepsUp
       DEF SeenOK, CallOK, IsHalted, Alive, DockerTypeOK, Status
  <2>2. CASE pc[d] = "reopen" /\ sb'[d] \in Named(wantName[d])
    BY <2>2, <1>2, SeenKeepsUp DEF SeenOK, Claiming
  <2> QED
    BY <2>1, <2>2, StepLive
<1> QED
  BY <1>1, <1>2, <1>3, <1>4, <1>5, SeenKeepsUp DEF SeenOK

\* A step of somebody else.
LEMMA SeenKept ==
  ASSUME DockerTypeOK, DockerEffect, SeenGrows, NEW d \in Callers, SeenOK(d),
         pc'[d] = pc[d], wantName'[d] = wantName[d], wantSpec'[d] = wantSpec[d],
         sb'[d] = sb[d], out'[d] = out[d]
  PROVE  SeenOK(d)'
<1>1. CASE pc[d] = "idle"
  BY <1>1, EffectForward DEF SeenOK, Claiming, Forward
<1>2. CASE pc[d] # "idle"
  <2>1. pc[d] \in Claiming => Named(wantName[d])' \subseteq seen'[d]
    BY <1>2, SeenKeepsUp DEF SeenOK
  <2> QED
    BY <1>2, <2>1, SeenKeepsUp DEF SeenOK, Forward, Named
<1> QED
  BY <1>1, <1>2

\* A step of the caller from which Create has nothing to show yet, or any more.
LEMMA SeenElsewhere ==
  ASSUME DockerTypeOK, DockerEffect, SeenGrows, NEW d \in Callers, SeenOK(d),
         pc'[d] \notin Claiming \cup {"done", "idle"}, sb'[d] = sb[d]
  PROVE  SeenOK(d)'
BY SeenKeepsUp DEF SeenOK, Forward, Claiming

LEMMA SeenIdle ==
  ASSUME NEW d \in Callers, pc'[d] = "idle", sb'[d] = Nil
  PROVE  SeenOK(d)'
BY NilAssumption DEF SeenOK, Claiming

LEMMA LiveInvNext == LiveInv /\ [LiveNext]_liveVars => LiveInv'
<1>1. ASSUME LiveInv, UNCHANGED liveVars
      PROVE  LiveInv'
  <2>1. BackendInv'
    BY <1>1, InvNext DEF LiveInv, liveVars
  <2> QED
    BY <1>1, <2>1 DEF LiveInv, liveVars, backendVars, SeenOK, Alive, Named, Present
<1>2. ASSUME LiveInv, LiveNext
      PROVE  LiveInv'
  <2>1. BackendInv' /\ BackendInv /\ TypeOK /\ DockerTypeOK /\ CallsOK /\ SeenGrows
    BY <1>2, InvNext DEF LiveInv, LiveNext, BackendInv, TypeOK
  <2>2. DockerEffect
    BY <1>2, <2>1, NextEffect DEF LiveNext
  <2>3. seen' \in [Callers -> SUBSET Ids]
    BY <1>2 DEF LiveNext, SeenGrows, LiveInv
  <2>4. ASSUME NEW d \in Callers
        PROVE  SeenOK(d)'
    <3>1. SeenOK(d) /\ CallOK(d)
      BY <1>2, <2>1 DEF LiveInv, CallsOK
    <3>2. CASE CallStep(d)
      BY <2>1, <2>2, <3>1, <3>2, SeenStep DEF TypeOK
    <3>3. CASE ~CallStep(d)
      <4>1. CASE /\ pc'[d] = pc[d] /\ wantName'[d] = wantName[d] /\ wantSpec'[d] = wantSpec[d]
                 /\ sb'[d] = sb[d] /\ out'[d] = out[d]
        BY <2>1, <2>2, <3>1, <4>1, SeenKept
      <4>2. CASE pc'[d] \in {"open", "lookup", "destroy", "stopOpen"} /\ sb'[d] = sb[d]
        BY <2>1, <2>2, <3>1, <4>2, SeenElsewhere DEF Claiming
      <4>3. CASE pc'[d] = "idle" /\ sb'[d] = Nil
        BY <4>3, SeenIdle
      <4> QED
        BY <4>1, <4>2, <4>3, <3>3, <1>2, <2>1, OtherSteps DEF LiveNext
    <3> QED
      BY <3>2, <3>3
  <2> QED
    BY <2>1, <2>3, <2>4 DEF LiveInv
<1> QED
  BY <1>1, <1>2

\* What a successful Create returns was not halted at some instant of the call.
THEOREM CreateLive == LiveSpec => []CreateReturnsLive
<1>1. LiveInv => CreateReturnsLive
  BY DEF LiveInv, SeenOK, CreateReturnsLive
<1> QED
  BY <1>1, LiveInvInit, LiveInvNext, PTL DEF LiveSpec

-----------------------------------------------------------------------------
(* Backend implements the Registry. *)

\* Docker knows every container by the name and labels it was created with.
Labelled == \A i \in Ids : status[i] # "unborn" => nameOf[i] \in Names /\ specOf[i] \in Specs

LEMMA EffectLabelled ==
  ASSUME DockerTypeOK, Labelled, DockerEffect
  PROVE  Labelled'
<1> USE DEF DockerTypeOK, Labelled, Present
<1>1. CASE UNCHANGED dockerVars
  BY <1>1 DEF dockerVars
<1>2. ASSUME NEW i \in Ids, NEW n \in Names, NEW s \in Specs, ContainerCreate(i, n, s)
      PROVE  Labelled'
  BY <1>2 DEF ContainerCreate
<1>3. ASSUME NEW i \in Ids, ContainerStart(i) \/ ContainerStop(i) \/ GuestHalts(i)
      PROVE  Labelled'
  BY <1>3 DEF ContainerStart, ContainerStop, GuestHalts
<1>4. ASSUME NEW S, ContainerRemove(S) \/ ContainerRemoveFailed(S)
      PROVE  Labelled'
  BY <1>4 DEF ContainerRemove, ContainerRemoveFailed
<1> QED
  BY <1>1, <1>2, <1>3, <1>4 DEF DockerEffect

\* What the mapping maps a name to.
LEMMA AtFree ==
  ASSUME NEW n \in Names, Named(n) = {}
  PROVE  AtOf[n] = Nil
BY DEF AtOf

LEMMA AtHeld ==
  ASSUME OneSandboxPerName, NEW n \in Names, NEW i \in Named(n)
  PROVE  AtOf[n] = i
<1>1. AtOf[n] = CHOOSE j \in Named(n) : TRUE
  BY DEF AtOf
<1>2. (CHOOSE j \in Named(n) : TRUE) \in Named(n)
  OBVIOUS
<1> QED
  BY <1>1, <1>2 DEF OneSandboxPerName, Named

LEMMA AtFreeNext ==
  ASSUME NEW n \in Names, Named(n)' = {}
  PROVE  AtOf'[n] = Nil
BY DEF AtOf

LEMMA AtHeldNext ==
  ASSUME OneSandboxPerName', NEW n \in Names, NEW i \in Named(n)'
  PROVE  AtOf'[n] = i
<1>1. AtOf'[n] = CHOOSE j \in Named(n)' : TRUE
  BY DEF AtOf
<1>2. (CHOOSE j \in Named(n)' : TRUE) \in Named(n)'
  OBVIOUS
<1> QED
  BY <1>1, <1>2 DEF OneSandboxPerName, Named

LEMMA AtFunction ==
  AtOf = [n \in Names |-> AtOf[n]] /\ AtOf' = [n \in Names |-> AtOf'[n]]
BY SMT DEF AtOf

LEMMA AtKept ==
  ASSUME NEW n \in Names, Named(n)' = Named(n)
  PROVE  AtOf'[n] = AtOf[n]
BY SMT DEF AtOf

LEMMA AtSame ==
  ASSUME \A n \in Names : Named(n)' = Named(n)
  PROVE  AtOf' = AtOf
<1>1. \A n \in Names : AtOf'[n] = AtOf[n]
  BY AtKept
<1> QED
  BY <1>1, AtFunction

\* The steps that create, run, halt and remove, against the Registry's.
LEMMA MapCreate ==
  ASSUME DockerTypeOK, OneSandboxPerName, OneSandboxPerName',
         NEW i \in Ids, NEW n \in Names, NEW s \in Specs, ContainerCreate(i, n, s)
  PROVE  R!Provision(n, i, s)
<1>1. AtOf[n] = Nil
  BY AtFree DEF ContainerCreate
<1>2. PhaseOf[i] = "unused"
  BY DEF PhaseOf, ContainerCreate
<1>3. AtOf'[n] = i
  <2>1. i \in Named(n)'
    BY DEF ContainerCreate, Named, Present, DockerTypeOK
  <2> QED
    BY <2>1, AtHeldNext
<1>4. \A m \in Names : m # n => AtOf'[m] = AtOf[m]
  <2>1. \A m \in Names : m # n => Named(m)' = Named(m)
    BY DEF ContainerCreate, Named, Present, DockerTypeOK
  <2> QED
    BY <2>1, AtKept
<1>5. AtOf' = [AtOf EXCEPT ![n] = i]
  BY <1>3, <1>4, AtFunction
<1>6. PhaseOf' = [PhaseOf EXCEPT ![i] = "provisioned"]
  BY DEF PhaseOf, ContainerCreate, DockerTypeOK
<1> QED
  BY <1>1, <1>2, <1>5, <1>6 DEF R!Provision, ContainerCreate

LEMMA MapMove ==
  ASSUME DockerTypeOK, NEW i \in Ids, NEW to \in {"running", "exited", "dead"}, Present(i),
         status' = [status EXCEPT ![i] = to], nameOf' = nameOf, specOf' = specOf,
         status[i] = "created" \/ to # "running"
  PROVE  R!Run(i) \/ R!Halt(i) \/ UNCHANGED R!vars
<1>1. AtOf' = AtOf
  <2>1. \A n \in Names : Named(n)' = Named(n)
    BY DEF Named, Present, DockerTypeOK
  <2> QED
    BY <2>1, AtSame
<1>2. CASE to = "running"
  <2>1. PhaseOf[i] = "provisioned" /\ PhaseOf' = [PhaseOf EXCEPT ![i] = "running"]
    BY <1>2 DEF PhaseOf, DockerTypeOK
  <2> QED
    BY <1>1, <2>1 DEF R!Run
<1>3. CASE to # "running" /\ status[i] \in {"created", "running"}
  <2>1. /\ PhaseOf[i] \in {"provisioned", "running"}
        /\ PhaseOf' = [PhaseOf EXCEPT ![i] = "halted"]
    BY <1>3 DEF PhaseOf, DockerTypeOK
  <2> QED
    BY <1>1, <2>1 DEF R!Halt
<1>4. CASE to # "running" /\ status[i] \in {"exited", "dead"}
  <2>1. PhaseOf' = PhaseOf
    BY <1>4 DEF PhaseOf, DockerTypeOK
  <2> QED
    BY <1>1, <2>1 DEF R!vars
<1> QED
  BY <1>2, <1>3, <1>4 DEF Present, DockerTypeOK, Status

LEMMA MapRemove ==
  ASSUME DockerTypeOK, OneSandboxPerName, Labelled, NEW i \in Ids, Present(i),
         status' = [status EXCEPT ![i] = "gone"], nameOf' = nameOf, specOf' = specOf
  PROVE  R!Remove(nameOf[i])
<1> DEFINE n == nameOf[i]
<1>1. n \in Names /\ i \in Named(n)
  BY DEF Labelled, Present, Named
<1>2. AtOf[n] = i
  BY <1>1, AtHeld
<1>3. AtOf'[n] = Nil
  <2>1. Named(n)' = {}
    BY <1>1 DEF Named, Present, OneSandboxPerName, DockerTypeOK
  <2> QED
    BY <1>1, <2>1, AtFreeNext
<1>4. \A m \in Names : m # n => AtOf'[m] = AtOf[m]
  <2>1. \A m \in Names : m # n => Named(m)' = Named(m)
    BY DEF Named, Present, DockerTypeOK
  <2> QED
    BY <2>1, AtKept
<1>5. AtOf' = [AtOf EXCEPT ![n] = Nil]
  BY <1>3, <1>4, AtFunction
<1>6. PhaseOf' = [PhaseOf EXCEPT ![i] = "removed"]
  BY DEF PhaseOf, DockerTypeOK
<1> QED
  BY <1>1, <1>2, <1>5, <1>6, NilAssumption DEF R!Remove

LEMMA MapEffect ==
  ASSUME DockerTypeOK, OneSandboxPerName, OneSandboxPerName', Labelled, DockerEffect
  PROVE  [R!Next]_(R!vars)
<1>1. CASE UNCHANGED dockerVars
  <2>1. AtOf' = AtOf
    BY <1>1, AtSame DEF dockerVars, Named, Present
  <2>2. PhaseOf' = PhaseOf
    BY <1>1 DEF dockerVars, PhaseOf
  <2> QED
    BY <1>1, <2>1, <2>2 DEF dockerVars, R!vars
<1>2. ASSUME NEW i \in Ids, NEW n \in Names, NEW s \in Specs, ContainerCreate(i, n, s)
      PROVE  [R!Next]_(R!vars)
  BY <1>2, MapCreate DEF R!Next
<1>3. ASSUME NEW i \in Ids, NEW to \in {"running", "exited", "dead"}, Present(i),
             status' = [status EXCEPT ![i] = to], nameOf' = nameOf, specOf' = specOf,
             status[i] = "created" \/ to # "running"
      PROVE  [R!Next]_(R!vars)
  BY <1>3, MapMove DEF R!Next
<1>4. ASSUME NEW i \in Ids, Present(i),
             status' = [status EXCEPT ![i] = "gone"], nameOf' = nameOf, specOf' = specOf
      PROVE  [R!Next]_(R!vars)
  BY <1>4, MapRemove DEF R!Next, Labelled, Present
<1>5. ASSUME NEW i \in Ids, ContainerStart(i) \/ ContainerStop(i) \/ GuestHalts(i)
      PROVE  [R!Next]_(R!vars)
  <2>1. CASE ContainerStart(i)
    BY <1>3, <2>1 DEF ContainerStart, Present
  <2>2. CASE ContainerStop(i) /\ status[i] = "running"
    BY <1>3, <2>2 DEF ContainerStop
  <2>3. CASE ContainerStop(i) /\ status[i] # "running"
    <3>1. UNCHANGED dockerVars
      BY <2>3 DEF ContainerStop, dockerVars, DockerTypeOK
    <3> QED
      BY <3>1, <1>1
  <2>4. CASE GuestHalts(i)
    BY <1>3, <2>4 DEF GuestHalts, Present
  <2> QED
    BY <1>5, <2>1, <2>2, <2>3, <2>4
<1>6. ASSUME NEW S, ContainerRemove(S) \/ ContainerRemoveFailed(S),
             \A i, j \in Ids : i \in S /\ j \in S /\ Present(i) /\ Present(j) => i = j
      PROVE  [R!Next]_(R!vars)
  <2>1. CASE \A i \in Ids : i \in S => ~Present(i)
    <3>1. UNCHANGED dockerVars
      BY <1>6, <2>1 DEF ContainerRemove, ContainerRemoveFailed, dockerVars, DockerTypeOK
    <3> QED
      BY <3>1, <1>1
  <2>2. ASSUME NEW i \in Ids, i \in S, Present(i)
        PROVE  [R!Next]_(R!vars)
    <3>1. CASE ContainerRemove(S)
      <4>1. status' = [status EXCEPT ![i] = "gone"] /\ nameOf' = nameOf /\ specOf' = specOf
        BY <1>6, <2>2, <3>1 DEF ContainerRemove, DockerTypeOK
      <4> QED
        BY <4>1, <2>2, <1>4
    <3>2. CASE ContainerRemoveFailed(S)
      <4>1. status' = [status EXCEPT ![i] = "dead"] /\ nameOf' = nameOf /\ specOf' = specOf
        BY <1>6, <2>2, <3>2 DEF ContainerRemoveFailed, DockerTypeOK
      <4> QED
        BY <4>1, <2>2, <1>3
    <3> QED
      BY <1>6, <3>1, <3>2
  <2> QED
    BY <2>1, <2>2
<1>7. ASSUME NEW i \in Ids, ContainerRemove({i}) \/ ContainerRemoveFailed({i})
      PROVE  [R!Next]_(R!vars)
  BY SMT, <1>7, <1>6
<1>8. ASSUME NEW n \in Names, ContainerRemove(Named(n)) \/ ContainerRemoveFailed(Named(n))
      PROVE  [R!Next]_(R!vars)
  <2>1. \A i, j \in Ids : i \in Named(n) /\ j \in Named(n) /\ Present(i) /\ Present(j) => i = j
    BY DEF Named, OneSandboxPerName
  <2> QED
    BY <1>8, <2>1, <1>6
<1> QED
  BY <1>1, <1>2, <1>5, <1>7, <1>8 DEF DockerEffect

LEMMA LabelledInit == Init => Labelled
BY DEF Init, DockerInit, Labelled

LEMMA MapInit == Init => R!Init
<1> SUFFICES ASSUME Init
             PROVE  R!Init
  OBVIOUS
<1>1. \A n \in Names : AtOf[n] = Nil
  BY AtFree DEF Init, DockerInit, Named, Present
<1>2. AtOf = [n \in Names |-> Nil]
  BY <1>1, AtFunction
<1>3. PhaseOf = [i \in Ids |-> "unused"]
  BY DEF Init, DockerInit, PhaseOf
<1> QED
  BY <1>2, <1>3 DEF R!Init, Init, DockerInit

\* Every behaviour of the concurrent, failing calls is one of the Registry.
THEOREM Refinement == Spec => ImplementsRegistry
<1>1. BackendInv /\ Labelled /\ [Next]_backendVars => Labelled'
  <2>1. ASSUME BackendInv, Labelled, Next
        PROVE  Labelled'
    BY <2>1, NextEffect, EffectLabelled DEF BackendInv, TypeOK
  <2>2. ASSUME Labelled, UNCHANGED backendVars
        PROVE  Labelled'
    BY <2>2 DEF Labelled, backendVars
  <2> QED
    BY <2>1, <2>2
<1>2. BackendInv /\ BackendInv' /\ Labelled /\ [Next]_backendVars => [R!Next]_(R!vars)
  <2>1. ASSUME BackendInv, BackendInv', Labelled, Next
        PROVE  [R!Next]_(R!vars)
    BY <2>1, NextEffect, MapEffect DEF BackendInv, TypeOK
  <2>2. ASSUME BackendInv, BackendInv', Labelled, UNCHANGED backendVars
        PROVE  [R!Next]_(R!vars)
    <3>1. DockerEffect
      BY <2>2 DEF backendVars, dockerVars, DockerEffect
    <3> QED
      BY <2>2, <3>1, MapEffect DEF BackendInv, TypeOK
  <2> QED
    BY <2>1, <2>2
<1> QED
  BY <1>1, <1>2, InvInit, InvNext, LabelledInit, MapInit, PTL
     DEF Spec, ImplementsRegistry, R!Spec
=============================================================================
