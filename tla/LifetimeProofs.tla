--------------------------- MODULE LifetimeProofs ---------------------------
(***************************************************************************)
(* Theorems about module Lifetime, for any sandboxes, bounds, reapers and   *)
(* commands and any clock bound: what a sweep removes, under every          *)
(* combination of faults, and what it leaves when Docker removes what it is *)
(* told to.                                                                 *)
(***************************************************************************)
EXTENDS Lifetime, TLAPS

Born(i) == state[i] # "unborn"

\* The labels of a sandbox that was created, and the timestamps about it.
LabelsOK(i) ==
  Born(i) => /\ createdAt[i] \in Nat /\ createdAt[i] <= now
             /\ bounds[i] \in Lifetimes

StampOK(i) == lastUsed[i] # Nil => Born(i) /\ lastUsed[i] >= createdAt[i]

TouchOK(t) == Born(t.id) /\ t.at >= createdAt[t.id]

SweepOK(r) ==
  /\ sweepNow[r] <= now
  /\ \A i \in listed[r] : Born(i)
  /\ rpc[r] = "removing" => /\ victim[r] \in Ids
                            /\ Born(victim[r]) /\ ~Young(victim[r])

\* The inductive invariant: a decision to remove stays right while the sweep
\* that took it is delayed, because labels are immutable and time only passes.
Inv ==
  /\ TypeOK
  /\ \A i \in Ids : LabelsOK(i) /\ StampOK(i)
  /\ \A u \in Users : execOf[u] # Nil => Born(execOf[u])
  /\ \A t \in touches : TouchOK(t)
  /\ \A r \in Reapers : SweepOK(r)

LEMMA InvInit == Init => Inv
BY LifetimeAssumption
   DEF Init, Inv, TypeOK, LabelsOK, StampOK, SweepOK, Born

-----------------------------------------------------------------------------
\* A step that keeps the labels and does not turn back the clock keeps every
\* fact about them.
Ages ==
  /\ now' \in Nat /\ now <= now'
  /\ \A i \in Ids : Born(i) => Born(i)' /\ createdAt'[i] = createdAt[i] /\ bounds'[i] = bounds[i]

LEMMA StillOverdue ==
  ASSUME TypeOK, Ages, NEW i \in Ids, LabelsOK(i), Born(i), ~Young(i)
  PROVE  Born(i)' /\ ~Young(i)'
<1>1. /\ createdAt'[i] = createdAt[i] /\ bounds'[i] = bounds[i] /\ Born(i)'
      /\ now \in Nat /\ now' \in Nat /\ now <= now' /\ createdAt[i] \in Nat
      /\ bounds[i].maxAge \in Int /\ bounds[i].idle \in Int
  BY LifetimeAssumption DEF Ages, LabelsOK, TypeOK
<1> QED
  BY <1>1 DEF Young

LEMMA SweepKept ==
  ASSUME Inv, Ages, NEW r \in Reapers,
         sweepNow'[r] = sweepNow[r], listed'[r] = listed[r], rpc'[r] = rpc[r],
         victim'[r] = victim[r]
  PROVE  SweepOK(r)'
<1>1. sweepNow'[r] <= now'
  BY DEF Inv, TypeOK, SweepOK, Ages
<1>2. \A i \in listed'[r] : Born(i)'
  BY DEF Inv, TypeOK, SweepOK, Ages
<1>3. rpc'[r] = "removing" => victim'[r] \in Ids /\ Born(victim[r])' /\ ~Young(victim[r])'
  BY StillOverdue DEF Inv, SweepOK
<1> QED
  BY <1>1, <1>2, <1>3 DEF SweepOK

LEMMA StepAges ==
  ASSUME Inv, Next
  PROVE  Ages
<1> USE DEF Inv, TypeOK, Ages, Born, LabelsOK
<1>1. CASE Tick
  BY <1>1 DEF Tick, sandboxVars
<1>2. ASSUME NEW i \in Ids, NEW b \in Lifetimes, Create(i, b)
      PROVE  Ages
  BY <1>2 DEF Create
<1>3. ASSUME NEW i \in Ids, Start(i) \/ Halt(i)
      PROVE  Ages
  BY <1>3 DEF Start, Halt
<1>4. ASSUME NEW u \in Users, (\E i \in Ids : ExecBegins(u, i)) \/ ExecEnds(u)
      PROVE  Ages
  BY <1>4 DEF ExecBegins, ExecEnds, sandboxVars
<1>5. ASSUME NEW t \in touches, TouchLands(t) \/ TouchLost(t)
      PROVE  Ages
  BY <1>5 DEF TouchLands, TouchLost, sandboxVars
<1>6. ASSUME NEW r \in Reapers, SweepBegins(r) \/ RemoveFails(r) \/ SweepEnds(r) \/ ReaperRestarts(r)
      PROVE  Ages
  BY <1>6 DEF SweepBegins, RemoveFails, SweepEnds, ReaperRestarts, ForgetsSweep, sandboxVars
<1>7. ASSUME NEW r \in Reapers, NEW i \in Ids, Judge(r, i)
      PROVE  Ages
  BY <1>7 DEF Judge, Judges, sandboxVars
<1>8. ASSUME NEW r \in Reapers, Removes(r)
      PROVE  Ages
  BY <1>8 DEF Removes
<1> QED
  BY <1>1, <1>2, <1>3, <1>4, <1>5, <1>6, <1>7, <1>8 DEF Next, Sweep

-----------------------------------------------------------------------------
LEMMA TypeNext ==
  ASSUME Inv, Next
  PROVE  TypeOK'
<1> USE DEF Inv, TypeOK
<1>1. CASE Tick
  BY <1>1 DEF Tick, sandboxVars, sweepVars
<1>2. ASSUME NEW i \in Ids, NEW b \in Lifetimes, Create(i, b)
      PROVE  TypeOK'
  BY <1>2 DEF Create, sweepVars
<1>3. ASSUME NEW i \in Ids, Start(i) \/ Halt(i)
      PROVE  TypeOK'
  BY <1>3 DEF Start, Halt, sweepVars
<1>4. ASSUME NEW u \in Users, (\E i \in Ids : ExecBegins(u, i)) \/ ExecEnds(u)
      PROVE  TypeOK'
  BY <1>4 DEF ExecBegins, ExecEnds, sandboxVars, sweepVars
<1>5. ASSUME NEW t \in touches, TouchLands(t) \/ TouchLost(t)
      PROVE  TypeOK'
  BY <1>5 DEF TouchLands, TouchLost, sandboxVars, sweepVars
<1>6. ASSUME NEW r \in Reapers, SweepBegins(r)
      PROVE  TypeOK'
  BY <1>6 DEF SweepBegins, sandboxVars
<1>7. ASSUME NEW r \in Reapers, RemoveFails(r) \/ SweepEnds(r) \/ ReaperRestarts(r)
      PROVE  TypeOK'
  BY <1>7 DEF RemoveFails, SweepEnds, ReaperRestarts, ForgetsSweep, sandboxVars
<1>8. ASSUME NEW r \in Reapers, NEW i \in Ids, Judge(r, i)
      PROVE  TypeOK'
  BY <1>8 DEF Judge, Judges, sandboxVars
<1>9. ASSUME NEW r \in Reapers, Removes(r)
      PROVE  TypeOK'
  BY <1>9 DEF Removes
<1> QED
  BY <1>1, <1>2, <1>3, <1>4, <1>5, <1>6, <1>7, <1>8, <1>9 DEF Next, Sweep

\* Labels, timestamps and commands in progress.
SandboxesOK ==
  /\ \A i \in Ids : LabelsOK(i) /\ StampOK(i)
  /\ \A u \in Users : execOf[u] # Nil => Born(execOf[u])
  /\ \A t \in touches : TouchOK(t)

LEMMA SandboxesNext ==
  ASSUME Inv, Next
  PROVE  SandboxesOK'
<1> USE DEF Inv, TypeOK, SandboxesOK, LabelsOK, StampOK, TouchOK, Born
<1>1. CASE Tick
  BY <1>1 DEF Tick, sandboxVars
<1>2. ASSUME NEW i \in Ids, NEW b \in Lifetimes, Create(i, b)
      PROVE  SandboxesOK'
  BY <1>2 DEF Create
<1>3. ASSUME NEW i \in Ids, Start(i) \/ Halt(i)
      PROVE  SandboxesOK'
  BY <1>3 DEF Start, Halt
<1>4. ASSUME NEW u \in Users, (\E i \in Ids : ExecBegins(u, i)) \/ ExecEnds(u)
      PROVE  SandboxesOK'
  BY <1>4, LifetimeAssumption DEF ExecBegins, ExecEnds, sandboxVars
<1>5. ASSUME NEW t \in touches, TouchLands(t) \/ TouchLost(t)
      PROVE  SandboxesOK'
  BY <1>5 DEF TouchLands, TouchLost, sandboxVars
<1>6. ASSUME NEW r \in Reapers, SweepBegins(r) \/ RemoveFails(r) \/ SweepEnds(r) \/ ReaperRestarts(r)
      PROVE  SandboxesOK'
  <2>1. UNCHANGED <<now, sandboxVars, execOf, touches>>
    BY Zenon, <1>6 DEF SweepBegins, RemoveFails, SweepEnds, ReaperRestarts, ForgetsSweep
  <2> QED
    BY <2>1 DEF sandboxVars
<1>7. ASSUME NEW r \in Reapers, NEW i \in Ids, Judge(r, i)
      PROVE  SandboxesOK'
  BY <1>7 DEF Judge, Judges, sandboxVars
<1>8. ASSUME NEW r \in Reapers, Removes(r)
      PROVE  SandboxesOK'
  BY <1>8 DEF Removes, SweepOK
<1> QED
  BY <1>1, <1>2, <1>3, <1>4, <1>5, <1>6, <1>7, <1>8 DEF Next, Sweep

\* expired says yes only to a sandbox past a bound, counted from its creation.
LEMMA ExpiredOverdue ==
  ASSUME Inv, NEW r \in Reapers, NEW i \in Ids, Born(i),
         NEW reading, reading \in {lastUsed[i], Nil},
         PastMaxAge(i, sweepNow[r]) \/ PastIdle(i, sweepNow[r], reading)
  PROVE  ~Young(i)
<1>1. /\ createdAt[i] \in Nat /\ sweepNow[r] \in Nat /\ now \in Nat /\ sweepNow[r] <= now
      /\ bounds[i].maxAge \in Int /\ bounds[i].idle \in Int
  BY LifetimeAssumption DEF Inv, TypeOK, LabelsOK, SweepOK
<1>2. Since(i, reading) \in Nat /\ createdAt[i] <= Since(i, reading)
  BY <1>1 DEF Inv, TypeOK, StampOK, Since
<1>3. CASE PastMaxAge(i, sweepNow[r])
  BY <1>1, <1>3 DEF Young, PastMaxAge
<1>4. CASE PastIdle(i, sweepNow[r], reading)
  BY <1>1, <1>2, <1>4 DEF Young, PastIdle
<1> QED
  BY <1>3, <1>4

\* A reaper keeps the list, the clock reading and the victim of its sweep to itself.
LEMMA OtherSweeps ==
  ASSUME Inv, NEW q \in Reapers, NEW r \in Reapers, Sweep(r) \/ ReaperRestarts(r), r # q
  PROVE  /\ sweepNow'[q] = sweepNow[q] /\ listed'[q] = listed[q]
         /\ rpc'[q] = rpc[q] /\ victim'[q] = victim[q]
<1>1. CASE SweepBegins(r)
  BY <1>1 DEF SweepBegins, Inv, TypeOK
<1>2. CASE \E j \in Ids : Judge(r, j)
  BY <1>2 DEF Judge, Judges, Inv, TypeOK
<1>3. CASE Removes(r)
  BY <1>3 DEF Removes, Inv, TypeOK
<1>4. CASE RemoveFails(r)
  BY <1>4 DEF RemoveFails, Inv, TypeOK
<1>5. CASE SweepEnds(r)
  BY <1>5 DEF SweepEnds, ForgetsSweep, Inv, TypeOK
<1>6. CASE ReaperRestarts(r)
  BY <1>6 DEF ReaperRestarts, ForgetsSweep, Inv, TypeOK
<1> QED
  BY <1>1, <1>2, <1>3, <1>4, <1>5, <1>6 DEF Sweep

LEMMA SweepsNext ==
  ASSUME Inv, Next, NEW q \in Reapers
  PROVE  SweepOK(q)'
<1>1. Ages
  BY StepAges
<1>2. CASE UNCHANGED sweepVars
  BY <1>1, <1>2, SweepKept DEF sweepVars
<1>3. ASSUME NEW r \in Reapers, Sweep(r) \/ ReaperRestarts(r), r # q
      PROVE  SweepOK(q)'
  BY <1>1, <1>3, OtherSweeps, SweepKept
<1>4. CASE SweepBegins(q)
  BY <1>4 DEF SweepBegins, sandboxVars, SweepOK, Inv, TypeOK, Present, Born
<1>5. CASE SweepEnds(q) \/ ReaperRestarts(q)
  BY <1>1, <1>5 DEF SweepEnds, ReaperRestarts, ForgetsSweep, SweepOK, Inv, TypeOK, Ages
<1>6. CASE Removes(q) \/ RemoveFails(q)
  BY <1>1, <1>6 DEF Removes, RemoveFails, SweepOK, Inv, TypeOK, Ages
<1>7. ASSUME NEW i \in Ids, Judge(q, i)
      PROVE  SweepOK(q)'
  <2>1. PICK reading \in {lastUsed[i], Nil} :
          Judges(q, i, PastMaxAge(i, sweepNow[q]) \/ PastIdle(i, sweepNow[q], reading))
    BY <1>7 DEF Judge, Readings
  <2>2. Born(i) /\ rpc[q] = "judging"
    BY <1>7 DEF Judge, Inv, SweepOK
  <2>3. /\ sweepNow' = sweepNow /\ listed'[q] \subseteq listed[q] /\ UNCHANGED <<now, sandboxVars>>
    BY <2>1 DEF Judges, Inv, TypeOK
  <2>4. CASE PastMaxAge(i, sweepNow[q]) \/ PastIdle(i, sweepNow[q], reading)
    <3>1. rpc'[q] = "removing" /\ victim'[q] = i
      BY <2>1, <2>4 DEF Judges, Inv, TypeOK
    <3>2. ~Young(i)
      BY <2>2, <2>4, ExpiredOverdue
    <3> QED
      BY <2>2, <2>3, <3>1, <3>2 DEF SweepOK, Inv, Born, Young, sandboxVars
  <2>5. CASE ~(PastMaxAge(i, sweepNow[q]) \/ PastIdle(i, sweepNow[q], reading))
    BY <2>1, <2>2, <2>3, <2>5 DEF Judges, SweepOK, Inv, Born, sandboxVars
  <2> QED
    BY <2>4, <2>5
<1> QED
  BY <1>2, <1>3, <1>4, <1>5, <1>6, <1>7
     DEF Next, Sweep, Tick, Create, Start, Halt, ExecBegins, ExecEnds, TouchLands, TouchLost

LEMMA InvNext == Inv /\ [Next]_vars => Inv'
<1>1. ASSUME Inv, Next
      PROVE  Inv'
  BY <1>1, TypeNext, SandboxesNext, SweepsNext DEF Inv, SandboxesOK
<1>2. ASSUME Inv, UNCHANGED vars
      PROVE  Inv'
  BY <1>2 DEF Inv, TypeOK, LabelsOK, StampOK, TouchOK, SweepOK, Born, Young, vars, sandboxVars,
              sweepVars
<1> QED
  BY <1>1, <1>2

\* Every variable of Lifetime keeps its type.
THEOREM LifetimeTyped == Spec => []TypeOK
<1>1. Inv => TypeOK
  BY DEF Inv
<1> QED
  BY <1>1, InvInit, InvNext, PTL DEF Spec

\* No sweep removes a sandbox before one of its enabled bounds has run out.
THEOREM NoEarlyReap == Spec => ReapsOnlyOverdue
<1>1. Inv /\ [Next]_vars
        => [\A i \in Ids : Present(i) /\ state'[i] = "gone" => ~Young(i)]_vars
  <2> SUFFICES ASSUME Inv, Next, NEW i \in Ids, Present(i), state'[i] = "gone"
               PROVE  ~Young(i)
    OBVIOUS
  <2>1. PICK r \in Reapers : Removes(r)
    <3>1. state'[i] # state[i]
      BY DEF Present
    <3>2. CASE \E r \in Reapers : Sweep(r) \/ ReaperRestarts(r)
      BY <3>1, <3>2 DEF Sweep, SweepBegins, Judge, Judges, RemoveFails, SweepEnds, ReaperRestarts,
                        ForgetsSweep, sandboxVars
    <3>3. ASSUME NEW j \in Ids, (\E b \in Lifetimes : Create(j, b)) \/ Start(j) \/ Halt(j)
          PROVE  FALSE
      BY <3>1, <3>3 DEF Create, Start, Halt, Inv, TypeOK
    <3> QED
      BY <3>1, <3>2, <3>3 DEF Next, Tick, ExecBegins, ExecEnds, TouchLands, TouchLost, sandboxVars
  <2>2. victim[r] = i
    BY <2>1 DEF Removes, Present, Inv, TypeOK
  <2> QED
    BY <2>1, <2>2 DEF Removes, Inv, SweepOK
<1> QED
  BY <1>1, InvInit, InvNext, PTL DEF Spec, ReapsOnlyOverdue

-----------------------------------------------------------------------------
(* What a sweep achieves.                                                   *)

\* What a sweep has yet to deal with: every sandbox that was past its maximum
\* age when the sweep began is still on its list or about to be removed.
SweepMissesNone ==
  \A r \in Reapers, i \in Ids :
    rpc[r] # "waiting" /\ Present(i) /\ PastMaxAge(i, sweepNow[r])
      => i \in listed[r] \/ (rpc[r] = "removing" /\ victim[r] = i)

\* A sandbox that appears during a sweep is younger than the sweep.
LEMMA NewcomerYoung ==
  ASSUME Inv, NEW i \in Ids, NEW b \in Lifetimes, Create(i, b), NEW q \in Reapers
  PROVE  ~PastMaxAge(i, sweepNow[q])'
<1>1. createdAt'[i] = now /\ bounds'[i] = b /\ sweepNow' = sweepNow
  BY DEF Create, sweepVars, Inv, TypeOK
<1>2. now \in Nat /\ sweepNow[q] \in Nat /\ sweepNow[q] <= now /\ b.maxAge \in Int
  BY LifetimeAssumption DEF Inv, TypeOK, SweepOK
<1> QED
  BY <1>1, <1>2 DEF PastMaxAge

\* No other step adds one, or changes what a sweep goes by.
LEMMA StillPresent ==
  ASSUME Inv, Next, NEW i \in Ids, Present(i)', \A b \in Lifetimes : ~Create(i, b)
  PROVE  Present(i) /\ createdAt'[i] = createdAt[i] /\ bounds'[i] = bounds[i]
<1>1. Present(i)
  <2>1. CASE \E j \in Ids : (\E b \in Lifetimes : Create(j, b)) \/ Start(j) \/ Halt(j)
    BY <2>1 DEF Create, Start, Halt, Present, Inv, TypeOK
  <2>2. CASE \E r \in Reapers : Removes(r)
    BY <2>2 DEF Removes, Present, Inv, TypeOK
  <2>3. CASE UNCHANGED state
    BY <2>3 DEF Present
  <2> QED
    BY <2>1, <2>2, <2>3
       DEF Next, Sweep, Tick, ExecBegins, ExecEnds, TouchLands, TouchLost, SweepBegins, Judge,
           Judges, RemoveFails, SweepEnds, ReaperRestarts, ForgetsSweep, sandboxVars
<1>2. Born(i)
  BY <1>1 DEF Present, Born
<1> QED
  BY <1>1, <1>2, StepAges DEF Ages

LEMMA MissesNoneNext ==
  ASSUME Inv, SweepMissesNone, Next, "docker" \notin Faults
  PROVE  SweepMissesNone'
<1> SUFFICES ASSUME NEW q \in Reapers, NEW i \in Ids, rpc'[q] # "waiting", Present(i)',
                    PastMaxAge(i, sweepNow[q])'
             PROVE  i \in listed'[q] \/ (rpc'[q] = "removing" /\ victim'[q] = i)
  BY DEF SweepMissesNone
<1>1. /\ Present(i) /\ createdAt'[i] = createdAt[i] /\ bounds'[i] = bounds[i]
  BY NewcomerYoung, StillPresent
<1>2. ASSUME UNCHANGED <<rpc[q], sweepNow[q], listed[q], victim[q]>>
      PROVE  i \in listed'[q] \/ (rpc'[q] = "removing" /\ victim'[q] = i)
  BY <1>1, <1>2 DEF SweepMissesNone, PastMaxAge
<1>3. ASSUME NEW r \in Reapers, Sweep(r) \/ ReaperRestarts(r), r # q
      PROVE  UNCHANGED <<rpc[q], sweepNow[q], listed[q], victim[q]>>
  BY <1>3, OtherSweeps
<1>4. CASE SweepBegins(q)
  BY <1>1, <1>4 DEF SweepBegins, Inv, TypeOK
<1>5. CASE SweepEnds(q) \/ ReaperRestarts(q) \/ RemoveFails(q)
  BY <1>5 DEF SweepEnds, ReaperRestarts, RemoveFails, ForgetsSweep, Inv, TypeOK
<1>6. CASE Removes(q)
  <2>1. state'[victim[q]] = "gone" /\ listed' = listed /\ sweepNow' = sweepNow
    BY <1>6 DEF Removes, Inv, TypeOK, SweepOK
  <2>2. victim[q] # i
    BY <2>1 DEF Present
  <2> QED
    BY <1>1, <1>6, <2>1, <2>2 DEF Removes, SweepMissesNone, PastMaxAge
<1>7. ASSUME NEW j \in Ids, Judge(q, j)
      PROVE  i \in listed'[q] \/ (rpc'[q] = "removing" /\ victim'[q] = i)
  <2>1. PICK e \in BOOLEAN : Judges(q, j, e) /\ (PastMaxAge(j, sweepNow[q]) => e)
    BY <1>7 DEF Judge
  <2>2. PastMaxAge(i, sweepNow[q])
    BY <1>1, <2>1 DEF Judges, PastMaxAge
  <2>3. i \in listed[q]
    BY <1>1, <1>7, <2>2 DEF SweepMissesNone, Judge
  <2>4. CASE i # j
    BY <2>1, <2>3, <2>4 DEF Judges, Inv, TypeOK
  <2>5. CASE i = j
    BY <2>1, <2>2, <2>5 DEF Judges, Inv, TypeOK
  <2> QED
    BY <2>4, <2>5
<1> QED
  BY <1>2, <1>3, <1>4, <1>5, <1>6, <1>7
     DEF Next, Sweep, Tick, Create, Start, Halt, ExecBegins, ExecEnds, TouchLands, TouchLost,
         sweepVars

\* As long as Docker fails no removal, a sweep loses no overdue sandbox from
\* sight, whatever users, other reapers and restarts do beside it.
THEOREM SweepsMissNone ==
  ASSUME "docker" \notin Faults
  PROVE  Spec => []SweepMissesNone
<1>1. Init => SweepMissesNone
  BY DEF Init, SweepMissesNone
<1>2. Inv /\ SweepMissesNone /\ [Next]_vars => SweepMissesNone'
  <2>1. ASSUME SweepMissesNone, UNCHANGED vars
        PROVE  SweepMissesNone'
    BY <2>1 DEF SweepMissesNone, Present, PastMaxAge, vars, sandboxVars, sweepVars
  <2> QED
    BY <2>1, MissesNoneNext
<1> QED
  BY <1>1, <1>2, InvInit, InvNext, PTL DEF Spec

\* Reap's promise for the bound that must hold: when a sweep is over, no sandbox
\* is left that was past its maximum age when the sweep began.
THEOREM SweepsEndClean ==
  ASSUME "docker" \notin Faults
  PROVE  Spec => [][\A r \in Reapers, i \in Ids :
                      SweepEnds(r) /\ Present(i) => ~PastMaxAge(i, sweepNow[r])]_vars
<1>1. SweepMissesNone /\ [Next]_vars
        => [\A r \in Reapers, i \in Ids :
              SweepEnds(r) /\ Present(i) => ~PastMaxAge(i, sweepNow[r])]_vars
  BY DEF SweepMissesNone, SweepEnds
<1> QED
  BY <1>1, SweepsMissNone, PTL DEF Spec
=============================================================================
