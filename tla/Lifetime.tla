------------------------------ MODULE Lifetime ------------------------------
(***************************************************************************)
(* How long a sandbox lives: the labels that carry its bounds, the activity *)
(* timestamp every Exec leaves behind (pkg/docker/activity.go), and the     *)
(* sweep that reads both (pkg/docker/reap.go), run by any number of         *)
(* processes on a ticker (internal/daemon/reap.go).                         *)
(*                                                                         *)
(* The timestamp is written by a goroutine that outlives the Exec, so       *)
(* writes land late, out of order, or never.  A sweep lists the containers  *)
(* once, then judges and removes them one API call at a time.               *)
(***************************************************************************)
EXTENDS Integers

CONSTANTS
  Ids,         \* container IDs; Docker never reuses one
  Users,       \* concurrent Exec calls
  Reapers,     \* processes that call Reap
  Lifetimes,   \* the [idle, maxAge] bounds sandboxes are created with
  Nil,
  LastCreate,  \* sandboxes are created no later than this
  MaxTime,     \* the clock's bound
  Faults       \* subset of {"docker", "crash"}

ASSUME LifetimeAssumption ==
  /\ Lifetimes \subseteq [idle : Int, maxAge : Int]
  /\ LastCreate \in Nat /\ MaxTime \in Nat
  /\ Nil \notin Ids \cup Nat

VARIABLES
  now,        \* the host's clock
  state,      \* what List reports of each container
  createdAt,  \* label sh.openblox.created-at
  bounds,     \* labels sh.openblox.idle-timeout and sh.openblox.max-age
  lastUsed,   \* the file in the sandbox's root-owned tmpfs, or Nil
  execOf,     \* the sandbox each Exec in progress runs in, or Nil
  touches,    \* timestamps on their way into a sandbox
  rpc,        \* where each reaper is in its sweep
  sweepNow,   \* Reap's now
  listed,     \* the containers Reap has yet to judge
  upThen,     \* those that were running when Reap listed them
  victim      \* the one it is about to remove

sandboxVars == <<state, createdAt, bounds, lastUsed>>
sweepVars == <<rpc, sweepNow, listed, upThen, victim>>
vars == <<now, sandboxVars, execOf, touches, sweepVars>>

Present(i) == state[i] \in {"created", "running", "stopped"}

Init ==
  /\ now = 0
  /\ state = [i \in Ids |-> "unborn"]
  /\ createdAt = [i \in Ids |-> Nil]
  /\ bounds = [i \in Ids |-> Nil]
  /\ lastUsed = [i \in Ids |-> Nil]
  /\ execOf = [u \in Users |-> Nil]
  /\ touches = {}
  /\ rpc = [r \in Reapers |-> "waiting"]
  /\ sweepNow = [r \in Reapers |-> 0]
  /\ listed = [r \in Reapers |-> {}]
  /\ upThen = [r \in Reapers |-> {}]
  /\ victim = [r \in Reapers |-> Nil]

Tick ==
  /\ now < MaxTime
  /\ now' = now + 1
  /\ UNCHANGED <<sandboxVars, execOf, touches, sweepVars>>

-----------------------------------------------------------------------------
\* buildConfig writes the labels; nothing writes them again.
Create(i, b) ==
  /\ state[i] = "unborn" /\ now <= LastCreate
  /\ state' = [state EXCEPT ![i] = "created"]
  /\ createdAt' = [createdAt EXCEPT ![i] = now]
  /\ bounds' = [bounds EXCEPT ![i] = b]
  /\ UNCHANGED <<now, lastUsed, execOf, touches, sweepVars>>

\* The second half of Backend.Create; a failed one leaves the container as it is.
Start(i) ==
  /\ state[i] = "created"
  /\ state' = [state EXCEPT ![i] = "running"]
  /\ UNCHANGED <<now, createdAt, bounds, lastUsed, execOf, touches, sweepVars>>

\* Stop, or the guest ends PID 1: the tmpfs with the timestamp goes too.
Halt(i) ==
  /\ state[i] = "running"
  /\ state' = [state EXCEPT ![i] = "stopped"]
  /\ lastUsed' = [lastUsed EXCEPT ![i] = Nil]
  /\ UNCHANGED <<now, createdAt, bounds, execOf, touches, sweepVars>>

\* Exec: attach refuses a sandbox that is not running.
ExecBegins(u, i) ==
  /\ execOf[u] = Nil
  /\ state[i] = "running"
  /\ execOf' = [execOf EXCEPT ![u] = i]
  /\ UNCHANGED <<now, sandboxVars, touches, sweepVars>>

\* However it ended, Exec then calls touch, which stamps the host's clock.
ExecEnds(u) ==
  /\ execOf[u] # Nil
  /\ touches' = touches \cup {[id |-> execOf[u], at |-> now]}
  /\ execOf' = [execOf EXCEPT ![u] = Nil]
  /\ UNCHANGED <<now, sandboxVars, sweepVars>>

TouchLands(t) ==
  /\ state[t.id] = "running"
  /\ lastUsed' = [lastUsed EXCEPT ![t.id] = t.at]
  /\ touches' = touches \ {t}
  /\ UNCHANGED <<now, state, createdAt, bounds, execOf, sweepVars>>

\* The bookkeeping exec failed or ran into touchTimeout; nobody is told.
TouchLost(t) ==
  /\ touches' = touches \ {t}
  /\ UNCHANGED <<now, sandboxVars, execOf, sweepVars>>

-----------------------------------------------------------------------------
\* RunReaper's ticker fires and Reap lists the sandboxes.
SweepBegins(r) ==
  /\ rpc[r] = "waiting"
  /\ rpc' = [rpc EXCEPT ![r] = "judging"]
  /\ sweepNow' = [sweepNow EXCEPT ![r] = now]
  /\ listed' = [listed EXCEPT ![r] = {i \in Ids : Present(i)}]
  /\ upThen' = [upThen EXCEPT ![r] = {i \in Ids : state[i] = "running"}]
  /\ UNCHANGED <<now, sandboxVars, execOf, touches, victim>>

PastMaxAge(i, t) == bounds[i].maxAge > 0 /\ t - createdAt[i] > bounds[i].maxAge

\* What lastUsedOf can return: the timestamp, or zero if there is none, if the
\* sandbox stopped or went meanwhile, or if the bookkeeping exec fails.
Readings(i) == IF state[i] = "running" THEN {lastUsed[i], Nil} ELSE {Nil}

Since(i, reading) == IF reading = Nil THEN createdAt[i] ELSE reading

\* Mutant of PastIdle: a disabled bound is taken for a very short one.
PastIdleAlways(i, t, reading) == t - Since(i, reading) > bounds[i].idle

PastIdle(i, t, reading) == bounds[i].idle > 0 /\ t - Since(i, reading) > bounds[i].idle

Judges(r, i, expired) ==
  /\ listed' = [listed EXCEPT ![r] = @ \ {i}]
  /\ IF expired
     THEN /\ rpc' = [rpc EXCEPT ![r] = "removing"]
          /\ victim' = [victim EXCEPT ![r] = i]
     ELSE UNCHANGED <<rpc, victim>>
  /\ UNCHANGED <<now, sandboxVars, execOf, touches, sweepNow, upThen>>

\* expired: a sandbox listed as running is asked for its timestamp, now.
Judge(r, i) ==
  /\ rpc[r] = "judging" /\ i \in listed[r]
  /\ \E reading \in IF i \in upThen[r] THEN Readings(i) ELSE {Nil} :
       Judges(r, i, PastMaxAge(i, sweepNow[r]) \/ PastIdle(i, sweepNow[r], reading))

\* ContainerRemove by ID; another reaper having been first is not a failure.
Removes(r) ==
  /\ rpc[r] = "removing"
  /\ state' = [state EXCEPT ![victim[r]] = "gone"]
  /\ rpc' = [rpc EXCEPT ![r] = "judging"]
  /\ victim' = [victim EXCEPT ![r] = Nil]
  /\ UNCHANGED <<now, createdAt, bounds, lastUsed, execOf, touches, sweepNow, listed, upThen>>

\* Mutant of RemoveFails: the first error ends the reaper for good.
RemoveFailsFatally(r) ==
  /\ "docker" \in Faults
  /\ rpc[r] = "removing"
  /\ rpc' = [rpc EXCEPT ![r] = "stopped"]
  /\ UNCHANGED <<now, sandboxVars, execOf, touches, sweepNow, listed, upThen, victim>>

\* Docker fails the removal: Reap goes on with the rest.
RemoveFails(r) ==
  /\ "docker" \in Faults
  /\ rpc[r] = "removing"
  /\ rpc' = [rpc EXCEPT ![r] = "judging"]
  /\ victim' = [victim EXCEPT ![r] = Nil]
  /\ UNCHANGED <<now, sandboxVars, execOf, touches, sweepNow, listed, upThen>>

\* Reap's local variables are gone, and the reaper waits for its ticker.
ForgetsSweep(r) ==
  /\ rpc' = [rpc EXCEPT ![r] = "waiting"]
  /\ sweepNow' = [sweepNow EXCEPT ![r] = 0]
  /\ listed' = [listed EXCEPT ![r] = {}]
  /\ upThen' = [upThen EXCEPT ![r] = {}]
  /\ victim' = [victim EXCEPT ![r] = Nil]
  /\ UNCHANGED <<now, sandboxVars, execOf, touches>>

SweepEnds(r) == rpc[r] = "judging" /\ listed[r] = {} /\ ForgetsSweep(r)

\* The process dies mid-sweep; its successor has only the labels to go by.
ReaperRestarts(r) == "crash" \in Faults /\ rpc[r] # "waiting" /\ ForgetsSweep(r)

Sweep(r) ==
  \/ SweepBegins(r) \/ (\E i \in Ids : Judge(r, i)) \/ Removes(r) \/ RemoveFails(r) \/ SweepEnds(r)

Next ==
  \/ Tick
  \/ \E i \in Ids : (\E b \in Lifetimes : Create(i, b)) \/ Start(i) \/ Halt(i)
  \/ \E u \in Users : (\E i \in Ids : ExecBegins(u, i)) \/ ExecEnds(u)
  \/ \E t \in touches : TouchLands(t) \/ TouchLost(t)
  \/ \E r \in Reapers : Sweep(r) \/ ReaperRestarts(r)

Spec == Init /\ [][Next]_vars

\* Time passes, tickers fire and sweeps make progress; the process does not die
\* in every sweep, and Docker does not fail the same removal for ever.
FairSpec ==
  /\ Spec
  /\ WF_now(Tick)
  /\ \A r \in Reapers : WF_sweepVars(Sweep(r))
  /\ \A r \in Reapers, i \in Ids : SF_sweepVars(Judge(r, i)) /\ SF_sweepVars(victim[r] = i /\ Removes(r))

-----------------------------------------------------------------------------
(***************************************************************************)
(* Properties.                                                              *)
(***************************************************************************)

\* Every variable has its type.
TypeOK ==
  /\ now \in Nat
  /\ state \in [Ids -> {"unborn", "created", "running", "stopped", "gone"}]
  /\ createdAt \in [Ids -> Nat \cup {Nil}]
  /\ bounds \in [Ids -> Lifetimes \cup {Nil}]
  /\ lastUsed \in [Ids -> Nat \cup {Nil}]
  /\ execOf \in [Users -> Ids \cup {Nil}]
  /\ touches \subseteq [id : Ids, at : Nat]
  /\ rpc \in [Reapers -> {"waiting", "judging", "removing"}]
  /\ sweepNow \in [Reapers -> Nat]
  /\ listed \in [Reapers -> SUBSET Ids]
  /\ upThen \in [Reapers -> SUBSET Ids]
  /\ victim \in [Reapers -> Ids \cup {Nil}]

\* A sandbox that has existed for less than its shortest enabled bound.
Young(i) ==
  /\ bounds[i].maxAge > 0 => now - createdAt[i] <= bounds[i].maxAge
  /\ bounds[i].idle > 0 => now - createdAt[i] <= bounds[i].idle

\* Reap removes no sandbox before one of its enabled bounds has run out since
\* it was created, however stale the sweep's list and clock are and whichever
\* timestamps are lost, late, out of order or unreadable.
ReapsOnlyOverdue ==
  [][\A i \in Ids : Present(i) /\ state'[i] = "gone" => ~Young(i)]_vars

\* "Max age is therefore the bound that must hold unconditionally": every
\* sandbox with one is removed, though removals fail and guests stay busy.
MaxAgeEnforced ==
  \A i \in Ids : Present(i) /\ bounds[i].maxAge > 0 ~> state[i] = "gone"
=============================================================================
