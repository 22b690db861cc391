------------------------------- MODULE Broker -------------------------------
(***************************************************************************)
(* internal/daemon: the handlers that create, look up, stop and destroy     *)
(* sandboxes, with the per-profile cap.  A caller of module Backend is here *)
(* one HTTP request goroutine, and a policy is a profile name, recorded in  *)
(* the label openbloxd.profile.  handleCreate calls Backend.Create step by  *)
(* step, so two requests interleave inside it.                              *)
(***************************************************************************)
EXTENDS Backend, Integers, FiniteSets

CONSTANT MaxSandboxes   \* profile -> cap; zero means unlimited

ASSUME CapAssumption ==
  /\ MaxSandboxes \in [Specs -> Nat]
  /\ IsFiniteSet(Callers) /\ IsFiniteSet(Ids)
  /\ Nil \notin Callers

VARIABLES
  mu,        \* the request that holds capacity.mu, or Nil
  pending,   \* capacity.pending
  slot       \* the request has a release to run when it returns

capVars == <<mu, pending, slot>>
vars == <<status, nameOf, specOf, pc, wantName, wantSpec, sb, out, cancelled, mu, pending, slot>>

BrokerSteps == {"check", "reserve", "count", "options", "respond"}
Responses   == {"created", "conflict", "atcapacity", "invalid", "failed"}

BrokerInit ==
  /\ Init
  /\ mu = Nil
  /\ pending = [p \in Specs |-> 0]
  /\ slot = [c \in Callers |-> FALSE]

\* The handler writes its response; deferred calls run after that.
Respond(c, r) ==
  /\ pc' = [pc EXCEPT ![c] = "respond"]
  /\ out' = [out EXCEPT ![c] = r]

-----------------------------------------------------------------------------
(***************************************************************************)
(* handleCreate.  A request that names no sandbox or an unknown profile is  *)
(* refused before anything is read, and changes nothing.                    *)
(***************************************************************************)
HandleCreate(c, n, p) == Begin(c, "check", n, p) /\ UNCHANGED capVars

\* Refuse an existing sandbox of another profile; a new name needs a slot.
CheckExisting(c) ==
  /\ pc[c] = "check"
  /\ \/ /\ Answered(c)
        /\ \E i \in Named(wantName[c]) : specOf[i] # wantSpec[c]
        /\ Respond(c, "conflict")
     \/ /\ Answered(c)
        /\ \E i \in Named(wantName[c]) : specOf[i] = wantSpec[c]
        /\ Goto(c, "options") /\ UNCHANGED out
     \/ /\ Answered(c)
        /\ Named(wantName[c]) = {}
        /\ Goto(c, "reserve") /\ UNCHANGED out
     \/ Refused(c) /\ Respond(c, "failed")
  /\ UNCHANGED <<dockerVars, callVars, sb, capVars>>

\* reserve: no slot is needed without a cap; otherwise take the lock.
Reserve(c) ==
  /\ pc[c] = "reserve"
  /\ \/ MaxSandboxes[wantSpec[c]] = 0 /\ Goto(c, "options") /\ UNCHANGED mu
     \/ MaxSandboxes[wantSpec[c]] > 0 /\ mu = Nil /\ mu' = c /\ Goto(c, "count")
  /\ UNCHANGED <<dockerVars, callVars, sb, out, cancelled, pending, slot>>

\* Mutant of Live: stopped sandboxes are not counted.
LiveRunning(p) == {i \in Listed : specOf[i] = p /\ status[i] = "running"}

\* countLive: stopped sandboxes count too.
Live(p) == {i \in Listed : specOf[i] = p}

\* Mutant of CountLive: the error path returns without unlocking.
CountLiveKeepsLock(c) ==
  LET p == wantSpec[c]
      full == Cardinality(Live(p)) + pending[p] >= MaxSandboxes[p]
  IN
  /\ pc[c] = "count"
  /\ \/ Answered(c) /\ full /\ mu' = Nil /\ Respond(c, "atcapacity") /\ UNCHANGED <<pending, slot>>
     \/ /\ Answered(c) /\ ~full
        /\ mu' = Nil
        /\ pending' = [pending EXCEPT ![p] = @ + 1]
        /\ slot' = [slot EXCEPT ![c] = TRUE]
        /\ Goto(c, "options") /\ UNCHANGED out
     \/ Refused(c) /\ Respond(c, "failed") /\ UNCHANGED <<mu, pending, slot>>
  /\ UNCHANGED <<dockerVars, callVars, sb>>

\* The List call and the decision, under the lock.  pending changes only under
\* the lock, so reading it at the instant of the List is what the code does.
CountLive(c) ==
  LET p == wantSpec[c]
      full == Cardinality(Live(p)) + pending[p] >= MaxSandboxes[p]
  IN
  /\ pc[c] = "count"
  /\ mu' = Nil
  /\ \/ Answered(c) /\ full /\ Respond(c, "atcapacity") /\ UNCHANGED <<pending, slot>>
     \/ /\ Answered(c) /\ ~full
        /\ pending' = [pending EXCEPT ![p] = @ + 1]
        /\ slot' = [slot EXCEPT ![c] = TRUE]
        /\ Goto(c, "options") /\ UNCHANGED out
     \/ Refused(c) /\ Respond(c, "failed") /\ UNCHANGED <<pending, slot>>
  /\ UNCHANGED <<dockerVars, callVars, sb>>

\* A request may carry the reserved label, and is refused only now.
Options(c) ==
  /\ pc[c] = "options"
  /\ \/ Goto(c, "open") /\ UNCHANGED out
     \/ Respond(c, "invalid")
  /\ UNCHANGED <<dockerVars, callVars, sb, cancelled, capVars>>

\* Mutant of Recheck: a sandbox lost on the way is asked for again.
RecheckRetries(c) ==
  /\ pc[c] = "done" /\ wantSpec[c] # Nil
  /\ IF out[c] = "notfound" THEN Goto(c, "check") /\ UNCHANGED out
     ELSE Respond(c, IF out[c] = "ok" THEN "created" ELSE "failed")
  /\ UNCHANGED <<dockerVars, callVars, sb, cancelled, capVars>>

\* Mutant of Recheck: what Backend.Create returned is taken at face value.
RecheckTrusts(c) ==
  /\ pc[c] = "done" /\ wantSpec[c] # Nil
  /\ Respond(c, IF out[c] = "ok" THEN "created" ELSE "failed")
  /\ UNCHANGED <<dockerVars, callVars, sb, cancelled, capVars>>

\* Backend.Create returned: check the profile of what it handed back.
Recheck(c) ==
  /\ pc[c] = "done" /\ wantSpec[c] # Nil
  /\ Respond(c, CASE out[c] # "ok"                 -> "failed"
                  [] specOf[sb[c]] # wantSpec[c]   -> "conflict"
                  [] OTHER                         -> "created")
  /\ UNCHANGED <<dockerVars, callVars, sb, cancelled, capVars>>

-----------------------------------------------------------------------------
\* handleGet, handleDestroy and handleStop pass the backend's answer on.
HandleGet(c, n)     == CallOpen(c, n) /\ UNCHANGED capVars
HandleDestroy(c, n) == CallDestroy(c, n) /\ UNCHANGED capVars
HandleStop(c, n)    == CallStop(c, n) /\ UNCHANGED capVars

\* The entry of a profile without reservations is deleted, and reads as zero.
Released(k) == IF k <= 1 THEN 0 ELSE k - 1

\* Mutant of HandlerReturns: release runs whether or not a slot was taken.
HandlerReleases(c) ==
  /\ pc[c] = "respond"
  /\ mu = Nil
  /\ pending' = [pending EXCEPT ![wantSpec[c]] = Released(@)]
  /\ slot' = [slot EXCEPT ![c] = FALSE]
  /\ Forget(c)
  /\ UNCHANGED mu

\* The handler returns: release, if deferred, then the request is over.
HandlerReturns(c) ==
  /\ pc[c] = "respond" \/ (pc[c] = "done" /\ wantSpec[c] = Nil)
  /\ slot[c] => mu = Nil
  /\ pending' = IF slot[c] THEN [pending EXCEPT ![wantSpec[c]] = Released(@)] ELSE pending
  /\ slot' = [slot EXCEPT ![c] = FALSE]
  /\ Forget(c)
  /\ UNCHANGED mu

CancelRequest(c) ==
  /\ "cancel" \in Faults
  /\ pc[c] \in CallSteps \cup BrokerSteps
  /\ cancelled' = [cancelled EXCEPT ![c] = TRUE]
  /\ UNCHANGED <<dockerVars, callVars, pc, sb, out, capVars>>

\* openbloxd dies: every request and the pending counts go, containers stay.
CrashDaemon ==
  /\ "crash" \in Faults
  /\ pc' = [c \in Callers |-> "idle"]
  /\ wantName' = [c \in Callers |-> Nil]
  /\ wantSpec' = [c \in Callers |-> Nil]
  /\ sb' = [c \in Callers |-> Nil]
  /\ out' = [c \in Callers |-> "none"]
  /\ cancelled' = [c \in Callers |-> FALSE]
  /\ mu' = Nil
  /\ pending' = [p \in Specs |-> 0]
  /\ slot' = [c \in Callers |-> FALSE]
  /\ UNCHANGED dockerVars

\* What a request in progress does next.
RequestStep(c) ==
  \/ CheckExisting(c) \/ Reserve(c) \/ CountLive(c) \/ Options(c) \/ Recheck(c)
  \/ HandlerReturns(c)
  \/ CallStep(c) /\ UNCHANGED capVars

BrokerNext ==
  \/ \E c \in Callers :
       \/ \E n \in Names : \/ \E p \in Specs : HandleCreate(c, n, p)
                           \/ HandleGet(c, n) \/ HandleDestroy(c, n) \/ HandleStop(c, n)
       \/ RequestStep(c) \/ CancelRequest(c)
  \/ Environment /\ UNCHANGED capVars
  \/ CrashDaemon

BrokerSpec == BrokerInit /\ [][BrokerNext]_vars

\* Goroutines run, Docker answers, and sync.Mutex starves no waiter (its
\* starvation mode hands the lock over in FIFO order), hence SF on taking it.
BrokerFairSpec ==
  /\ BrokerSpec
  /\ \A c \in Callers : WF_pc(RequestStep(c)) /\ SF_pc(Reserve(c) \/ HandlerReturns(c))

-----------------------------------------------------------------------------
(***************************************************************************)
(* Properties.                                                              *)
(***************************************************************************)

\* Every variable has its type.
BrokerTypeOK ==
  /\ DockerTypeOK
  /\ pc \in [Callers -> CallSteps \cup BrokerSteps \cup {"idle", "done"}]
  /\ wantName \in [Callers -> Names \cup {Nil}]
  /\ wantSpec \in [Callers -> Specs \cup {Nil}]
  /\ sb \in [Callers -> Ids \cup {Nil}]
  /\ out \in [Callers -> Outcomes \cup Responses]
  /\ cancelled \in [Callers -> BOOLEAN]
  /\ mu \in Callers \cup {Nil}
  /\ pending \in [Specs -> Nat]
  /\ slot \in [Callers -> BOOLEAN]

\* A 201 names a sandbox of the requested name created under the requested
\* profile, although Backend.Create hands back whatever a concurrent request
\* of another profile put there.
PolicyMatch ==
  \A c \in Callers :
    pc[c] = "respond" /\ out[c] = "created"
      => nameOf[sb[c]] = wantName[c] /\ specOf[sb[c]] = wantSpec[c]

Holders(p) == {c \in Callers : slot[c] /\ wantSpec[c] = p}

\* capacity.pending counts exactly the requests that still owe a release: no
\* error path, cancellation or crash leaks a slot or gives one back twice.
PendingExact == \A p \in Specs : pending[p] = Cardinality(Holders(p))

\* The sandboxes a profile holds, running or not.
Held(p) == {i \in Listed : specOf[i] = p}

\* The cap can be overshot by requests that found their sandbox and lost it
\* again, but never by more than the requests that run beside the admitted one.
CapOvershootBounded ==
  \A p \in Specs :
    MaxSandboxes[p] > 0
      => Cardinality(Held(p)) <= MaxSandboxes[p] + Cardinality(Callers) - 1

\* capacity.mu is held by the request at its List call and by no other: one that
\* is answered, refused, cancelled or killed there has let go of it.  So whoever
\* waits for the lock waits for a request that waits for nobody.
LockOwned == \A c \in Callers : mu = c <=> pc[c] = "count"

\* The order in which a request makes its calls.
Order ==
  [check |-> 1, reserve |-> 2, count |-> 3, options |-> 4, open |-> 5, halted |-> 6,
   replace |-> 7, prepare |-> 8, create |-> 9, start |-> 10, rollback |-> 11, reopen |-> 11,
   lookup |-> 11, destroy |-> 11, stopOpen |-> 10, stop |-> 11, done |-> 12, respond |-> 13,
   idle |-> 14]

\* A request only ever moves on: no call to Docker is made twice, no lost race
\* sends Create back to its start, and after at most 13 steps the handler is over.
RequestAdvances ==
  [][\A c \in Callers :
       pc[c] # "idle" /\ pc'[c] # pc[c] => Order[pc'[c]] > Order[pc[c]]]_vars

\* Every request is answered and its handler returns.
RequestsFinish == \A c \in Callers : pc[c] # "idle" ~> pc[c] = "idle"
=============================================================================
