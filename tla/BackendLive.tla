---------------------------- MODULE BackendLive -----------------------------
(***************************************************************************)
(* Backend with one history variable: for every call in progress, the       *)
(* containers that were not halted at some instant since it began.  It      *)
(* lets the promise of Create be stated against the whole duration of the   *)
(* call, which is all a caller of a concurrent API can hold it to.          *)
(***************************************************************************)
EXTENDS Backend

VARIABLE seen

liveVars == <<backendVars, seen>>

Alive(i) == status[i] \in {"created", "running"}

LiveInit == Init /\ seen = [c \in Callers |-> {}]

SeenGrows ==
  seen' = [c \in Callers |->
             IF pc'[c] = "idle" THEN {} ELSE seen[c] \cup {i \in Ids : Alive(i) \/ Alive(i)'}]

LiveNext == Next /\ SeenGrows

LiveSpec == LiveInit /\ [][LiveNext]_liveVars

\* The sandbox a successful Create hands back was not halted at some instant of
\* that call, however many other callers created, stopped, reaped or replaced
\* sandboxes of the same name meanwhile: a stale handle is never older than the call.
CreateReturnsLive ==
  \A c \in Callers :
    pc[c] = "done" /\ out[c] = "ok" /\ wantSpec[c] # Nil => sb[c] \in seen[c]
=============================================================================
