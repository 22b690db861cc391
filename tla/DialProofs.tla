----------------------------- MODULE DialProofs -----------------------------
(***************************************************************************)
(* Proofs about Daemon and Dial: their types, how the daemon ends, and that *)
(* a dialled stream loses nothing, outlives its handshake and has a relay.  *)
(***************************************************************************)
EXTENDS Dial, TLAPS

\* First-order steps go to Zenon; a step that counts or takes a sequence apart
\* cites SMT.
USE Zenon

-----------------------------------------------------------------------------
(* The daemon.                                                              *)

\* The socket is this process's from its bind to its close.
SocketInv ==
  /\ bound => path = "socket" /\ "unix" \in Listeners
  /\ "unix" \in open => bound
  /\ bound /\ main # "listening" => "unix" \in open
  /\ "unix" \in Listeners /\ ~bound /\ main \in {"serving", "shutdown"} => path = "nothing"

\* A goroutine that has returned has closed its listener, and shutdown has closed
\* those of the others that the server knew.
ServeInv ==
  /\ main = "listening" => \A l \in Listeners : srv[l] = "starting"
  /\ main \in {"listening", "serving", "shutdown"} => err = "nil"
  /\ main # "listening" => \A l \in open : srv[l] \in {"starting", "serving"}
  /\ main = "shutdown" => \A l \in open : srv[l] = "starting"

\* The inductive invariant of the daemon.
DaemonInv == DaemonTypeOK /\ SocketInv /\ ServeInv /\ ExitsUnlinked /\ FailureReported

LEMMA DaemonStarts == DaemonInit => DaemonInv
<1> SUFFICES ASSUME DaemonInit PROVE DaemonInv
  OBVIOUS
<1>1. DaemonTypeOK
  BY DEF DaemonInit, DaemonTypeOK
<1>2. SocketInv /\ ServeInv /\ ExitsUnlinked /\ FailureReported
  BY DEF DaemonInit, SocketInv, ServeInv, ExitsUnlinked, FailureReported
<1>3. QED
  BY <1>1, <1>2 DEF DaemonInv

LEMMA DaemonStep == DaemonInv /\ (DaemonNext \/ Crash \/ UNCHANGED serveVars) => DaemonInv'
<1> SUFFICES ASSUME DaemonInv, DaemonNext \/ Crash \/ UNCHANGED serveVars PROVE DaemonInv'
  OBVIOUS
<1> USE DEF DaemonInv, Running, Close, Exit, Tracked
<1>1. CASE ListenClears
  BY <1>1 DEF ListenClears, DaemonTypeOK, SocketInv, ServeInv, ExitsUnlinked, FailureReported
<1>2. CASE ListenBinds
  BY <1>2 DEF ListenBinds, DaemonTypeOK, SocketInv, ServeInv, ExitsUnlinked, FailureReported
<1>3. CASE ListenLocksDown
  BY <1>3 DEF ListenLocksDown, DaemonTypeOK, SocketInv, ServeInv, ExitsUnlinked, FailureReported
<1>4. CASE ListenTLS
  BY <1>4 DEF ListenTLS, DaemonTypeOK, SocketInv, ServeInv, ExitsUnlinked, FailureReported
<1>5. CASE ListenFails
  BY <1>5, DaemonConstants DEF ListenFails, DaemonTypeOK, SocketInv, ServeInv, ExitsUnlinked, FailureReported
<1>6. CASE ServeStarts
  BY <1>6 DEF ServeStarts, DaemonTypeOK, SocketInv, ServeInv, ExitsUnlinked, FailureReported
<1>7. ASSUME NEW l \in Listeners, ServeTracks(l) PROVE DaemonInv'
  BY <1>7 DEF ServeTracks, DaemonTypeOK, SocketInv, ServeInv, ExitsUnlinked, FailureReported
<1>8. CASE Signal
  BY <1>8 DEF Signal, DaemonTypeOK, SocketInv, ServeInv, ExitsUnlinked, FailureReported
<1>9. ASSUME NEW l \in Listeners, ListenerFails(l) PROVE DaemonInv'
  BY <1>9 DEF ListenerFails, DaemonTypeOK, SocketInv, ServeInv, ExitsUnlinked, FailureReported
<1>10. ASSUME NEW l \in Listeners, ServeCloses(l) PROVE DaemonInv'
  BY <1>10 DEF ServeCloses, DaemonTypeOK, SocketInv, ServeInv, ExitsUnlinked, FailureReported
<1>11. CASE ServeFails
  BY <1>11 DEF ServeFails, DaemonTypeOK, SocketInv, ServeInv, ExitsUnlinked, FailureReported
<1>12. CASE ShutdownBegins
  BY <1>12 DEF ShutdownBegins, DaemonTypeOK, SocketInv, ServeInv, ExitsUnlinked, FailureReported
<1>13. CASE ServeReturns
  BY <1>13 DEF ServeReturns, DaemonTypeOK, SocketInv, ServeInv, ExitsUnlinked, FailureReported
<1>14. CASE Crash
  BY <1>14 DEF Crash, DaemonTypeOK, SocketInv, ServeInv, ExitsUnlinked, FailureReported
<1>15. CASE UNCHANGED serveVars
  BY <1>15 DEF serveVars, DaemonTypeOK, SocketInv, ServeInv, ExitsUnlinked, FailureReported
<1>16. QED
  BY <1>1, <1>2, <1>3, <1>4, <1>5, <1>6, <1>7, <1>8, <1>9, <1>10, <1>11, <1>12,
     <1>13, <1>14, <1>15 DEF DaemonNext, Listening, Serve, Happens

-----------------------------------------------------------------------------
(* The streams.  Their invariant has four parts, each with the types of the *)
(* variables it speaks of.                                                  *)

\* What a caller sends is written or still held, and the copy to the sandbox ends
\* with everything written unless one of the two ends is gone.
UpInv(k) ==
  /\ sent[k] = got[k] + buf[k]
  /\ closed[k] => ~up[k] \/ client[k] = "gone"
  /\ half[k] => ~up[k] \/ client[k] = "gone" \/ (client[k] = "eof" /\ buf[k] = 0)

UpType ==
  /\ client \in [Streams -> {"open", "eof", "gone"}]
  /\ sent \in [Streams -> 0..MaxSent]
  /\ buf \in [Streams -> 0..MaxSent]
  /\ got \in [Streams -> 0..MaxSent]
  /\ up \in [Streams -> BOOLEAN]
  /\ half \in [Streams -> BOOLEAN]
  /\ closed \in [Streams -> BOOLEAN]

\* What a sandbox sends is somewhere on its way, until the caller's end is closed or
\* the stream is cut.
DownInv(k) ==
  /\ client[k] # "gone" => out[k] + wire[k] + ahead[k] + read[k] <= made[k]
  /\ client[k] # "gone" /\ ~cut[k] => made[k] = out[k] + wire[k] + ahead[k] + read[k]
  /\ out[k] <= made[k] /\ read[k] <= made[k] /\ wire[k] <= 1
  /\ closed[k] /\ client[k] # "gone" => out[k] = 0 /\ ~up[k]
  /\ eof[k] /\ ~cut[k] => read[k] = made[k] /\ ~up[k]
  /\ dial[k] \in {"dial", "write", "read"} => ahead[k] = 0

DownType ==
  /\ dial \in [Streams -> {"dial", "write", "read", "release", "clear", "owned", "failed"}]
  /\ client \in [Streams -> {"open", "eof", "gone"}]
  /\ made \in [Streams -> 0..MaxMade]
  /\ out \in [Streams -> 0..MaxMade]
  /\ wire \in [Streams -> 0..MaxMade]
  /\ ahead \in [Streams -> 0..MaxMade]
  /\ read \in [Streams -> 0..MaxMade]
  /\ eof \in [Streams -> BOOLEAN]
  /\ cut \in [Streams -> BOOLEAN]
  /\ closed \in [Streams -> BOOLEAN]
  /\ up \in [Streams -> BOOLEAN]

\* The hook fires only when the context has ended, and not after its release.
HookInv(k) ==
  /\ hook[k] \in {"fired", "ran"} => ~ctx[k]
  /\ dial[k] \in {"clear", "owned"} =>
       hook[k] # "armed" /\ (hook[k] \in {"fired", "ran"} => early[k])
  /\ dial[k] = "owned" => deadline[k] = "none"

HookType ==
  /\ dial \in [Streams -> {"dial", "write", "read", "release", "clear", "owned", "failed"}]
  /\ hook \in [Streams -> {"none", "armed", "stopped", "fired", "ran"}]
  /\ deadline \in [Streams -> {"none", "armed", "passed"}]
  /\ ctx \in [Streams -> BOOLEAN]
  /\ early \in [Streams -> BOOLEAN]

\* The answer says where the handler is, its goroutines run only while it relays,
\* and the one that copies to the caller closes the caller's end as it goes.
RelayInv(k) ==
  /\ answer[k] = "101" => handler[k] \in {"relaying", "returned"}
  /\ handler[k] = "relaying" => answer[k] = "101" /\ (downCopy[k] \/ closed[k])
  /\ upCopy[k] \/ downCopy[k] => handler[k] = "relaying"
  /\ handler[k] = "returned" /\ answer[k] = "101" => ~up[k] /\ closed[k]
  /\ dial[k] \in {"release", "clear", "owned"} /\ client[k] # "gone" => answer[k] = "101"

RelayType ==
  /\ dial \in [Streams -> {"dial", "write", "read", "release", "clear", "owned", "failed"}]
  /\ client \in [Streams -> {"open", "eof", "gone"}]
  /\ answer \in [Streams -> {"none", "101", "refused"}]
  /\ handler \in [Streams -> {"none", "dialling", "relaying", "returned"}]
  /\ up \in [Streams -> BOOLEAN]
  /\ closed \in [Streams -> BOOLEAN]
  /\ upCopy \in [Streams -> BOOLEAN]
  /\ downCopy \in [Streams -> BOOLEAN]

UpPart   == UpType /\ \A k \in Streams : UpInv(k)
DownPart == DownType /\ \A k \in Streams : DownInv(k)
HookPart == HookType /\ \A k \in Streams : HookInv(k)
RelayPart == RelayType /\ \A k \in Streams : RelayInv(k)

\* The inductive invariant of the streams.
StreamInv == UpPart /\ DownPart /\ HookPart /\ RelayPart

LEMMA StreamsStart == Init => StreamInv
<1> SUFFICES ASSUME Init PROVE StreamInv
  OBVIOUS
<1>1. UpPart BY SMT, DialConstants DEF Init, UpPart, UpType, UpInv
<1>2. DownPart BY SMT, DialConstants DEF Init, DownPart, DownType, DownInv
<1>3. HookPart BY DEF Init, HookPart, HookType, HookInv
<1>4. RelayPart BY DEF Init, RelayPart, RelayType, RelayInv
<1>5. QED BY <1>1, <1>2, <1>3, <1>4 DEF StreamInv

\* A part stays as it is when its variables do.
LEMMA UpAlone == ASSUME UpPart, UNCHANGED <<client, sent, buf, got, up, half, closed>> PROVE UpPart'
BY DEF UpPart, UpType, UpInv

LEMMA DownAlone == ASSUME DownPart, UNCHANGED <<dial, client, made, out, wire, ahead, read, eof, cut, closed, up>> PROVE DownPart'
BY DEF DownPart, DownType, DownInv

LEMMA HookAlone == ASSUME HookPart, UNCHANGED <<dial, hook, deadline, ctx, early>> PROVE HookPart'
BY DEF HookPart, HookType, HookInv

LEMMA RelayAlone ==
  ASSUME RelayPart, UNCHANGED <<dial, client, answer, handler, up, closed, upCopy, downCopy>>
  PROVE  RelayPart'
BY DEF RelayPart, RelayType, RelayInv

\* Every step of a stream keeps the invariant: one lemma for each.
LEMMA DialsStep == ASSUME StreamInv, NEW k \in Streams, Dials(k) PROVE StreamInv'
<1> USE DEF StreamInv, Dials, Set, dialVars, inVars, outVars
<1>1. UpPart' BY DialConstants DEF UpPart, UpType, UpInv
<1>2. DownPart' BY DialConstants DEF DownPart, DownType, DownInv
<1>3. HookPart' BY SMT DEF HookPart, HookType, HookInv
<1>4. RelayPart' BY SMT DEF RelayPart, RelayType, RelayInv
<1>5. QED BY <1>1, <1>2, <1>3, <1>4

LEMMA WritesRequestStep == ASSUME StreamInv, NEW k \in Streams, WritesRequest(k) PROVE StreamInv'
<1> USE DEF StreamInv, WritesRequest, DialGivesUp, Leave, Set, dialVars, inVars, outVars
<1>1. UpPart' BY DialConstants DEF UpPart, UpType, UpInv
<1>2. DownPart'
  <2>1. DownType /\ \A j \in Streams : DownInv(j) BY DEF DownPart
  <2>2. DownType'
    <3>1. 0 \in 0..MaxMade BY SMT, DialConstants
    <3>2. CASE Broken(k)
      <4>1. dial' = [dial EXCEPT ![k] = "failed"] /\ client' = [client EXCEPT ![k] = "gone"] BY <3>2
      <4>2. wire' = [wire EXCEPT ![k] = 0] /\ ahead' = [ahead EXCEPT ![k] = 0] BY <3>2
      <4>3. UNCHANGED <<made, out, read, eof, cut, closed, up>> BY <3>2
      <4> HIDE DEF WritesRequest, DialGivesUp
      <4>4. QED BY <2>1, <3>1, <4>1, <4>2, <4>3 DEF DownType
    <3>3. CASE ~Broken(k) BY <2>1, <3>3 DEF DownType
    <3>4. QED BY <3>2, <3>3
  <2>3. ASSUME NEW j \in Streams PROVE DownInv(j)'
    <3>1. CASE j = k BY SMT, DialConstants, <2>1, <3>1 DEF DownType, DownInv
    <3>2. CASE j # k BY SMT, DialConstants, <2>1, <3>2 DEF DownType, DownInv
    <3>3. QED BY <3>1, <3>2
  <2>4. QED BY <2>2, <2>3 DEF DownPart
<1>3. HookPart' BY SMT DEF HookPart, HookType, HookInv
<1>4. RelayPart' BY SMT DEF RelayPart, RelayType, RelayInv
<1>5. QED BY <1>1, <1>2, <1>3, <1>4

LEMMA ReadsResponseStep == ASSUME StreamInv, NEW k \in Streams, ReadsResponse(k) PROVE StreamInv'
<1> USE DEF StreamInv, ReadsResponse, Broken, Set, dialVars, inVars, outVars
<1>1. UpPart' BY UpAlone
<1>2. DownPart' BY SMT, DialConstants DEF DownPart, DownType, DownInv
<1>3. HookPart' BY DEF HookPart, HookType, HookInv
<1>4. RelayPart' BY DEF RelayPart, RelayType, RelayInv
<1>5. QED BY <1>1, <1>2, <1>3, <1>4

LEMMA ResponseFailsStep == ASSUME StreamInv, NEW k \in Streams, ResponseFails(k) PROVE StreamInv'
<1> USE DEF StreamInv, ResponseFails, DialGivesUp, Leave, Set, dialVars, inVars, outVars
<1>1. UpPart' BY DialConstants DEF UpPart, UpType, UpInv
<1>2. DownPart' BY SMT, DialConstants DEF DownPart, DownType, DownInv
<1>3. HookPart' BY DEF HookPart, HookType, HookInv
<1>4. RelayPart' BY DEF RelayPart, RelayType, RelayInv
<1>5. QED BY <1>1, <1>2, <1>3, <1>4

LEMMA ReleasesHookStep == ASSUME StreamInv, NEW k \in Streams, ReleasesHook(k) PROVE StreamInv'
<1> USE DEF StreamInv, ReleasesHook, Set, dialVars, inVars, outVars
<1>1. UpPart' BY UpAlone
<1>2. DownPart' BY DialConstants DEF DownPart, DownType, DownInv
<1>3. HookPart' BY DEF HookPart, HookType, HookInv
<1>4. RelayPart' BY DEF RelayPart, RelayType, RelayInv
<1>5. QED BY <1>1, <1>2, <1>3, <1>4

LEMMA ClearsDeadlineStep == ASSUME StreamInv, NEW k \in Streams, ClearsDeadline(k) PROVE StreamInv'
<1> USE DEF StreamInv, ClearsDeadline, Set, dialVars, inVars, outVars
<1>1. UpPart' BY UpAlone
<1>2. DownPart' BY DialConstants DEF DownPart, DownType, DownInv
<1>3. HookPart' BY DEF HookPart, HookType, HookInv
<1>4. RelayPart' BY DEF RelayPart, RelayType, RelayInv
<1>5. QED BY <1>1, <1>2, <1>3, <1>4

LEMMA ContextEndsStep == ASSUME StreamInv, NEW k \in Streams, ContextEnds(k) PROVE StreamInv'
<1> USE DEF StreamInv, ContextEnds, Set, dialVars, inVars, outVars
<1>1. UpPart' BY UpAlone
<1>2. DownPart' BY DownAlone
<1>3. HookPart' BY DEF HookPart, HookType, HookInv
<1>4. RelayPart' BY RelayAlone
<1>5. QED BY <1>1, <1>2, <1>3, <1>4

LEMMA HookRunsStep == ASSUME StreamInv, NEW k \in Streams, HookRuns(k) PROVE StreamInv'
<1> USE DEF StreamInv, HookRuns, Leave, Set, dialVars, inVars, outVars
<1>1. UpPart' BY DialConstants DEF UpPart, UpType, UpInv
<1>2. DownPart' BY SMT, DialConstants DEF DownPart, DownType, DownInv
<1>3. HookPart' BY DEF HookPart, HookType, HookInv
<1>4. RelayPart' BY DEF RelayPart, RelayType, RelayInv
<1>5. QED BY <1>1, <1>2, <1>3, <1>4

LEMMA HandleDialStep == ASSUME StreamInv, NEW k \in Streams, HandleDial(k) PROVE StreamInv'
<1> USE DEF StreamInv, HandleDial, Set, dialVars, inVars, outVars
<1>1. UpPart' BY UpAlone
<1>2. DownPart' BY DownAlone
<1>3. HookPart' BY HookAlone
<1>4. RelayPart' BY DEF RelayPart, RelayType, RelayInv
<1>5. QED BY <1>1, <1>2, <1>3, <1>4

LEMMA DialFailsStep == ASSUME StreamInv, NEW k \in Streams, DialFails(k) PROVE StreamInv'
<1> USE DEF StreamInv, DialFails, Set, dialVars, inVars, outVars
<1>1. UpPart' BY UpAlone
<1>2. DownPart' BY DownAlone
<1>3. HookPart' BY HookAlone
<1>4. RelayPart' BY SMT DEF RelayPart, RelayType, RelayInv
<1>5. QED BY <1>1, <1>2, <1>3, <1>4

LEMMA HijackStep == ASSUME StreamInv, NEW k \in Streams, Hijack(k) PROVE StreamInv'
<1> USE DEF StreamInv, Hijack, StartRelay, Set, dialVars, inVars, outVars
<1>1. UpPart' BY UpAlone
<1>2. DownPart' BY DownAlone
<1>3. HookPart' BY HookAlone
<1>4. RelayPart' BY DEF RelayPart, RelayType, RelayInv
<1>5. QED BY <1>1, <1>2, <1>3, <1>4

\* A byte is handed up, whatever else the step does.
LEMMA MovesUp ==
  ASSUME UpPart, NEW k \in Streams, buf[k] > 0,
         buf' = [buf EXCEPT ![k] = buf[k] - 1], got' = [got EXCEPT ![k] = got[k] + 1],
         UNCHANGED <<client, sent, up, half, closed>>
  PROVE  UpPart'
<1>1. UpType /\ \A j \in Streams : UpInv(j) BY DEF UpPart
<1>2. buf[k] \in 0..MaxSent /\ got[k] \in 0..MaxSent /\ sent[k] \in 0..MaxSent BY <1>1 DEF UpType
<1>3. sent[k] = got[k] + buf[k] BY <1>1 DEF UpInv
<1>4. buf[k] - 1 \in 0..MaxSent /\ got[k] + 1 \in 0..MaxSent
  BY SMT, <1>2, <1>3, DialConstants
<1>5. UpType' BY <1>1, <1>4 DEF UpType
<1>6. ASSUME NEW j \in Streams PROVE UpInv(j)'
  <2>1. UpInv(j) BY <1>1
  <2>2. CASE j # k BY <1>1, <2>1, <2>2 DEF UpInv, UpType
  <2>3. CASE j = k BY SMT, <1>1, <1>2, <2>1, <2>3, DialConstants DEF UpInv, UpType
  <2>4. QED BY <2>2, <2>3
<1>7. QED BY <1>5, <1>6 DEF UpPart

LEMMA CopiesUpStep == ASSUME StreamInv, NEW k \in Streams, CopiesUp(k) PROVE StreamInv'
<1> USE DEF StreamInv, CopiesUp, Set, dialVars, inVars, outVars
<1>1. UpPart' BY MovesUp
<1>2. DownPart' BY DownAlone
<1>3. HookPart' BY HookAlone
<1>4. RelayPart' BY RelayAlone
<1>5. QED BY <1>1, <1>2, <1>3, <1>4

LEMMA UpCopyEndsStep == ASSUME StreamInv, NEW k \in Streams, UpCopyEnds(k) PROVE StreamInv'
<1> USE DEF StreamInv, UpCopyEnds, Set, dialVars, inVars, outVars
<1>1. UpPart' BY DialConstants DEF UpPart, UpType, UpInv
<1>2. DownPart' BY DownAlone
<1>3. HookPart' BY HookAlone
<1>4. RelayPart' BY DEF RelayPart, RelayType, RelayInv
<1>5. QED BY <1>1, <1>2, <1>3, <1>4

LEMMA CopiesDownStep == ASSUME StreamInv, NEW k \in Streams, CopiesDown(k) PROVE StreamInv'
<1> USE DEF StreamInv, CopiesDown, Set, dialVars, inVars, outVars
<1>1. UpPart' BY UpAlone
<1>2. DownPart' BY SMT, DialConstants DEF DownPart, DownType, DownInv
<1>3. HookPart' BY HookAlone
<1>4. RelayPart' BY RelayAlone
<1>5. QED BY <1>1, <1>2, <1>3, <1>4

LEMMA DownCopyEndsStep == ASSUME StreamInv, NEW k \in Streams, DownCopyEnds(k) PROVE StreamInv'
<1> USE DEF StreamInv, DownCopyEnds, DownCopyDone, Set, dialVars, inVars, outVars
<1>1. UpPart' BY DialConstants DEF UpPart, UpType, UpInv
<1>2. DownPart' BY DialConstants DEF DownPart, DownType, DownInv
<1>3. HookPart' BY HookAlone
<1>4. RelayPart' BY DEF RelayPart, RelayType, RelayInv
<1>5. QED BY <1>1, <1>2, <1>3, <1>4

LEMMA RelayReturnsStep == ASSUME StreamInv, NEW k \in Streams, RelayReturns(k) PROVE StreamInv'
<1> USE DEF StreamInv, RelayReturns, Set, dialVars, inVars, outVars
<1>1. UpPart' BY DialConstants DEF UpPart, UpType, UpInv
<1>2. DownPart'
  <2>1. closed[k] /\ closed \in [Streams -> BOOLEAN] BY DEF RelayPart, RelayType, RelayInv
  <2>2. closed' = closed BY <2>1
  <2>3. QED BY SMT, DialConstants, <2>2 DEF DownPart, DownType, DownInv
<1>3. HookPart' BY HookAlone
<1>4. RelayPart' BY SMT DEF RelayPart, RelayType, RelayInv
<1>5. QED BY <1>1, <1>2, <1>3, <1>4

LEMMA ClientSendsStep == ASSUME StreamInv, NEW k \in Streams, ClientSends(k) PROVE StreamInv'
<1> USE DEF StreamInv, ClientSends, Set, dialVars, inVars, outVars
<1>1. UpPart' BY SMT, DialConstants DEF UpPart, UpType, UpInv
<1>2. DownPart' BY DownAlone
<1>3. HookPart' BY HookAlone
<1>4. RelayPart' BY RelayAlone
<1>5. QED BY <1>1, <1>2, <1>3, <1>4

LEMMA ClientClosesStep == ASSUME StreamInv, NEW k \in Streams, ClientCloses(k) PROVE StreamInv'
<1> USE DEF StreamInv, ClientCloses, Leave, Set, dialVars, inVars, outVars
<1>1. UpPart' BY DialConstants DEF UpPart, UpType, UpInv
<1>2. DownPart'
  <2>1. DownType /\ \A j \in Streams : DownInv(j) BY DEF DownPart
  <2>2. DownType'
    <3>1. CASE client[k] = "open" /\ client' = [client EXCEPT ![k] = "eof"] /\ UNCHANGED <<wire, ahead>>
      BY DialConstants, <2>1, <3>1 DEF DownType
    <3>2. CASE client' = [client EXCEPT ![k] = "gone"] /\ wire' = [wire EXCEPT ![k] = 0] /\ ahead' = [ahead EXCEPT ![k] = 0]
      BY SMT, DialConstants, <2>1, <3>2 DEF DownType
    <3>3. QED BY <3>1, <3>2
  <2>3. ASSUME NEW j \in Streams PROVE DownInv(j)'
    <3>1. CASE j = k BY SMT, DialConstants, <2>1, <3>1 DEF DownType, DownInv
    <3>2. CASE j # k BY DialConstants, <2>1, <3>2 DEF DownType, DownInv
    <3>3. QED BY <3>1, <3>2
  <2>4. QED BY <2>2, <2>3 DEF DownPart
<1>3. HookPart' BY HookAlone
<1>4. RelayPart' BY SMT DEF RelayPart, RelayType, RelayInv
<1>5. QED BY <1>1, <1>2, <1>3, <1>4

LEMMA OwnerReadsStep == ASSUME StreamInv, NEW k \in Streams, OwnerReads(k) PROVE StreamInv'
<1> USE DEF StreamInv, OwnerReads, Buffered, Set, dialVars, inVars, outVars
<1>1. UpPart' BY UpAlone
<1>2. DownPart'
  <2>1. DownType /\ \A j \in Streams : DownInv(j) BY DEF DownPart
  <2>2. CASE ahead[k] > 0
    <3>1. ahead' = [ahead EXCEPT ![k] = ahead[k] - 1] /\ read' = [read EXCEPT ![k] = read[k] + 1] /\ UNCHANGED <<wire, eof, cut>>
      BY SMT, <2>2, <2>1 DEF DownType
    <3>2. DownType'
      <4>1. DownInv(k) BY <2>1
      <4>2. ahead[k] - 1 \in 0..MaxMade /\ read[k] + 1 \in 0..MaxMade
        BY SMT, DialConstants, <2>1, <2>2, <4>1 DEF DownType, DownInv
      <4>3. QED BY <2>1, <3>1, <4>2 DEF DownType
    <3>3. ASSUME NEW j \in Streams PROVE DownInv(j)'
      <4>1. CASE j = k BY SMT, DialConstants, <2>1, <2>2, <3>1, <4>1 DEF DownType, DownInv
      <4>2. CASE j # k BY DialConstants, <2>1, <3>1, <4>2 DEF DownType, DownInv
      <4>3. QED BY <4>1, <4>2
    <3>4. QED BY <3>2, <3>3 DEF DownPart
  <2>3. CASE ahead[k] = 0 /\ wire[k] > 0
    <3>1. wire' = [wire EXCEPT ![k] = 0] /\ read' = [read EXCEPT ![k] = read[k] + 1] /\ UNCHANGED <<ahead, eof, cut>>
      BY SMT, <2>3, <2>1 DEF DownType
    <3>2. DownType'
      <4>1. DownInv(k) BY <2>1
      <4>2. read[k] + 1 \in 0..MaxMade
        BY SMT, DialConstants, <2>1, <2>3, <4>1 DEF DownType, DownInv
      <4>3. QED BY <2>1, <3>1, <4>2 DEF DownType
    <3>3. ASSUME NEW j \in Streams PROVE DownInv(j)'
      <4>1. CASE j = k
        <5>1. /\ made'[k] = made[k] /\ out'[k] = out[k] /\ ahead'[k] = ahead[k] /\ eof'[k] = eof[k]
              /\ cut'[k] = cut[k] /\ closed'[k] = closed[k] /\ client'[k] = client[k]
              /\ up'[k] = up[k] /\ dial'[k] = dial[k]
          BY <3>1
        <5>2. wire'[k] = 0 /\ read'[k] = read[k] + 1 BY <2>1, <3>1 DEF DownType
        <5>3. /\ made[k] \in 0..MaxMade /\ out[k] \in 0..MaxMade /\ wire[k] \in 0..MaxMade
              /\ ahead[k] \in 0..MaxMade /\ read[k] \in 0..MaxMade
          BY <2>1 DEF DownType
        <5>4. DownInv(k) /\ client[k] # "gone" BY <2>1
        <5>5. ~(eof[k] /\ ~cut[k]) BY SMT, <2>3, <5>3, <5>4 DEF DownInv
        <5> HIDE DEF OwnerReads, StreamInv
        <5>6. QED BY SMT, <2>3, <4>1, <5>1, <5>2, <5>3, <5>4, <5>5 DEF DownInv
      <4>2. CASE j # k BY DialConstants, <2>1, <3>1, <4>2 DEF DownType, DownInv
      <4>3. QED BY <4>1, <4>2
    <3>4. QED BY <3>2, <3>3 DEF DownPart
  <2>4. CASE ahead[k] = 0 /\ wire[k] = 0
    <3>1. /\ eof' = [eof EXCEPT ![k] = TRUE] /\ UNCHANGED <<wire, ahead, read>>
          /\ cut' = [cut EXCEPT ![k] = cut[k] \/ ~closed[k]]
      BY SMT, <2>4, <2>1 DEF DownType
    <3>2. DownType' BY <2>1, <3>1 DEF DownType
    <3>3. ASSUME NEW j \in Streams PROVE DownInv(j)'
      <4>1. CASE j = k
        <5>1. /\ made'[k] = made[k] /\ out'[k] = out[k] /\ ahead'[k] = ahead[k] /\ wire'[k] = wire[k]
              /\ read'[k] = read[k] /\ closed'[k] = closed[k] /\ client'[k] = client[k]
              /\ up'[k] = up[k] /\ dial'[k] = dial[k]
          BY <3>1
        <5>2. cut'[k] = (cut[k] \/ ~closed[k]) BY <2>1, <3>1 DEF DownType
        <5>3. /\ made[k] \in 0..MaxMade /\ out[k] \in 0..MaxMade /\ wire[k] \in 0..MaxMade
              /\ ahead[k] \in 0..MaxMade /\ read[k] \in 0..MaxMade
          BY <2>1 DEF DownType
        <5>4. DownInv(k) /\ client[k] # "gone" BY <2>1
        <5>5. ~cut'[k] => ~cut[k] /\ closed[k] /\ out[k] = 0 /\ ~up[k] BY <5>2, <5>4 DEF DownInv
        <5> HIDE DEF OwnerReads, StreamInv
        <5>6. QED BY SMT, <2>4, <4>1, <5>1, <5>3, <5>4, <5>5 DEF DownInv
      <4>2. CASE j # k BY DialConstants, <2>1, <3>1, <4>2 DEF DownType, DownInv
      <4>3. QED BY <4>1, <4>2
    <3>4. QED BY <3>2, <3>3 DEF DownPart
  <2>5. QED BY <2>1, <2>2, <2>3, <2>4 DEF DownType
<1>3. HookPart' BY HookAlone
<1>4. RelayPart' BY RelayAlone
<1>5. QED BY <1>1, <1>2, <1>3, <1>4

LEMMA SandboxSendsStep == ASSUME StreamInv, NEW k \in Streams, SandboxSends(k) PROVE StreamInv'
<1> USE DEF StreamInv, SandboxSends, Set, dialVars, inVars, outVars
<1>1. UpPart' BY UpAlone
<1>2. DownPart' BY SMT, DialConstants DEF DownPart, DownType, DownInv
<1>3. HookPart' BY HookAlone
<1>4. RelayPart' BY RelayAlone
<1>5. QED BY <1>1, <1>2, <1>3, <1>4

LEMMA SandboxEndsStep == ASSUME StreamInv, NEW k \in Streams, SandboxEnds(k) PROVE StreamInv'
<1> USE DEF StreamInv, SandboxEnds, Set, dialVars, inVars, outVars
<1>1. UpPart' BY DialConstants DEF UpPart, UpType, UpInv
<1>2. DownPart'
  <2>1. CASE UNCHANGED <<out, cut>> BY DialConstants, <2>1 DEF DownPart, DownType, DownInv
  <2>2. CASE out' = [out EXCEPT ![k] = 0] /\ cut' = [cut EXCEPT ![k] = TRUE]
    BY SMT, DialConstants, <2>2 DEF DownPart, DownType, DownInv
  <2>3. QED BY <2>1, <2>2
<1>3. HookPart' BY HookAlone
<1>4. RelayPart' BY DEF RelayPart, RelayType, RelayInv
<1>5. QED BY <1>1, <1>2, <1>3, <1>4

\* The process dies, and every stream starts over, finds its connection broken or
\* comes to its end.
LEMMA ProcessDiesStep == ASSUME StreamInv, ProcessDies PROVE StreamInv'
<1> DEFINE over == {k \in Streams : dial[k] = "failed" \/ (dial[k] = "owned" /\ client[k] = "gone")}
           kept == {k \in Streams : /\ dial[k] \in {"read", "release", "clear", "owned"}
                                    /\ client[k] # "gone" /\ answer[k] = "101"}
           lost == {k \in Streams : dial[k] # "dial"} \ (over \cup kept)
<1>0. 0 \in 0..MaxSent /\ 0 \in 0..MaxMade BY SMT, DialConstants
<1> USE DEF StreamInv, ProcessDies
<1>1. UpPart'
  <2>1. client' \in [Streams -> {"open", "eof", "gone"}] BY DEF UpPart, UpType
  <2>2. UpType'
    <3>1. sent' \in [Streams -> 0..MaxSent] /\ buf' \in [Streams -> 0..MaxSent] /\ got' \in [Streams -> 0..MaxSent]
      BY <1>0
    <3>2. half' \in [Streams -> BOOLEAN] OBVIOUS
    <3>3. up' \in [Streams -> BOOLEAN] /\ closed' \in [Streams -> BOOLEAN]
      <4>1. up' = [j \in Streams |-> j \notin kept] /\ closed' = [j \in Streams |-> j \in kept] OBVIOUS
      <4> HIDE DEF kept, StreamInv, ProcessDies
      <4>2. QED BY SMT, <4>1
    <3>4. QED BY <2>1, <3>1, <3>2, <3>3 DEF UpType
  <2>3. ASSUME NEW j \in Streams PROVE UpInv(j)'
    <3>1. sent'[j] = 0 /\ got'[j] = 0 /\ buf'[j] = 0 /\ (closed'[j] => ~up'[j]) /\ ~half'[j] OBVIOUS
    <3> HIDE DEF kept, StreamInv, ProcessDies
    <3>2. QED BY SMT, <3>1 DEF UpInv
  <2>4. QED BY <2>2, <2>3 DEF UpPart
<1>2. DownPart'
  <2>1. client' \in [Streams -> {"open", "eof", "gone"}] BY DEF DownPart, DownType
  <2>2. dial' \in [Streams -> {"dial", "write", "read", "release", "clear", "owned", "failed"}]
    BY DEF DownPart, DownType
  <2>3. DownType'
    <3>1. 0 \in 0..MaxMade BY <1>0
    <3>2. /\ made' \in [Streams -> 0..MaxMade] /\ wire' \in [Streams -> 0..MaxMade]
          /\ ahead' \in [Streams -> 0..MaxMade] /\ read' \in [Streams -> 0..MaxMade]
          /\ out' \in [Streams -> 0..MaxMade]
      BY <3>1 DEF DownPart, DownType
    <3>3. /\ eof' \in [Streams -> BOOLEAN] /\ cut' \in [Streams -> BOOLEAN]
          /\ closed' \in [Streams -> BOOLEAN] /\ up' \in [Streams -> BOOLEAN]
      <4>1. eof' \in [Streams -> BOOLEAN] BY DEF DownPart, DownType
      <4>2. cut' \in [Streams -> BOOLEAN] OBVIOUS
      <4>3. closed' \in [Streams -> BOOLEAN] /\ up' \in [Streams -> BOOLEAN] BY <1>1 DEF UpPart, UpType
      <4>4. QED BY <4>1, <4>2, <4>3
    <3>4. QED BY <2>1, <2>2, <3>2, <3>3 DEF DownType
  <2>4. ASSUME NEW j \in Streams PROVE DownInv(j)'
    <3>1. CASE j \in kept
      <4>1. /\ made'[j] = made[j] /\ out'[j] = 0 /\ wire'[j] = wire[j] /\ ahead'[j] = ahead[j]
            /\ read'[j] = read[j] /\ eof'[j] = eof[j] /\ client'[j] = client[j] /\ ~up'[j]
            /\ dial'[j] = dial[j]
        BY <3>1
      <4>2. cut'[j] = (cut[j] \/ ~closed[j]) BY <3>1
      <4>3. DownType /\ DownInv(j) /\ client[j] # "gone" BY <3>1 DEF DownPart
      <4>4. ~cut'[j] => out[j] = 0 /\ ~cut[j] BY <4>2, <4>3 DEF DownInv
      <4>5. /\ made[j] \in 0..MaxMade /\ out[j] \in 0..MaxMade /\ wire[j] \in 0..MaxMade
            /\ ahead[j] \in 0..MaxMade /\ read[j] \in 0..MaxMade
        BY <4>3 DEF DownType
      <4> HIDE DEF kept, ProcessDies, StreamInv
      <4>6. QED BY SMT, <4>1, <4>3, <4>4, <4>5 DEF DownInv
    <3>2. CASE j \notin kept
      <4>1. /\ made'[j] = 0 /\ out'[j] = 0 /\ wire'[j] = 0 /\ ahead'[j] = 0 /\ read'[j] = 0
            /\ ~closed'[j] /\ ~eof'[j]
        BY <3>2
      <4> HIDE DEF kept, ProcessDies, StreamInv
      <4>2. QED BY SMT, <4>1 DEF DownInv
    <3>3. QED BY <3>1, <3>2
  <2>5. QED BY <2>3, <2>4 DEF DownPart
<1>3. HookPart'
  <2>1. HookType' BY DEF HookPart, HookType
  <2>2. ASSUME NEW j \in Streams PROVE HookInv(j)' BY DEF HookPart, HookType, HookInv
  <2>3. QED BY <2>1, <2>2 DEF HookPart
<1>4. RelayPart'
  <2>1. RelayType'
    <3>1. dial' \in [Streams -> {"dial", "write", "read", "release", "clear", "owned", "failed"}]
      BY DEF RelayPart, RelayType
    <3>2. client' \in [Streams -> {"open", "eof", "gone"}] BY DEF RelayPart, RelayType
    <3>3. answer' \in [Streams -> {"none", "101", "refused"}] BY DEF RelayPart, RelayType
    <3>4. handler' \in [Streams -> {"none", "dialling", "relaying", "returned"}] OBVIOUS
    <3>5. up' \in [Streams -> BOOLEAN] BY <1>2 DEF DownPart, DownType
    <3>6. closed' \in [Streams -> BOOLEAN] BY <1>2 DEF DownPart, DownType
    <3>7. upCopy' \in [Streams -> BOOLEAN] /\ downCopy' \in [Streams -> BOOLEAN] OBVIOUS
    <3>8. QED BY <3>1, <3>2, <3>3, <3>4, <3>5, <3>6, <3>7 DEF RelayType
  <2>2. ASSUME NEW j \in Streams PROVE RelayInv(j)'
    <3>1. CASE j \in kept
      <4>1. handler'[j] = "returned" /\ ~up'[j] /\ closed'[j] /\ ~upCopy'[j] /\ ~downCopy'[j]
            /\ answer'[j] = "101"
        BY <3>1
      <4>2. QED BY <4>1 DEF RelayInv
    <3>2. CASE j \notin kept
      <4>1. answer'[j] = "none" /\ ~upCopy'[j] /\ ~downCopy'[j] BY <3>2
      <4>2. handler'[j] # "relaying" OBVIOUS
      <4>3. dial'[j] \in {"release", "clear", "owned"} => client'[j] = "gone"
        <5>1. CASE j \in over BY <5>1
        <5>2. CASE j \notin over BY <3>2, <5>2
        <5>3. QED BY <5>1, <5>2
      <4>4. QED BY <4>1, <4>2, <4>3 DEF RelayInv
    <3>3. QED BY <3>1, <3>2
  <2>3. QED BY <2>1, <2>2 DEF RelayPart
<1>5. QED BY <1>1, <1>2, <1>3, <1>4

\* A step of the daemon leaves the streams alone.
LEMMA StreamsAlone ==
  ASSUME StreamInv, UNCHANGED <<dialVars, answer, client, handler, inVars, outVars>>
  PROVE  StreamInv'
<1> USE DEF StreamInv, dialVars, inVars, outVars
<1>1. UpPart' BY UpAlone
<1>2. DownPart' BY DownAlone
<1>3. HookPart' BY HookAlone
<1>4. RelayPart' BY RelayAlone
<1>5. QED BY <1>1, <1>2, <1>3, <1>4

LEMMA DialStep == DaemonInv /\ StreamInv /\ [Next]_vars => DaemonInv' /\ StreamInv'
<1> SUFFICES ASSUME DaemonInv, StreamInv, [Next]_vars PROVE DaemonInv' /\ StreamInv'
  OBVIOUS
<1>1. CASE DaemonNext /\ UNCHANGED <<dialVars, answer, client, handler, inVars, outVars>>
  BY <1>1, DaemonStep, StreamsAlone
<1>2. CASE ProcessDies
  BY <1>2, DaemonStep, ProcessDiesStep DEF ProcessDies
<1>3. ASSUME NEW k \in Streams,
             \/ DialPort(k) \/ ContextEnds(k) \/ HookRuns(k)
             \/ HandleDial(k) \/ Relay(k)
             \/ ClientSends(k) \/ ClientCloses(k) \/ OwnerReads(k) \/ SandboxSends(k) \/ SandboxEnds(k)
      PROVE  DaemonInv' /\ StreamInv'
  <2>1. UNCHANGED serveVars
    BY <1>3 DEF DialPort, Relay, Dials, WritesRequest, ReadsResponse, ResponseFails, ReleasesHook,
       ClearsDeadline, ContextEnds, HookRuns, HandleDial, DialFails, Hijack, CopiesUp, UpCopyEnds,
       CopiesDown, DownCopyEnds, RelayReturns, ClientSends, ClientCloses, OwnerReads, SandboxSends,
       SandboxEnds, DialGivesUp, StartRelay
  <2>2. DaemonInv' BY <2>1, DaemonStep
  <2>3. StreamInv'
    BY <1>3, DialsStep, WritesRequestStep, ReadsResponseStep, ResponseFailsStep, ReleasesHookStep,
       ClearsDeadlineStep, ContextEndsStep, HookRunsStep, HandleDialStep, DialFailsStep, HijackStep,
       CopiesUpStep, UpCopyEndsStep, CopiesDownStep, DownCopyEndsStep, RelayReturnsStep,
       ClientSendsStep, ClientClosesStep, OwnerReadsStep, SandboxSendsStep, SandboxEndsStep
       DEF DialPort, Relay
  <2>4. QED BY <2>2, <2>3
<1>4. CASE UNCHANGED vars
  BY <1>4, DaemonStep, StreamsAlone DEF vars
<1>5. QED
  BY <1>1, <1>2, <1>3, <1>4 DEF Next

LEMMA DialInvariant == Spec => [](DaemonInv /\ StreamInv)
<1>1. Init => DaemonInv /\ StreamInv
  BY DaemonStarts, StreamsStart DEF Init
<1>2. QED
  BY <1>1, DialStep, PTL DEF Spec

(***************************************************************************)
(* The state of the daemon and of every stream stays well typed.            *)
(***************************************************************************)
THEOREM DialTyped == Spec => []TypeOK
<1>1. DaemonInv /\ StreamInv => TypeOK
  BY DEF DaemonInv, StreamInv, UpPart, UpType, DownPart, DownType, HookPart, HookType, RelayPart, RelayType, TypeOK
<1>2. QED BY DialInvariant, <1>1, PTL

(***************************************************************************)
(* For any streams and any number of crashes, a daemon that ends has closed *)
(* its listeners and unlinked its socket (main.go:150-198).                 *)
(***************************************************************************)
THEOREM SocketUnlinked == Spec => []ExitsUnlinked
<1>1. DaemonInv => ExitsUnlinked BY DEF DaemonInv
<1>2. QED BY DialInvariant, <1>1, PTL

(***************************************************************************)
(* A listener that failed by itself is reported (main.go:183-196).          *)
(***************************************************************************)
THEOREM FailuresReported == Spec => []FailureReported
<1>1. DaemonInv => FailureReported BY DEF DaemonInv
<1>2. QED BY DialInvariant, <1>1, PTL

(***************************************************************************)
(* For any number of chunks, nothing is lost on the way to a sandbox that   *)
(* keeps its end open, nor on the way to an owner that reads to the end.    *)
(***************************************************************************)
THEOREM StreamsWhole == Spec => []NothingLost
<1>1. StreamInv => NothingLost
  <2> SUFFICES ASSUME StreamInv, NEW k \in Streams
               PROVE  /\ half[k] /\ client[k] = "eof" /\ up[k] => got[k] = sent[k]
                      /\ eof[k] /\ ~cut[k] => read[k] = made[k]
    BY DEF NothingLost
  <2>1. UpType /\ UpInv(k) /\ DownInv(k) BY DEF StreamInv, UpPart, DownPart
  <2>2. got[k] \in Nat /\ buf[k] \in Nat BY SMT, <2>1, DialConstants DEF UpType
  <2>3. ASSUME half[k], client[k] = "eof", up[k] PROVE got[k] = sent[k]
    BY SMT, <2>1, <2>2, <2>3 DEF UpInv
  <2>4. eof[k] /\ ~cut[k] => read[k] = made[k] BY <2>1 DEF DownInv
  <2>5. QED BY <2>3, <2>4
<1>2. QED BY DialInvariant, <1>1, PTL

(***************************************************************************)
(* A stream has no deadline left when its owner gets it, and the context of *)
(* the dial closes it only if it had ended by then (dial.go:70-80).         *)
(***************************************************************************)
THEOREM StreamsOutlive == Spec => []StreamOutlivesDial
<1>1. StreamInv => StreamOutlivesDial
  BY DEF StreamInv, HookPart, HookInv, StreamOutlivesDial
<1>2. QED BY DialInvariant, <1>1, PTL

(***************************************************************************)
(* Every stream in its owner's hands is relayed or was, and a handler that  *)
(* has returned leaves neither goroutine nor connection, for any streams    *)
(* and any number of crashes (dial.go:43-88).                               *)
(***************************************************************************)
THEOREM StreamsRelayed == Spec => []StreamHasRelay
<1>1. StreamInv => StreamHasRelay
  BY DEF StreamInv, RelayPart, RelayType, RelayInv, StreamHasRelay
<1>2. QED BY DialInvariant, <1>1, PTL
=============================================================================
