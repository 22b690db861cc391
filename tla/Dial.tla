-------------------------------- MODULE Dial --------------------------------
(***************************************************************************)
(* A byte stream to a port in a sandbox, end to end: brokerclient's         *)
(* DialPort, whose handshake is bounded by the caller's context and whose   *)
(* stream is not, and handleDial, which hijacks the connection and relays   *)
(* it with two goroutines.  Hijacked connections are invisible to the       *)
(* server's shutdown.                                                       *)
(***************************************************************************)
EXTENDS Naturals, Daemon

CONSTANTS
  Streams,   \* dialled connections
  MaxSent,   \* bound: chunks a caller sends
  MaxMade    \* bound: chunks a sandbox sends

ASSUME DialConstants == MaxSent \in Nat /\ MaxMade \in Nat

VARIABLES
  dial,       \* DialPort's next step: "dial", "write", "read", "release", "clear";
              \* then "owned" or "failed"
  ctx,        \* the context given to DialPort is live
  hook,       \* its AfterFunc: "none", "armed", "stopped", "fired", "ran"
  deadline,   \* of the connection: "none", "armed", "passed"
  early,      \* history: the context had ended when the stream was released
  answer,     \* what the daemon wrote: "none", "101" or "refused"
  client,     \* the caller's end: "open", "eof" has sent everything, "gone" closed
  handler,    \* handleDial of each connection
  sent,       \* chunks the caller has sent
  buf,        \* those that the daemon's reader holds or will read
  got,        \* those written to the sandbox
  up,         \* the sandbox's end of the stream is open
  half,       \* CloseWrite was called towards the sandbox
  made,       \* chunks the sandbox has sent
  out,        \* those still to be copied
  wire,       \* those in the caller's connection
  ahead,      \* those the handshake's reader has read behind the 101
  read,       \* those the owner of the stream has read
  eof,        \* the owner has read the end of the stream
  cut,        \* history: the stream from the sandbox broke, or the daemon went before
              \* it had copied its end
  closed,     \* downstream.Close was called
  upCopy,     \* the goroutine that copies to the sandbox is running
  downCopy    \* the goroutine that copies to the caller is running

dialVars  == <<dial, ctx, hook, deadline, early>>
inVars    == <<sent, buf, got, up, half, upCopy>>
outVars   == <<made, out, wire, ahead, read, eof, cut, closed, downCopy>>
goVars    == <<dial, hook, handler, buf, out, upCopy, downCopy>>   \* what a stream's own steps change
vars == <<serveVars, dialVars, answer, client, handler, inVars, outVars>>

TypeOK ==
  /\ DaemonTypeOK
  /\ dial \in [Streams -> {"dial", "write", "read", "release", "clear", "owned", "failed"}]
  /\ hook \in [Streams -> {"none", "armed", "stopped", "fired", "ran"}]
  /\ deadline \in [Streams -> {"none", "armed", "passed"}]
  /\ answer \in [Streams -> {"none", "101", "refused"}]
  /\ client \in [Streams -> {"open", "eof", "gone"}]
  /\ handler \in [Streams -> {"none", "dialling", "relaying", "returned"}]
  /\ sent \in [Streams -> 0..MaxSent] /\ buf \in [Streams -> 0..MaxSent]
  /\ got \in [Streams -> 0..MaxSent] /\ made \in [Streams -> 0..MaxMade]
  /\ out \in [Streams -> 0..MaxMade] /\ wire \in [Streams -> 0..MaxMade]
  /\ ahead \in [Streams -> 0..MaxMade] /\ read \in [Streams -> 0..MaxMade]
  /\ ctx \in [Streams -> BOOLEAN] /\ early \in [Streams -> BOOLEAN]
  /\ up \in [Streams -> BOOLEAN] /\ half \in [Streams -> BOOLEAN]
  /\ eof \in [Streams -> BOOLEAN] /\ cut \in [Streams -> BOOLEAN] /\ closed \in [Streams -> BOOLEAN]
  /\ upCopy \in [Streams -> BOOLEAN] /\ downCopy \in [Streams -> BOOLEAN]

Init ==
  /\ DaemonInit
  /\ dial = [k \in Streams |-> "dial"]
  /\ hook = [k \in Streams |-> "none"]
  /\ deadline = [k \in Streams |-> "none"]
  /\ answer = [k \in Streams |-> "none"]
  /\ client = [k \in Streams |-> "open"]
  /\ handler = [k \in Streams |-> "none"]
  /\ sent = [k \in Streams |-> 0] /\ buf = [k \in Streams |-> 0]
  /\ got = [k \in Streams |-> 0] /\ made = [k \in Streams |-> 0]
  /\ out = [k \in Streams |-> 0] /\ wire = [k \in Streams |-> 0]
  /\ ahead = [k \in Streams |-> 0] /\ read = [k \in Streams |-> 0]
  /\ ctx = [k \in Streams |-> TRUE] /\ up = [k \in Streams |-> TRUE]
  /\ early = [k \in Streams |-> FALSE] /\ half = [k \in Streams |-> FALSE]
  /\ eof = [k \in Streams |-> FALSE] /\ cut = [k \in Streams |-> FALSE]
  /\ closed = [k \in Streams |-> FALSE]
  /\ upCopy = [k \in Streams |-> FALSE] /\ downCopy = [k \in Streams |-> FALSE]

Set(f, k, v) == f' = [f EXCEPT ![k] = v]

-----------------------------------------------------------------------------
(* brokerclient: DialPort.                                                  *)

\* Mutant of Dials: cancellation is left to the request's context.
DialsUnwatched(k) ==
  /\ dial[k] = "dial"
  /\ \/ open # {} /\ Set(dial, k, "write") /\ Set(deadline, k, "armed") /\ UNCHANGED client
     \/ Set(dial, k, "failed") /\ Set(client, k, "gone") /\ UNCHANGED deadline
  /\ UNCHANGED <<serveVars, ctx, hook, early, answer, handler, inVars, outVars>>

\* The connection is made, and both bounds of the handshake are armed.
Dials(k) ==
  /\ dial[k] = "dial"
  /\ \/ /\ open # {}
        /\ Set(dial, k, "write") /\ Set(deadline, k, "armed")
        /\ Set(hook, k, IF ctx[k] THEN "armed" ELSE "fired")
        /\ UNCHANGED client
     \/ Set(dial, k, "failed") /\ Set(client, k, "gone") /\ UNCHANGED <<deadline, hook>>
  /\ UNCHANGED <<serveVars, ctx, early, answer, handler, inVars, outVars>>

\* The caller's end is closed, with what is unread on it.
Leave(k) == Set(client, k, "gone") /\ Set(wire, k, 0) /\ Set(ahead, k, 0)

\* A failed step stops the hook and closes the connection.
DialGivesUp(k) ==
  /\ Set(dial, k, "failed")
  /\ Set(hook, k, IF hook[k] = "armed" THEN "stopped" ELSE hook[k])
  /\ Set(deadline, k, "none")
  /\ Leave(k)
  /\ UNCHANGED <<serveVars, ctx, early, answer, handler, inVars, made, out, read, eof, cut, closed, downCopy>>

\* A connection that shutdown finds without a request is dropped.
Broken(k) ==
  \/ client[k] = "gone" \/ deadline[k] = "passed" \/ ~Running
  \/ main = "shutdown" /\ handler[k] = "none"

WritesRequest(k) ==
  /\ dial[k] = "write"
  /\ IF Broken(k) THEN DialGivesUp(k)
     ELSE Set(dial, k, "read")
          /\ UNCHANGED <<serveVars, ctx, hook, deadline, early, answer, client, handler, inVars, outVars>>

\* http.ReadResponse reads ahead: what is behind the 101 may come with it.  An
\* answer that was written is there to be read, also when the daemon has gone.
ReadsResponse(k) ==
  /\ dial[k] = "read" /\ answer[k] = "101"
  /\ client[k] # "gone" /\ deadline[k] # "passed"
  /\ \E n \in {0, wire[k]} : Set(ahead, k, n) /\ Set(wire, k, wire[k] - n)
  /\ Set(dial, k, "release")
  /\ UNCHANGED <<serveVars, ctx, hook, deadline, early, answer, client, handler, inVars,
                 made, out, read, eof, cut, closed, downCopy>>

\* A refusal, a broken connection, or one closed without an answer.
ResponseFails(k) ==
  /\ dial[k] = "read"
  /\ Broken(k) \/ answer[k] = "refused" \/ handler[k] = "returned"
  /\ DialGivesUp(k)

\* Mutant of ReleasesHook: the hook outlives the handshake.
ReleasesNothing(k) ==
  /\ dial[k] = "release"
  /\ Set(dial, k, "clear") /\ Set(early, k, ~ctx[k])
  /\ UNCHANGED <<serveVars, ctx, hook, deadline, answer, client, handler, inVars, outVars>>

\* stopOnCancel, whose answer is not looked at: a hook that has fired will run.
ReleasesHook(k) ==
  /\ dial[k] = "release"
  /\ Set(dial, k, "clear") /\ Set(early, k, ~ctx[k])
  /\ Set(hook, k, IF hook[k] = "armed" THEN "stopped" ELSE hook[k])
  /\ UNCHANGED <<serveVars, ctx, deadline, answer, client, handler, inVars, outVars>>

\* SetDeadline(time.Time{}), and the stream is its caller's.
ClearsDeadline(k) ==
  /\ dial[k] = "clear"
  /\ Set(dial, k, "owned") /\ Set(deadline, k, "none")
  /\ UNCHANGED <<serveVars, ctx, hook, early, answer, client, handler, inVars, outVars>>

DialPort(k) ==
  \/ Dials(k) \/ WritesRequest(k) \/ ReadsResponse(k) \/ ResponseFails(k)
  \/ ReleasesHook(k) \/ ClearsDeadline(k)

\* The context is cancelled, or its deadline passes, which is the connection's.
ContextEnds(k) ==
  /\ ctx[k]
  /\ Set(ctx, k, FALSE)
  /\ Set(hook, k, IF hook[k] = "armed" THEN "fired" ELSE hook[k])
  /\ UNCHANGED deadline \/ (deadline[k] = "armed" /\ Set(deadline, k, "passed"))
  /\ UNCHANGED <<serveVars, dial, early, answer, client, handler, inVars, outVars>>

\* The hook's goroutine closes the connection.
HookRuns(k) ==
  /\ hook[k] = "fired"
  /\ Set(hook, k, "ran")
  /\ Leave(k)
  /\ UNCHANGED <<serveVars, dial, ctx, deadline, early, answer, handler, inVars,
                 made, out, read, eof, cut, closed, downCopy>>

-----------------------------------------------------------------------------
(* handleDial.                                                              *)

\* A request is accepted, and DialPort of the backend begins.
HandleDial(k) ==
  /\ Running /\ main # "listening" /\ dial[k] \notin {"dial", "write"}
  /\ handler[k] = "none"
  /\ Set(handler, k, "dialling")
  /\ UNCHANGED <<serveVars, dialVars, answer, client, inVars, outVars>>

\* DialPort or Hijack fails and is answered, or the 101 cannot be written.
DialFails(k) ==
  /\ Running /\ handler[k] = "dialling"
  /\ Set(handler, k, "returned")
  /\ \E a \in {"none", "refused"} : Set(answer, k, a)
  /\ UNCHANGED <<serveVars, dialVars, client, inVars, outVars>>

StartRelay(k) ==
  /\ Running /\ handler[k] = "dialling"
  /\ Set(handler, k, "relaying")
  /\ Set(answer, k, "101")
  /\ Set(upCopy, k, TRUE) /\ Set(downCopy, k, TRUE)
  /\ UNCHANGED <<serveVars, dialVars, client, sent, got, up, half,
                 made, out, wire, ahead, read, eof, cut, closed>>

\* Mutant of Hijack: the raw connection is read, past what is already buffered.
HijackRaw(k) == StartRelay(k) /\ Set(buf, k, 0)

\* What the caller pipelined behind its request stays in the reader.
Hijack(k) == StartRelay(k) /\ UNCHANGED buf

\* io.Copy(upstream, buf): one chunk; a write to an ended stream fails.
CopiesUp(k) ==
  /\ Running /\ upCopy[k] /\ up[k] /\ buf[k] > 0
  /\ Set(buf, k, buf[k] - 1) /\ Set(got, k, got[k] + 1)
  /\ UNCHANGED <<serveVars, dialVars, answer, client, handler, sent, up, half, upCopy, outVars>>

\* The copy ends by end of file, read error or write error; then CloseWrite.
UpCopyEnds(k) ==
  /\ Running /\ upCopy[k]
  /\ \/ client[k] = "eof" /\ buf[k] = 0
     \/ client[k] = "gone"
     \/ closed[k]
     \/ ~up[k] /\ buf[k] > 0
  /\ Set(upCopy, k, FALSE) /\ Set(half, k, TRUE)
  /\ UNCHANGED <<serveVars, dialVars, answer, client, handler, sent, buf, got, up, outVars>>

\* io.Copy(downstream, upstream): one chunk, when the caller's connection has
\* room for it.
CopiesDown(k) ==
  /\ Running /\ downCopy[k] /\ client[k] # "gone"
  /\ out[k] > 0 /\ wire[k] = 0
  /\ Set(out, k, out[k] - 1) /\ Set(wire, k, 1)
  /\ UNCHANGED <<serveVars, dialVars, answer, client, handler, inVars,
                 made, ahead, read, eof, cut, closed, downCopy>>

DownCopyDone(k) ==
  /\ Running /\ downCopy[k]
  /\ IF client[k] = "gone" THEN out[k] > 0 \/ ~up[k] ELSE out[k] = 0 /\ ~up[k]

\* Mutant of DownCopyEnds: the caller's connection is left to the other copy.
DownCopyEndsOpen(k) ==
  /\ DownCopyDone(k)
  /\ Set(downCopy, k, FALSE)
  /\ UNCHANGED <<serveVars, dialVars, answer, client, handler, inVars,
                 made, out, wire, ahead, read, eof, cut, closed>>

\* It ends with the stream, or at a write to a caller that is gone; then
\* downstream.Close, which ends the other copy.
DownCopyEnds(k) ==
  /\ DownCopyDone(k)
  /\ Set(downCopy, k, FALSE) /\ Set(closed, k, TRUE)
  /\ UNCHANGED <<serveVars, dialVars, answer, client, handler, inVars,
                 made, out, wire, ahead, read, eof, cut>>

\* Mutant of RelayReturns: only the copy to the caller is waited for.
RelayReturnsEarly(k) ==
  /\ Running /\ handler[k] = "relaying" /\ ~downCopy[k]
  /\ Set(handler, k, "returned") /\ Set(up, k, FALSE) /\ Set(closed, k, TRUE)
  /\ UNCHANGED <<serveVars, dialVars, answer, client, sent, buf, got, half, upCopy,
                 made, out, wire, ahead, read, eof, cut, downCopy>>

\* wg.Wait, and the deferred closes.
RelayReturns(k) ==
  /\ Running /\ handler[k] = "relaying" /\ ~upCopy[k] /\ ~downCopy[k]
  /\ Set(handler, k, "returned") /\ Set(up, k, FALSE) /\ Set(closed, k, TRUE)
  /\ UNCHANGED <<serveVars, dialVars, answer, client, sent, buf, got, half, upCopy,
                 made, out, wire, ahead, read, eof, cut, downCopy>>

Relay(k) ==
  \/ DialFails(k) \/ Hijack(k) \/ CopiesUp(k) \/ UpCopyEnds(k)
  \/ CopiesDown(k) \/ DownCopyEnds(k) \/ RelayReturns(k)

-----------------------------------------------------------------------------
(* The two ends.  Neither need ever do anything.                            *)

\* A caller other than brokerclient may send before it has its answer.  What is
\* sent on a connection that the daemon has closed goes nowhere.
ClientSends(k) ==
  /\ dial[k] \in {"read", "owned"} /\ client[k] = "open" /\ ~closed[k]
  /\ sent[k] < MaxSent
  /\ Set(sent, k, sent[k] + 1) /\ Set(buf, k, buf[k] + 1)
  /\ UNCHANGED <<serveVars, dialVars, answer, client, handler, got, up, half, upCopy, outVars>>

\* upgradedConn: CloseWrite, or Close.
ClientCloses(k) ==
  /\ dial[k] = "owned"
  /\ \/ client[k] = "open" /\ Set(client, k, "eof") /\ UNCHANGED <<wire, ahead>>
     \/ client[k] # "gone" /\ Leave(k)
  /\ UNCHANGED <<serveVars, dialVars, answer, handler, inVars, made, out, read, eof, cut, closed, downCopy>>

\* upgradedConn.Read takes what the handshake's reader holds first.
Buffered(k) == ahead[k]

\* The connection ends with downstream.Close, or with the daemon: the end of the
\* stream, either way.
OwnerReads(k) ==
  /\ dial[k] = "owned" /\ client[k] # "gone"
  /\ \/ /\ Buffered(k) > 0
        /\ Set(ahead, k, ahead[k] - 1) /\ Set(read, k, read[k] + 1) /\ UNCHANGED <<wire, eof, cut>>
     \/ /\ Buffered(k) = 0 /\ wire[k] > 0
        /\ Set(wire, k, 0) /\ Set(read, k, read[k] + 1) /\ UNCHANGED <<ahead, eof, cut>>
     \/ /\ Buffered(k) = 0 /\ wire[k] = 0 /\ (closed[k] \/ ~Running)
        /\ Set(eof, k, TRUE) /\ Set(cut, k, cut[k] \/ ~closed[k]) /\ UNCHANGED <<wire, ahead, read>>
  /\ UNCHANGED <<serveVars, dialVars, answer, client, handler, inVars, made, out, closed, downCopy>>

SandboxSends(k) ==
  /\ handler[k] = "relaying" /\ up[k] /\ made[k] < MaxMade
  /\ Set(made, k, made[k] + 1) /\ Set(out, k, out[k] + 1)
  /\ UNCHANGED <<serveVars, dialVars, answer, client, handler, inVars, wire, ahead, read, eof, cut, closed, downCopy>>

\* The relay in the sandbox ends, or the sandbox does; or the stream from Docker
\* breaks, with what was on it.  The copy drops the error: both are its end.
SandboxEnds(k) ==
  /\ handler[k] = "relaying" /\ up[k]
  /\ Set(up, k, FALSE)
  /\ UNCHANGED <<out, cut>> \/ (out[k] > 0 /\ Set(out, k, 0) /\ Set(cut, k, TRUE))
  /\ UNCHANGED <<serveVars, dialVars, answer, client, handler, sent, buf, got, half, upCopy,
                 made, wire, ahead, read, eof, closed, downCopy>>

\* With the process go its goroutines, both ends of every relay and what was on the
\* way to the sandbox.  A caller that has its 101 reads what was written to it and
\* the end of the stream; any other dial under way finds its connection broken.
\* One that is over is forgotten, and its slot is free for another.
ProcessDies ==
  /\ Crash
  /\ LET over == {k \in Streams : dial[k] = "failed" \/ (dial[k] = "owned" /\ client[k] = "gone")}
         kept == {k \in Streams : /\ dial[k] \in {"read", "release", "clear", "owned"}
                                  /\ client[k] # "gone" /\ answer[k] = "101"}
         lost == {k \in Streams : dial[k] # "dial"} \ (over \cup kept)
         renew(f, init) == [k \in Streams |-> IF k \in over THEN init ELSE f[k]]
         keep(f, init)  == [k \in Streams |-> IF k \in kept THEN f[k] ELSE init]
     IN  /\ dial' = renew(dial, "dial") /\ ctx' = renew(ctx, TRUE)
         /\ hook' = renew(hook, "none") /\ deadline' = renew(deadline, "none")
         /\ early' = renew(early, FALSE)
         /\ client' = [k \in Streams |-> IF k \in kept THEN client[k] ELSE IF k \in lost THEN "gone" ELSE "open"]
         /\ handler' = [k \in Streams |-> IF k \in kept \cup lost THEN "returned" ELSE "none"]
         /\ answer' = keep(answer, "none")
         /\ made' = keep(made, 0) /\ wire' = keep(wire, 0)
         /\ ahead' = keep(ahead, 0) /\ read' = keep(read, 0)
         /\ eof' = keep(eof, FALSE)
         /\ up' = [k \in Streams |-> k \notin kept]
         /\ closed' = [k \in Streams |-> k \in kept]
         /\ cut' = [k \in Streams |-> k \in kept /\ (cut[k] \/ ~closed[k])]
  /\ sent' = [k \in Streams |-> 0] /\ buf' = [k \in Streams |-> 0]
  /\ got' = [k \in Streams |-> 0] /\ half' = [k \in Streams |-> FALSE]
  /\ out' = [k \in Streams |-> 0]
  /\ upCopy' = [k \in Streams |-> FALSE] /\ downCopy' = [k \in Streams |-> FALSE]

Next ==
  \/ DaemonNext /\ UNCHANGED <<dialVars, answer, client, handler, inVars, outVars>>
  \/ ProcessDies
  \/ \E k \in Streams :
       \/ DialPort(k) \/ ContextEnds(k) \/ HookRuns(k)
       \/ HandleDial(k) \/ Relay(k)
       \/ ClientSends(k) \/ ClientCloses(k) \/ OwnerReads(k) \/ SandboxSends(k) \/ SandboxEnds(k)

Spec == Init /\ [][Next]_vars

(***************************************************************************)
(* serve goes on, Shutdown's budget being a timer; and so does each stream,  *)
(* with the goroutines of its handler, DialPort and the context's hook.     *)
(* Callers and sandboxes may do nothing.                                    *)
(***************************************************************************)
FairSpec ==
  /\ Spec
  /\ WF_serveVars(Serve)
  /\ \A k \in Streams : WF_goVars(Relay(k) \/ DialPort(k) \/ HookRuns(k))

-----------------------------------------------------------------------------
(***************************************************************************)
(* Everything the caller sent before closing its half reaches the sandbox   *)
(* before the half-close does, the bytes pipelined behind the request       *)
(* included (dial.go:48-56), as long as the sandbox keeps its end open.  An *)
(* owner that reads the end of its stream has read everything the sandbox   *)
(* sent, also what came with the 101 (brokerclient/dial.go:81), unless the  *)
(* stream from Docker broke or the daemon went: the copies drop their       *)
(* errors, so either looks like the end.                                    *)
(***************************************************************************)
NothingLost ==
  \A k \in Streams :
    /\ half[k] /\ client[k] = "eof" /\ up[k] => got[k] = sent[k]
    /\ eof[k] /\ ~cut[k] => read[k] = made[k]

(***************************************************************************)
(* The stream outlives its handshake: its owner finds no deadline on it, and *)
(* the context closes it only if it had ended before the stream was handed  *)
(* over ("nor be closed out from under its owner when ctx is later          *)
(* cancelled", brokerclient/dial.go:76).                                    *)
(***************************************************************************)
StreamOutlivesDial ==
  \A k \in Streams :
    dial[k] = "owned" => deadline[k] = "none" /\ (hook[k] = "ran" => early[k])

(***************************************************************************)
(* A stream has a relay, and a relay leaves nothing behind: what DialPort   *)
(* returned and nobody closed is a connection the daemon has answered with  *)
(* the 101 and copies, or has copied; and a handler that has returned has   *)
(* neither of its goroutines running and, if it relayed, both ends closed   *)
(* (dial.go:43-88).                                                         *)
(***************************************************************************)
StreamHasRelay ==
  \A k \in Streams :
    /\ dial[k] = "owned" /\ client[k] # "gone" =>
         answer[k] = "101" /\ handler[k] \in {"relaying", "returned"}
    /\ handler[k] = "returned" =>
         /\ ~upCopy[k] /\ ~downCopy[k]
         /\ answer[k] = "101" => ~up[k] /\ closed[k]

(***************************************************************************)
(* When the context of a dial ends, DialPort returns, also if the daemon    *)
(* accepted and never answers ("would block the caller forever, and         *)
(* cancellation would go unnoticed", brokerclient/dial.go:34).              *)
(***************************************************************************)
DialReturns == \A k \in Streams : ~ctx[k] ~> dial[k] \in {"owned", "failed"}

(***************************************************************************)
(* When the sandbox's end is gone, and what it sent has been taken from it, *)
(* the handler returns, even if the caller stays connected and silent, which *)
(* "would pin both goroutines and their descriptors for the life of the     *)
(* process" (dial.go:64-69).  A caller that does not read holds it.         *)
(***************************************************************************)
RelayEnds ==
  \A k \in Streams : ~up[k] /\ out[k] = 0 ~> handler[k] # "relaying" \/ main = "exited"
=============================================================================
