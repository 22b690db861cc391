------------------------------- MODULE Daemon -------------------------------
(***************************************************************************)
(* cmd/openbloxd: run, which opens its listeners one after the other, and   *)
(* serve, which runs one HTTP server on all of them until a signal or a     *)
(* failure; internal/daemon: Listen, which makes the Unix socket.  The      *)
(* process may die at any moment and be started again.                      *)
(***************************************************************************)
CONSTANT Listeners   \* those configured: "unix", "tls" or both

ASSUME DaemonConstants == Listeners \subseteq {"unix", "tls"}

VARIABLES
  main,       \* what run and serve do next
  path,       \* what is at the socket's path: "nothing", "socket" or "file"
  bound,      \* this process has bound its socket there
  signalled,  \* SIGINT or SIGTERM has arrived
  open,       \* listeners not closed
  srv,        \* the Serve goroutine of each listener, and what it returned
  err         \* what serve returns

serveVars == <<main, path, bound, signalled, open, srv, err>>

DaemonTypeOK ==
  /\ main \in {"listening", "serving", "shutdown", "exited"}
  /\ path \in {"nothing", "socket", "file"} /\ bound \in BOOLEAN
  /\ signalled \in BOOLEAN
  /\ open \subseteq Listeners
  /\ srv \in [Listeners -> {"starting", "serving", "failed", "closed"}]
  /\ err \in {"nil", "error"}

DaemonInit ==
  /\ main = "listening"
  /\ path \in {"nothing", "socket", "file"} /\ bound = FALSE
  /\ signalled = FALSE
  /\ open = {}
  /\ srv = [l \in Listeners |-> "starting"]
  /\ err = "nil"

Running == main # "exited"

\* Closing the Unix listener unlinks its socket.
Close(ls) ==
  /\ open' = open \ ls
  /\ IF bound /\ "unix" \in ls THEN path' = "nothing" /\ bound' = FALSE
                               ELSE UNCHANGED <<path, bound>>

Exit(e) == main' = "exited" /\ err' = e

-----------------------------------------------------------------------------
(* run: Listen, then ListenTLS.                                             *)

\* A leftover socket is removed, and nothing else is.
ListenClears ==
  /\ main = "listening" /\ "unix" \in Listeners
  /\ path = "socket" /\ ~bound
  /\ path' = "nothing"
  /\ UNCHANGED <<main, bound, signalled, open, srv, err>>

\* net.Listen, under the narrow umask.
ListenBinds ==
  /\ main = "listening" /\ "unix" \in Listeners
  /\ path = "nothing" /\ ~bound
  /\ path' = "socket" /\ bound' = TRUE
  /\ UNCHANGED <<main, signalled, open, srv, err>>

\* The mode and the group are set, and Listen returns.
ListenLocksDown ==
  /\ main = "listening" /\ bound /\ "unix" \notin open
  /\ open' = open \cup {"unix"}
  /\ UNCHANGED <<main, path, bound, signalled, srv, err>>

ListenTLS ==
  /\ main = "listening" /\ "tls" \in Listeners \ open
  /\ "unix" \in Listeners => "unix" \in open
  /\ open' = open \cup {"tls"}
  /\ UNCHANGED <<main, path, bound, signalled, srv, err>>

\* Mutant of ListenFails: what is already open is left to the operating system.
ListenFailsLeaves ==
  /\ main = "listening" /\ open # Listeners
  /\ Exit("error")
  /\ UNCHANGED <<path, bound, signalled, open, srv>>

\* A step of either fails, for a file at the path among other reasons: what is
\* already open is closed, and run returns.
ListenFails ==
  /\ main = "listening" /\ open # Listeners
  /\ Close({"unix", "tls"})
  /\ Exit("error")
  /\ UNCHANGED <<signalled, srv>>

-----------------------------------------------------------------------------
(* serve.                                                                   *)

\* One Serve goroutine for each listener.
ServeStarts ==
  /\ main = "listening" /\ open = Listeners
  /\ main' = "serving"
  /\ UNCHANGED <<path, bound, signalled, open, srv, err>>

\* A Serve goroutine gets to run, and the server knows its listener.
ServeTracks(l) ==
  /\ main = "serving" /\ srv[l] = "starting"
  /\ srv' = [srv EXCEPT ![l] = "serving"]
  /\ UNCHANGED <<main, path, bound, signalled, open, err>>

Tracked == {l \in Listeners : srv[l] # "starting"}

Signal ==
  /\ ~signalled /\ main \notin {"listening", "exited"}
  /\ signalled' = TRUE
  /\ UNCHANGED <<main, path, bound, open, srv, err>>

\* Accept fails for good; Serve closes its listener on return.
ListenerFails(l) ==
  /\ main = "serving" /\ srv[l] = "serving"
  /\ srv' = [srv EXCEPT ![l] = "failed"]
  /\ Close({l})
  /\ UNCHANGED <<main, signalled, err>>

\* Once the server shuts down, every Serve returns ErrServerClosed, also one
\* that only begins; it closes its listener.
ServeCloses(l) ==
  /\ main = "shutdown" /\ srv[l] \in {"starting", "serving"}
  /\ srv' = [srv EXCEPT ![l] = "closed"]
  /\ Close({l})
  /\ UNCHANGED <<main, signalled, err>>

\* Mutant of ServeFails: a failure is only looked at once the signal has come.
ServeFailsWaits ==
  /\ main = "serving" /\ signalled
  /\ \E l \in Listeners : srv[l] = "failed"
  /\ Close(Tracked)
  /\ Exit("error")
  /\ UNCHANGED <<signalled, srv>>

\* select: a Serve failed on its own; httpSrv.Close closes the listeners the server
\* knows, and serve returns without waiting for the other goroutines.
ServeFails ==
  /\ main = "serving"
  /\ \E l \in Listeners : srv[l] = "failed"
  /\ Close(Tracked)
  /\ Exit("error")
  /\ UNCHANGED <<signalled, srv>>

\* select: ctx.Done; Shutdown first closes the listeners.
ShutdownBegins ==
  /\ main = "serving" /\ signalled
  /\ Close(Tracked)
  /\ main' = "shutdown"
  /\ UNCHANGED <<signalled, srv, err>>

\* Mutant of ServeReturns: the last result is returned.
ServeReturnsLast ==
  /\ main = "shutdown"
  /\ \A l \in Listeners : srv[l] \in {"failed", "closed"}
  /\ \E l \in Listeners : Exit(IF srv[l] = "failed" THEN "error" ELSE "nil")
  /\ UNCHANGED <<path, bound, signalled, open, srv>>

\* Shutdown ends when the handlers it knows of have returned or its budget is
\* spent, which may be at any time, and one result of each goroutine is received:
\* serve returns the failure among them.  Nobody else sees these receives.
ServeReturns ==
  /\ main = "shutdown"
  /\ \A l \in Listeners : srv[l] \in {"failed", "closed"}
  /\ Exit(IF \E l \in Listeners : srv[l] = "failed" THEN "error" ELSE "nil")
  /\ UNCHANGED <<path, bound, signalled, open, srv>>

Serve ==
  \/ ServeFails \/ ShutdownBegins \/ ServeReturns
  \/ \E l \in Listeners : ServeTracks(l) \/ ServeCloses(l)

\* The process is killed, and started again: the socket stays behind.
Crash ==
  /\ Running
  /\ main' = "listening" /\ bound' = FALSE
  /\ signalled' = FALSE
  /\ open' = {}
  /\ srv' = [l \in Listeners |-> "starting"]
  /\ err' = "nil"
  /\ UNCHANGED path

\* What happens to the process without its doing.
Happens == Signal \/ \E l \in Listeners : ListenerFails(l)

Listening == ListenClears \/ ListenBinds \/ ListenLocksDown \/ ListenTLS \/ ListenFails

DaemonNext == Listening \/ ServeStarts \/ Serve \/ Happens

-----------------------------------------------------------------------------
(***************************************************************************)
(* However run ends, also by a listener failing to open halfway, every      *)
(* listener is closed and the socket it bound is gone: "that unlink is what *)
(* makes a dead daemon answer ENOENT rather than ECONNREFUSED"              *)
(* (main.go:163).  There is one exception, a listener whose Serve goroutine *)
(* has not run yet when another's fails.  A process that is killed leaves   *)
(* its socket, and the next one replaces it.                                *)
(***************************************************************************)
ExitsUnlinked ==
  main = "exited" =>
    /\ \A l \in open : srv[l] = "starting" /\ \E k \in Listeners : srv[k] = "failed"
    /\ bound => "unix" \in open
    /\ err = "nil" /\ "unix" \in Listeners => path = "nothing"

(***************************************************************************)
(* A listener that failed by itself is reported, also when the signal and   *)
(* the failure come together and Shutdown wins the select: "returning on    *)
(* the first would hide a real failure" (main.go:190).                      *)
(***************************************************************************)
FailureReported ==
  main = "exited" /\ (\E l \in Listeners : srv[l] = "failed") => err = "error"

(***************************************************************************)
(* A signal or a failed listener ends the process: it does not hang on open *)
(* streams, slow handlers or the other listeners (main.go:150-153).         *)
(***************************************************************************)
DaemonExits ==
  signalled \/ (\E l \in Listeners : srv[l] = "failed") ~> main \in {"exited", "listening"}
=============================================================================
