------------------------------ MODULE Preview -------------------------------
(***************************************************************************)
(* pkg/preview and pkg/docker/expose.go: tokens that Expose mints and        *)
(* Revoke withdraws, requests that ServeHTTP admits in two separate checks,  *)
(* and the pool of idle connections that the proxy's transport keeps.        *)
(*                                                                         *)
(* A route is a sandbox name with a port.  A token is its nonce: the         *)
(* signature binds it to the route it was minted for.  What callers send and *)
(* Revoke records is a string: split decodes the signature loosely, so a     *)
(* token has more spellings than the one it was minted in.  The clock is     *)
(* capped at MaxTime; time.Now never goes backwards.                         *)
(***************************************************************************)
EXTENDS Integers

CONSTANTS
  Routes, Tokens, Requests,
  Strings,      \* what decodes to a token: its minted form and other spellings
  TokenOf,      \* the token each decodes to
  TTLs,         \* lifetimes callers ask Expose for; zero or less: none given
  DefaultTTL, MaxTTL,
  MaxTime,
  Nil

ASSUME TTLAssumption == TTLs \subseteq Int /\ DefaultTTL \in Nat \ {0} /\ MaxTTL \in Nat \ {0}
ASSUME MaxTimeAssumption == MaxTime \in Nat
ASSUME PreviewNil == Nil \notin Routes \cup Strings
ASSUME TokenOfAssumption == TokenOf \in [Strings -> Tokens]

VARIABLES
  now,
  routeOf,    \* the route each token was minted for, Nil before
  expires,    \* the expiry each token carries
  revoked,    \* Handler.revoked, by string; the value of an entry is the token's expiry
  revoking,   \* strings Revoke has verified and not yet recorded
  withdrawn,  \* strings whose Revoke has returned (history)
  idle,       \* the transport's idle connections
  pc,         \* each request's next step
  tok, route, \* the string it brings and its route
  late,       \* that string had been withdrawn when it arrived (history)
  conn        \* where the connection that carries it leads

vars == <<now, routeOf, expires, revoked, revoking, withdrawn, idle, pc, tok, route, late, conn>>
tokenVars   == <<routeOf, expires>>
revokeVars  == <<revoked, revoking, withdrawn>>
requestVars == <<pc, tok, route, late, conn>>

Init ==
  /\ now = 0
  /\ routeOf = [t \in Tokens |-> Nil]
  /\ expires = [t \in Tokens |-> 0]
  /\ revoked = {} /\ revoking = {} /\ withdrawn = {}
  /\ idle = {}
  /\ pc = [q \in Requests |-> "idle"]
  /\ tok = [q \in Requests |-> Nil]
  /\ route = [q \in Requests |-> Nil]
  /\ late = [q \in Requests |-> FALSE]
  /\ conn = [q \in Requests |-> Nil]

Tick ==
  /\ now < MaxTime
  /\ now' = now + 1
  /\ UNCHANGED <<tokenVars, revokeVars, idle, requestVars>>

-----------------------------------------------------------------------------
(* Minting and withdrawing.                                                 *)

ClampTTL(ttl) ==
  LET asked == IF ttl <= 0 THEN DefaultTTL ELSE ttl
  IN  IF asked > MaxTTL THEN MaxTTL ELSE asked

\* Expose signs a fresh nonce; nothing else is recorded anywhere.
Expose(t, r, ttl) ==
  /\ routeOf[t] = Nil
  /\ routeOf' = [routeOf EXCEPT ![t] = r]
  /\ expires' = [expires EXCEPT ![t] = now + ClampTTL(ttl)]
  /\ UNCHANGED <<now, revokeVars, idle, requestVars>>

\* Verify: the signature over name and payload, the port, and the expiry.
Verify(s, r) == routeOf[TokenOf[s]] = r /\ now < expires[TokenOf[s]]

\* Sandbox.Revoke refuses a string that does not verify, and passes on the rest.
RevokeVerifies(s) ==
  /\ routeOf[TokenOf[s]] # Nil /\ Verify(s, routeOf[TokenOf[s]])
  /\ revoking' = revoking \cup {s}
  /\ UNCHANGED <<now, tokenVars, revoked, withdrawn, idle, requestVars>>

\* Mutant of RevokeRecords: the map is made anew.
RevokeRecordsOne(s) ==
  /\ s \in revoking
  /\ revoking' = revoking \ {s}
  /\ revoked' = {s}
  /\ withdrawn' = withdrawn \cup {s}
  /\ UNCHANGED <<now, tokenVars, idle, requestVars>>

\* Handler.Revoke records the string and drops every entry past its expiry.
RevokeRecords(s) ==
  /\ s \in revoking
  /\ revoking' = revoking \ {s}
  /\ revoked' = {u \in revoked \cup {s} : now <= expires[TokenOf[u]]}
  /\ withdrawn' = withdrawn \cup {s}
  /\ UNCHANGED <<now, tokenVars, idle, requestVars>>

-----------------------------------------------------------------------------
(* A request: Verify, then isRevoked, then the proxy.                       *)

Goto(q, step) == pc' = [pc EXCEPT ![q] = step]

\* ServeHTTP returns, with the response or a refusal.
Returns(q) ==
  /\ Goto(q, "idle")
  /\ tok' = [tok EXCEPT ![q] = Nil]
  /\ route' = [route EXCEPT ![q] = Nil]
  /\ late' = [late EXCEPT ![q] = FALSE]
  /\ conn' = [conn EXCEPT ![q] = Nil]

\* A request with any minted token, in any spelling, arrives on any route.  One
\* that does not verify is refused at once.
Arrives(q, s, r) ==
  /\ pc[q] = "idle"
  /\ routeOf[TokenOf[s]] # Nil
  /\ \/ /\ Verify(s, r)
        /\ Goto(q, "verified")
        /\ tok' = [tok EXCEPT ![q] = s]
        /\ route' = [route EXCEPT ![q] = r]
        /\ late' = [late EXCEPT ![q] = s \in withdrawn]
        /\ UNCHANGED conn
     \/ ~Verify(s, r) /\ UNCHANGED requestVars
  /\ UNCHANGED <<now, tokenVars, revokeVars, idle>>

IsRevoked(q) ==
  /\ pc[q] = "verified"
  /\ \/ tok[q] \in revoked /\ Returns(q)
     \/ tok[q] \notin revoked /\ Goto(q, "admitted") /\ UNCHANGED <<tok, route, late, conn>>
  /\ UNCHANGED <<now, tokenVars, revokeVars, idle>>

\* Mutant of UpstreamHost: one host for all.
UpstreamHostShared(r) == Nil

\* The host a route's connections are pooled under: a hash, injective in practice.
UpstreamHost(r) == r

\* The transport dials for a request; whichever request of that host comes
\* first takes the connection.  A failed dial is a bad gateway.
Dials(q) ==
  /\ pc[q] = "admitted"
  /\ \/ /\ idle' = idle \cup {[host |-> UpstreamHost(route[q]), to |-> route[q]]}
        /\ UNCHANGED requestVars
     \/ Returns(q) /\ UNCHANGED idle
  /\ UNCHANGED <<now, tokenVars, revokeVars>>

\* The transport hands out an idle connection of the request's host.
Carried(q) ==
  /\ pc[q] = "admitted"
  /\ \E c \in idle :
       /\ c.host = UpstreamHost(route[q])
       /\ conn' = [conn EXCEPT ![q] = c.to]
       /\ idle' = idle \ {c}
  /\ Goto(q, "carried")
  /\ UNCHANGED <<now, tokenVars, revokeVars, tok, route, late>>

\* The response ends; the connection returns to the pool or is closed.
Ends(q) ==
  /\ pc[q] = "carried"
  /\ \/ UNCHANGED idle
     \/ idle' = idle \cup {[host |-> UpstreamHost(route[q]), to |-> conn[q]]}
  /\ Returns(q)
  /\ UNCHANGED <<now, tokenVars, revokeVars>>

\* IdleConnTimeout, MaxIdleConns, or the sandbox's end.
ConnCloses(c) ==
  /\ idle' = idle \ {c}
  /\ UNCHANGED <<now, tokenVars, revokeVars, requestVars>>

Next ==
  \/ Tick
  \/ \E t \in Tokens, r \in Routes, ttl \in TTLs : Expose(t, r, ttl)
  \/ \E s \in Strings : RevokeVerifies(s) \/ RevokeRecords(s)
  \/ \E q \in Requests :
       \/ \E s \in Strings, r \in Routes : Arrives(q, s, r)
       \/ IsRevoked(q) \/ Dials(q) \/ Carried(q) \/ Ends(q)
  \/ \E c \in idle : ConnCloses(c)

Spec == Init /\ [][Next]_vars

-----------------------------------------------------------------------------
\* Every variable has its type.
TypeOK ==
  /\ now \in Nat
  /\ routeOf \in [Tokens -> Routes \cup {Nil}]
  /\ expires \in [Tokens -> Nat]
  /\ revoked \subseteq Strings /\ revoking \subseteq Strings /\ withdrawn \subseteq Strings
  /\ idle \subseteq [host : Routes \cup {Nil}, to : Routes]
  /\ pc \in [Requests -> {"idle", "verified", "admitted", "carried"}]
  /\ tok \in [Requests -> Strings \cup {Nil}]
  /\ route \in [Requests -> Routes \cup {Nil}]
  /\ late \in [Requests -> BOOLEAN]
  /\ conn \in [Requests -> Routes \cup {Nil}]

(***************************************************************************)
(* A request is carried only to the route its own token was minted for,     *)
(* although connections outlive requests and are handed to later ones: "a   *)
(* shared one would hand a connection into sandbox A to a request           *)
(* authorised only for sandbox B" (proxy.go:151).                           *)
(***************************************************************************)
CarriedToOwnRoute ==
  \A q \in Requests : pc[q] = "carried" => tok[q] \in Strings /\ conn[q] = routeOf[TokenOf[tok[q]]]

(***************************************************************************)
(* A request that arrives after Revoke has returned, with the string that   *)
(* was withdrawn, is not let through while its token would still be valid,  *)
(* although entries are dropped from the set: "Entries past their expiry    *)
(* are already refused on the strength of the expiry alone" (proxy.go:86).  *)
(* What remains is a request whose token expires between its two checks.    *)
(* Of the token's other spellings nothing is said, nor does the code refuse *)
(* them.                                                                    *)
(***************************************************************************)
RevokeHolds ==
  \A q \in Requests :
    pc[q] \in {"admitted", "carried"} /\ late[q] => now > expires[TokenOf[tok[q]]]
=============================================================================
