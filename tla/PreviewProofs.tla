---------------------------- MODULE PreviewProofs ---------------------------
(***************************************************************************)
(* Proofs about Preview: requests stay on the route their token names, and  *)
(* a withdrawn string stays withdrawn for as long as it would be valid.     *)
(***************************************************************************)
EXTENDS Preview, TLAPS

Active == {"verified", "admitted", "carried"}

\* A pooled connection is found only under the host of the route it leads to.
PoolOK == \A c \in idle : c.host = UpstreamHost(c.to)

\* What ServeHTTP has established about a request it goes on with.
RequestOK ==
  \A q \in Requests :
    pc[q] \in Active =>
      /\ tok[q] \in Strings /\ route[q] \in Routes
      /\ routeOf[TokenOf[tok[q]]] = route[q]
      /\ late[q] => tok[q] \in withdrawn
      /\ pc[q] = "carried" => conn[q] = route[q]

\* Only minted tokens are revoked; a dropped entry belongs to an expired token.
RevokedOK ==
  /\ \A s \in revoking \cup withdrawn : routeOf[TokenOf[s]] # Nil
  /\ \A s \in withdrawn : s \in revoked \/ now > expires[TokenOf[s]]

IInv == TypeOK /\ PoolOK /\ RequestOK /\ RevokedOK /\ RevokeHolds

\* Clamping yields a lifetime, so an expiry is a time.
LEMMA ClampType == \A ttl \in TTLs : ClampTTL(ttl) \in Nat
BY TTLAssumption DEF ClampTTL

\* Updating a function within its range keeps its type.
LEMMA UpdateType ==
  ASSUME NEW S, NEW T, NEW f \in [S -> T], NEW x \in S, NEW y \in T
  PROVE  [f EXCEPT ![x] = y] \in [S -> T]
OBVIOUS

LEMMA PreviewInit == Init => IInv
BY DEF Init, IInv, TypeOK, PoolOK, RequestOK, RevokedOK, RevokeHolds, Active

\* A request that is over claims nothing.
LEMMA ReturnsOK ==
  ASSUME IInv, NEW q \in Requests, Returns(q), UNCHANGED <<now, tokenVars, revokeVars>>,
         idle' \subseteq [host : Routes \cup {Nil}, to : Routes], PoolOK'
  PROVE  IInv'
<1> USE DEF IInv, Returns, Goto, Active, tokenVars, revokeVars
<1>1. TypeOK'
  BY DEF TypeOK
<1>2. RequestOK' /\ RevokedOK' /\ RevokeHolds'
  BY DEF TypeOK, RequestOK, RevokedOK, RevokeHolds
<1>3. QED
  BY <1>1, <1>2

\* The inductive step, one action at a time.
LEMMA PreviewStep == IInv /\ [Next]_vars => IInv'
<1> SUFFICES ASSUME IInv, [Next]_vars PROVE IInv'
  OBVIOUS
<1> USE PreviewNil, TokenOfAssumption DEF IInv, Active, tokenVars, revokeVars, requestVars
<1>1. CASE Tick
  BY <1>1 DEF Tick, TypeOK, PoolOK, RequestOK, RevokedOK, RevokeHolds
<1>2. ASSUME NEW t \in Tokens, NEW r \in Routes, NEW ttl \in TTLs, Expose(t, r, ttl)
      PROVE  IInv'
  <2>1. now + ClampTTL(ttl) \in Nat
    BY ClampType DEF TypeOK
  <2>2. TypeOK'
    BY <1>2, <2>1 DEF Expose, TypeOK
  <2>3. PoolOK'
    BY <1>2 DEF Expose, PoolOK
  <2>4. \A u \in Tokens : u # t => routeOf'[u] = routeOf[u] /\ expires'[u] = expires[u]
    BY <1>2 DEF Expose, TypeOK
  <2>5. \A q \in Requests : pc[q] \in Active => tok[q] \in Strings /\ TokenOf[tok[q]] # t
    BY <1>2 DEF Expose, TypeOK, RequestOK
  <2>6. RequestOK'
    BY <1>2, <2>4, <2>5 DEF Expose, RequestOK
  <2>7. \A s \in revoking \cup withdrawn : s \in Strings /\ TokenOf[s] # t
    BY <1>2 DEF Expose, RevokedOK, TypeOK
  <2>8. RevokedOK'
    BY <1>2, <2>4, <2>7 DEF Expose, RevokedOK, TypeOK
  <2>9. RevokeHolds'
    BY <1>2, <2>4, <2>5 DEF Expose, RevokeHolds, RequestOK
  <2>10. QED
    BY <2>2, <2>3, <2>6, <2>8, <2>9
<1>3. ASSUME NEW s \in Strings, RevokeVerifies(s)
      PROVE  IInv'
  BY <1>3 DEF RevokeVerifies, TypeOK, PoolOK, RequestOK, RevokedOK, RevokeHolds
<1>4. ASSUME NEW s \in Strings, RevokeRecords(s)
      PROVE  IInv'
  BY <1>4 DEF RevokeRecords, TypeOK, PoolOK, RequestOK, RevokedOK, RevokeHolds
<1>5. ASSUME NEW q \in Requests, NEW s \in Strings, NEW r \in Routes, Arrives(q, s, r)
      PROVE  IInv'
  <2>1. CASE Verify(s, r)
    <3>1. TypeOK'
      <4>1. (s \in withdrawn) \in BOOLEAN
        OBVIOUS
      <4>2. late \in [Requests -> BOOLEAN]
        BY DEF TypeOK
      <4>3. late' = [late EXCEPT ![q] = (s \in withdrawn)]
        BY <1>5, <2>1, Zenon DEF Arrives
      <4>4. late' \in [Requests -> BOOLEAN]
        BY <4>1, <4>2, <4>3, UpdateType, Zenon
      <4>5. QED
        BY <1>5, <2>1, <4>4 DEF Arrives, TypeOK, Goto
    <3>2. PoolOK' /\ RevokedOK'
      BY <1>5 DEF Arrives, PoolOK, RevokedOK
    <3>3. late'[q] = (s \in withdrawn)
      BY <1>5, <2>1, Zenon DEF Arrives, TypeOK
    <3>4. RequestOK'
      <4>1. /\ routeOf[TokenOf[s]] = r /\ UNCHANGED <<routeOf, withdrawn, conn>>
            /\ pc' = [pc EXCEPT ![q] = "verified"] /\ tok' = [tok EXCEPT ![q] = s]
            /\ route' = [route EXCEPT ![q] = r]
        BY <1>5, <2>1 DEF Arrives, Goto, Verify
      <4>2. \A p \in Requests \ {q} : late'[p] = late[p]
        BY <1>5, <2>1 DEF Arrives, TypeOK
      <4>3. QED
        BY <3>3, <4>1, <4>2 DEF TypeOK, RequestOK
    <3>5. RevokeHolds'
      BY <1>5, <2>1 DEF Arrives, Goto, TypeOK, RevokeHolds
    <3>6. QED
      BY <3>1, <3>2, <3>4, <3>5
  <2>2. CASE ~Verify(s, r)
    BY <1>5, <2>2 DEF Arrives, TypeOK, PoolOK, RequestOK, RevokedOK, RevokeHolds
  <2>3. QED
    BY <2>1, <2>2
<1>6. ASSUME NEW q \in Requests, IsRevoked(q)
      PROVE  IInv'
  <2>1. CASE Returns(q)
    <3>1. idle' \subseteq [host : Routes \cup {Nil}, to : Routes] /\ PoolOK'
      BY <1>6 DEF IsRevoked, TypeOK, PoolOK
    <3>2. QED
      BY <1>6, <2>1, <3>1, ReturnsOK DEF IsRevoked
  <2>2. CASE tok[q] \notin revoked /\ Goto(q, "admitted")
    <3>1. TypeOK' /\ PoolOK' /\ RevokedOK'
      BY <1>6, <2>2 DEF IsRevoked, Goto, Returns, TypeOK, PoolOK, RevokedOK
    <3>2. RequestOK'
      BY <1>6, <2>2 DEF IsRevoked, Goto, Returns, TypeOK, RequestOK
    <3>3. RevokeHolds'
      BY <1>6, <2>2 DEF IsRevoked, Goto, Returns, TypeOK, RequestOK, RevokedOK, RevokeHolds
    <3>4. QED
      BY <3>1, <3>2, <3>3
  <2>3. QED
    BY <1>6, <2>1, <2>2 DEF IsRevoked
<1>7. ASSUME NEW q \in Requests, Dials(q)
      PROVE  IInv'
  <2>1. CASE Returns(q) /\ UNCHANGED idle
    <3>1. idle' \subseteq [host : Routes \cup {Nil}, to : Routes] /\ PoolOK'
      BY <2>1 DEF TypeOK, PoolOK
    <3>2. QED
      BY <1>7, <2>1, <3>1, ReturnsOK DEF Dials
  <2>2. CASE UNCHANGED requestVars
    BY <1>7, <2>2 DEF Dials, Returns, Goto, UpstreamHost, TypeOK, PoolOK, RequestOK, RevokedOK,
                      RevokeHolds
  <2>3. QED
    BY <1>7, <2>1, <2>2 DEF Dials
<1>8. ASSUME NEW q \in Requests, Carried(q)
      PROVE  IInv'
  BY <1>8 DEF Carried, Goto, UpstreamHost, TypeOK, PoolOK, RequestOK, RevokedOK, RevokeHolds
<1>9. ASSUME NEW q \in Requests, Ends(q)
      PROVE  IInv'
  <2>1. idle' \subseteq [host : Routes \cup {Nil}, to : Routes] /\ PoolOK'
    BY <1>9 DEF Ends, UpstreamHost, TypeOK, PoolOK, RequestOK
  <2>2. QED
    BY <1>9, <2>1, ReturnsOK DEF Ends
<1>10. ASSUME NEW c \in idle, ConnCloses(c)
       PROVE  IInv'
  BY <1>10 DEF ConnCloses, TypeOK, PoolOK, RequestOK, RevokedOK, RevokeHolds
<1>11. CASE UNCHANGED vars
  BY <1>11 DEF vars, TypeOK, PoolOK, RequestOK, RevokedOK, RevokeHolds
<1>12. QED
  BY <1>1, <1>2, <1>3, <1>4, <1>5, <1>6, <1>7, <1>8, <1>9, <1>10, <1>11 DEF Next

LEMMA PreviewInvariant == Spec => []IInv
BY PreviewInit, PreviewStep, PTL DEF Spec

(***************************************************************************)
(* The state of the preview handler stays well typed.                       *)
(***************************************************************************)
THEOREM PreviewTyped == Spec => []TypeOK
<1>1. IInv => TypeOK
  BY DEF IInv
<1>2. QED
  BY PreviewInvariant, <1>1, PTL

(***************************************************************************)
(* ServeHTTP with a pooling transport carries every request to the route    *)
(* its token was minted for (proxy.go:102-157).                             *)
(***************************************************************************)
THEOREM RoutesKept == Spec => []CarriedToOwnRoute
<1>1. IInv => CarriedToOwnRoute
  BY DEF IInv, RequestOK, Active, CarriedToOwnRoute
<1>2. QED
  BY PreviewInvariant, <1>1, PTL

(***************************************************************************)
(* Pruning the revocation set (proxy.go:86-92) never lets a withdrawn       *)
(* string through while its token would still be valid, whatever other      *)
(* strings decode to that token.                                            *)
(***************************************************************************)
THEOREM RevocationHolds == Spec => []RevokeHolds
<1>1. IInv => RevokeHolds
  BY DEF IInv
<1>2. QED
  BY PreviewInvariant, <1>1, PTL

=============================================================================
