---------------------------- MODULE PoolService ----------------------------
(***************************************************************************)
(* Proofs about the service the pool gives its peers: a call for one key   *)
(* never disturbs another one, success means that the peer is served, and  *)
(* one thing going wrong costs no service.                                 *)
(*                                                                         *)
(* The argument: the commands for a peer touch one peer entry and one      *)
(* route, so only taking a link away could disturb somebody else, and the  *)
(* pool takes away only links whose last peer is the one it works for and  *)
(* links it has just created under a name nobody has.  Undisturbed states  *)
(* this for a step and composes, so each method follows from its parts.    *)
(***************************************************************************)
EXTENDS PoolProofs

\* Peer j is served by profile x, on link n and port m, its address b routed
\* to n.
On(s, x, j, n, m, b) ==
  /\ s.ifaces[x].name = n /\ s.ifaces[x].port = m /\ j \in s.ifaces[x].peers
  /\ <<n, j>> \in s.kpeers
  /\ <<n, m>> \in s.listen
  /\ s.routes[b] = n

\* Every tracked interface listens on the port the pool has noted for it.
Listening(s) == \A p \in Tracked(s) : <<s.ifaces[p].name, s.ifaces[p].port>> \in s.listen

\* A step on behalf of key k at address a leaves every other peer where it was,
\* and no tracked interface deaf.
Undisturbed(s, t, k, a) ==
  /\ \A x \in Profiles, j \in Keys \ {k}, n \in Nat, m \in Nat, b \in Addrs \ {a} :
       On(s, x, j, n, m, b) => On(t, x, j, n, m, b)
  /\ Listening(s) => Listening(t)

\* Doing nothing disturbs nobody.
LEMMA UndisturbedRefl ==
  ASSUME NEW s, NEW k, NEW a
  PROVE  Undisturbed(s, s, k, a)
BY DEF Undisturbed

\* Steps on behalf of one key may follow each other.
LEMMA UndisturbedTrans ==
  ASSUME NEW s, NEW t, NEW u, NEW k, NEW a, Undisturbed(s, t, k, a), Undisturbed(t, u, k, a)
  PROVE  Undisturbed(s, u, k, a)
BY DEF Undisturbed

-----------------------------------------------------------------------------
(***************************************************************************)
(* Commands on peers and routes.                                           *)
(***************************************************************************)
\* No route but that of address a has changed.
RouteStep(s, t, a) == \A b \in Addrs \ {a} : t.routes[b] = s.routes[b]

\* A command for peer k on link n and for the route of a disturbs nobody else.
LEMMA PeerUndisturbed ==
  ASSUME NEW s, NEW t, NEW n, NEW k, NEW a, PeerStep(s, t, n, k), RouteStep(s, t, a)
  PROVE  Undisturbed(s, t, k, a)
<1>1. ASSUME NEW i \in Nat, NEW j \in Keys \ {k}, <<i, j>> \in s.kpeers
      PROVE  <<i, j>> \in t.kpeers
  BY <1>1 DEF PeerStep
<1>2. Tracked(t) = Tracked(s) /\ t.ifaces = s.ifaces /\ t.listen = s.listen
  BY DEF PeerStep, Tracked
<1> QED BY <1>1, <1>2 DEF Undisturbed, On, Listening, RouteStep

\* A failure counted changes no route.
LEMMA FaultedRoutes ==
  ASSUME NEW s \in States
  PROVE  Faulted(s).routes = s.routes
BY DEF Faulted, States

\* awg set ... peer changes no route; on success the peer is live.
LEMMA SetPeerRoutes ==
  ASSUME NEW s \in States, NEW n \in Nat, NEW k \in Keys,
         NEW o \in setPeerOnInterface(s, n, k)
  PROVE  /\ o.st.routes = s.routes
         /\ o.err = "ok" => <<n, k>> \in o.st.kpeers
<1> DEFINE t == [s EXCEPT !.kpeers = @ \cup {<<n, k>>}]
<1>1. t.routes = s.routes /\ <<n, k>> \in t.kpeers
  BY DEF States
<1>2. Outcomes(s, o, t)
  BY Zenon DEF Outcomes, setPeerOnInterface, Command, Done, Outcome
<1> HIDE DEF t
<1> QED BY <1>1, <1>2, FaultedRoutes DEF Outcomes

\* awg set ... peer remove changes no route.
LEMMA RemovePeerOnlyRoutes ==
  ASSUME NEW s \in States, NEW n \in Nat, NEW k \in Keys,
         NEW o \in removePeerOnlyFromInterface(s, n, k)
  PROVE  o.st.routes = s.routes
<1> DEFINE t == [s EXCEPT !.kpeers = @ \ {<<n, k>>}]
<1>1. t.routes = s.routes
  BY DEF States
<1>2. Outcomes(s, o, t)
  BY Zenon DEF Outcomes, removePeerOnlyFromInterface, Command, Done, Outcome
<1> HIDE DEF t
<1> QED BY <1>1, <1>2, FaultedRoutes DEF Outcomes

\* ip route replace changes one route, which on success leads to the link.
LEMMA ReplaceRouteRoutes ==
  ASSUME NEW s \in States, NEW n \in Nat, NEW a \in Addrs,
         NEW o \in replacePeerRoute(s, n, a)
  PROVE  RouteStep(s, o.st, a) /\ (o.err = "ok" => o.st.routes[a] = n)
<1> DEFINE t == [s EXCEPT !.routes[a] = n]
<1>1. RouteStep(s, t, a) /\ t.routes[a] = n
  BY DEF States, RouteStep
<1>2. Outcomes(s, o, t)
  BY Zenon DEF Outcomes, replacePeerRoute, Command, Done, Outcome
<1>3. RouteStep(s, s, a) /\ RouteStep(s, Faulted(s), a)
  BY FaultedRoutes DEF RouteStep
<1> HIDE DEF t
<1> QED BY <1>1, <1>2, <1>3 DEF Outcomes

\* ip route del changes one route.
LEMMA DeleteRouteRoutes ==
  ASSUME NEW s \in States, NEW n \in Nat, NEW a \in Addrs,
         NEW o \in deletePeerRoute(s, n, a)
  PROVE  RouteStep(s, o.st, a)
<1> DEFINE t == [s EXCEPT !.routes[a] = NoName]
<1>1. RouteStep(s, t, a)
  BY DEF States, RouteStep
<1>2. Outcomes(s, o, t)
  BY Zenon DEF Outcomes, deletePeerRoute, Command, Done, Outcome
<1>3. RouteStep(s, s, a) /\ RouteStep(s, Faulted(s), a)
  BY FaultedRoutes DEF RouteStep
<1> HIDE DEF t
<1> QED BY <1>1, <1>2, <1>3 DEF Outcomes

\* addPeerToInterface disturbs nobody else; on success the peer is live and routed.
LEMMA AddToInterfaceServes ==
  ASSUME NEW s \in States, NEW n \in Nat, NEW k \in Keys, NEW a \in Addrs,
         NEW o \in addPeerToInterface(s, n, k, a)
  PROVE  /\ Undisturbed(s, o.st, k, a)
         /\ o.err = "ok" => <<n, k>> \in o.st.kpeers /\ o.st.routes[a] = n
<1>1. PICK u \in setPeerOnInterface(s, n, k) :
        o \in IF u.err = "ok" THEN replacePeerRoute(u.st, n, a) ELSE {u}
  BY DEF addPeerToInterface, Then
<1>2. /\ u.st.routes = s.routes /\ u.st \in States
      /\ u.err = "ok" => <<n, k>> \in u.st.kpeers
  BY SetPeerStep, SetPeerRoutes DEF PeerStep
<1>3. PeerStep(s, o.st, n, k)
  BY AddToInterfaceStep
<1>4. CASE u.err = "ok"
  <2>1. /\ RouteStep(u.st, o.st, a) /\ (o.err = "ok" => o.st.routes[a] = n)
        /\ o.st.kpeers = u.st.kpeers
    BY <1>1, <1>2, <1>4, ReplaceRouteRoutes, ReplaceRouteStep
  <2>2. RouteStep(s, o.st, a)
    BY <1>2, <2>1 DEF RouteStep
  <2> QED BY <1>2, <1>3, <1>4, <2>1, <2>2, PeerUndisturbed
<1>5. CASE u.err # "ok"
  <2>1. RouteStep(s, o.st, a) /\ o.err # "ok"
    BY <1>1, <1>2, <1>5 DEF RouteStep
  <2> QED BY <1>3, <2>1, PeerUndisturbed
<1> QED BY <1>4, <1>5

\* restorePeerAndRoute changes one route.
LEMMA RestoreRoutes ==
  ASSUME NEW s \in States, NEW n \in Nat, NEW k \in Keys, NEW a \in Addrs,
         NEW o \in restorePeerAndRoute(s, n, k, a)
  PROVE  RouteStep(s, o.st, a)
<1>1. PICK u \in setPeerOnInterface(s, n, k) :
        \E r \in replacePeerRoute(u.st, n, a) :
          o = Outcome(r.st, IF u.err = "ok" THEN r.err ELSE u.err)
  BY DEF restorePeerAndRoute
<1>2. PICK r \in replacePeerRoute(u.st, n, a) : o.st = r.st
  BY <1>1 DEF Outcome
<1>3. u.st.routes = s.routes /\ u.st \in States
  <2>1. PeerStep(s, u.st, n, k)
    BY SetPeerStep
  <2>2. u.st.routes = s.routes
    BY SetPeerRoutes, ZenonT(40)
  <2> QED BY <2>1, <2>2 DEF PeerStep
<1>4. RouteStep(u.st, r.st, a)
  BY <1>3, ReplaceRouteRoutes
<1> QED BY <1>2, <1>3, <1>4 DEF RouteStep

\* ... and disturbs nobody else.
LEMMA RestoreUndisturbed ==
  ASSUME NEW s \in States, NEW n \in Nat, NEW k \in Keys, NEW a \in Addrs,
         NEW o \in restorePeerAndRoute(s, n, k, a)
  PROVE  Undisturbed(s, o.st, k, a)
BY RestoreStep, RestoreRoutes, PeerUndisturbed

\* removePeerFromInterface disturbs nobody else, whichever of its commands and
\* of their repairs fails.
LEMMA RemoveFromInterfaceUndisturbed ==
  ASSUME NEW s \in States, NEW n \in Nat, NEW k \in Keys, NEW a \in Addrs,
         NEW o \in removePeerFromInterface(s, n, k, a)
  PROVE  Undisturbed(s, o.st, k, a)
<1>1. PICK u \in removePeerOnlyFromInterface(s, n, k) :
        o \in IF u.err = "ok"
                THEN Catch(deletePeerRoute(u.st, n, a),
                           LAMBDA x : {Outcome(r.st, "failed") :
                                         r \in restorePeerAndRoute(x.st, n, k, a)})
                ELSE {u}
  BY DEF removePeerFromInterface, Then
<1>2. u.st.routes = s.routes /\ u.st \in States
  <2>1. PeerStep(s, u.st, n, k) /\ u.st.routes = s.routes
    BY RemovePeerOnlyStep, RemovePeerOnlyRoutes
  <2> QED BY <2>1 DEF PeerStep
<1>3. RouteStep(s, o.st, a)
  <2>1. CASE u.err = "ok"
    <3>1. PICK x \in deletePeerRoute(u.st, n, a) :
            o \in IF x.err = "ok" THEN {x}
                  ELSE {Outcome(r.st, "failed") : r \in restorePeerAndRoute(x.st, n, k, a)}
      BY <1>1, <2>1 DEF Catch
    <3>2. RouteStep(u.st, x.st, a) /\ x.st \in States
      BY <1>2, DeleteRouteStep, DeleteRouteRoutes DEF PeerStep
    <3>3. CASE x.err = "ok"
      BY <1>2, <3>1, <3>2, <3>3 DEF RouteStep
    <3>4. CASE x.err # "ok"
      <4>1. PICK r \in restorePeerAndRoute(x.st, n, k, a) : o = Outcome(r.st, "failed")
        BY <3>1, <3>4
      <4>2. o.st = r.st /\ RouteStep(x.st, r.st, a)
        BY <3>2, <4>1, RestoreRoutes DEF Outcome
      <4> QED BY <1>2, <3>2, <4>2 DEF RouteStep
    <3> QED BY <3>3, <3>4
  <2>2. CASE u.err # "ok"
    BY <1>1, <1>2, <2>2 DEF RouteStep
  <2> QED BY <2>1, <2>2
<1> QED BY <1>3, RemoveFromInterfaceStep, PeerUndisturbed

\* cleanupPeerAfterFailedAdd disturbs nobody else.
LEMMA CleanupUndisturbed ==
  ASSUME NEW s \in States, NEW n \in Nat, NEW k \in Keys, NEW a \in Addrs,
         NEW c \in cleanupPeerAfterFailedAdd(s, n, k, a)
  PROVE  Undisturbed(s, c.st, k, a)
<1>1. PICK u \in removePeerOnlyFromInterface(s, n, k) :
        \E r \in deletePartialRoute(u.st, n, a) :
          c = [st |-> r.st, removed |-> u.err = "ok",
               err |-> IF u.err = "ok" THEN r.err ELSE u.err]
  BY DEF cleanupPeerAfterFailedAdd
<1>2. u.st.routes = s.routes /\ u.st \in States
  <2>1. PeerStep(s, u.st, n, k) /\ u.st.routes = s.routes
    BY RemovePeerOnlyStep, RemovePeerOnlyRoutes
  <2> QED BY <2>1 DEF PeerStep
<1>3. PICK r \in deletePartialRoute(u.st, n, a) : c.st = r.st
  BY <1>1
<1>4. PICK v \in peerRouteExists(u.st, n) :
        r \in IF v.err = "ok"
                THEN IF v.st.routes[a] = n THEN deletePeerRoute(v.st, n, a) ELSE {Done(v.st)}
                ELSE {v}
  BY DEF deletePartialRoute, Then
<1>5. v.st.routes = u.st.routes /\ v.st \in States
  <2>1. Outcomes(u.st, v, u.st)
    BY Zenon DEF Outcomes, peerRouteExists, Command, Done, Outcome
  <2>2. v.st = u.st \/ v.st = Faulted(u.st)
    BY <2>1 DEF Outcomes
  <2> QED BY <1>2, <2>2, PeerStepRefl, FaultedRoutes DEF PeerStep
<1>6. RouteStep(v.st, r.st, a)
  <2>1. CASE r \in deletePeerRoute(v.st, n, a)
    BY <1>5, <2>1, DeleteRouteRoutes
  <2>2. CASE r = v \/ r = Done(v.st)
    BY <2>2 DEF RouteStep, Done, Outcome
  <2> QED BY <1>4, <2>1, <2>2
<1>7. RouteStep(s, c.st, a)
  BY <1>2, <1>3, <1>5, <1>6 DEF RouteStep
<1> QED BY <1>7, CleanupStep, PeerUndisturbed

-----------------------------------------------------------------------------
(***************************************************************************)
(* Changes of the books and of the links.                                  *)
(***************************************************************************)
\* A profile whose peerCount is zero has no peer.
LEMMA EmptyCount ==
  ASSUME NEW s, NEW p \in Profiles, Books(s), s.ifaces[p].count = 0
  PROVE  s.ifaces[p].peers = {}
BY FS_EmptySet DEF Books, CountsPeersIn, NamesAndSizes

\* t differs from s only in whether profile p tracks k.
SameBut(s, t, p, k) ==
  /\ t.kpeers = s.kpeers /\ t.listen = s.listen /\ t.routes = s.routes
  /\ \A q \in Profiles : /\ t.ifaces[q].name = s.ifaces[q].name
                         /\ t.ifaces[q].port = s.ifaces[q].port
                         /\ t.ifaces[q].peers \ {k} = s.ifaces[q].peers \ {k}
                         /\ q # p => t.ifaces[q] = s.ifaces[q]

\* Such a change disturbs nobody else.
LEMMA SameButUndisturbed ==
  ASSUME NEW s, NEW t, NEW p, NEW k, NEW a, SameBut(s, t, p, k)
  PROVE  Undisturbed(s, t, k, a)
<1>1. Tracked(t) = Tracked(s)
  BY DEF SameBut, Tracked
<1>2. Listening(s) => Listening(t)
  BY <1>1 DEF SameBut, Listening, Tracked
<1>3. ASSUME NEW x \in Profiles, NEW j \in Keys \ {k}, j \in s.ifaces[x].peers
      PROVE  j \in t.ifaces[x].peers
  BY <1>3 DEF SameBut
<1> QED BY <1>2, <1>3 DEF SameBut, Undisturbed, On

\* trackPeer disturbs nobody else.
LEMMA TrackUndisturbed ==
  ASSUME NEW s \in States, NEW p \in Tracked(s), NEW k \in Keys, NEW a
  PROVE  LET t == trackPeer(s, p, k)
         IN /\ Undisturbed(s, t, k, a) /\ SameBut(s, t, p, k)
            /\ k \in t.ifaces[p].peers
<1>1. p \in Profiles /\ s.ifaces[p] \in Iface
  BY TrackedName
<1>2. SameBut(s, trackPeer(s, p, k), p, k) /\ k \in trackPeer(s, p, k).ifaces[p].peers
  BY <1>1 DEF trackPeer, SameBut, States, Iface
<1> QED BY <1>2, SameButUndisturbed

\* untrackPeer disturbs nobody else.
LEMMA UntrackUndisturbed ==
  ASSUME NEW s \in States, NEW p \in Tracked(s), NEW k \in Keys, NEW a
  PROVE  LET t == untrackPeer(s, p, k)
         IN Undisturbed(s, t, k, a) /\ SameBut(s, t, p, k)
<1>1. p \in Profiles /\ s.ifaces[p] \in Iface
  BY TrackedName
<1>2. SameBut(s, untrackPeer(s, p, k), p, k)
  BY <1>1 DEF untrackPeer, SameBut, States, Iface
<1> QED BY <1>2, SameButUndisturbed

\* The routes that do not lead to a deleted link stay.
LEMMA UnlinkedRoutes ==
  ASSUME NEW s \in States, NEW gone, NEW b \in Addrs, s.routes[b] \notin gone
  PROVE  Unlinked(s, gone).routes[b] = s.routes[b]
BY DEF Unlinked, States

\* An interface without a peer but k may be destroyed: its link carries nobody
\* else, and no other profile has a link of that name.
LEMMA DestroyUndisturbed ==
  ASSUME NEW s, NEW p \in Tracked(s), NEW k \in Keys, NEW a \in Addrs, Books(s),
         s.ifaces[p].peers \subseteq {k}, NEW o \in destroyTrackedInterface(s, p)
  PROVE  Undisturbed(s, o.st, k, a)
<1> DEFINE n == s.ifaces[p].name
           port == s.ifaces[p].port
           v == Unlinked(s, {n})
           t == [v EXCEPT !.usedPorts = @ \ {port}, !.ifaces[p] = NoIface]
<1>1. s \in States /\ p \in Profiles /\ n \in Nat /\ port \in Nat
  BY TrackedName DEF Books, Iface
<1>2. PICK u \in destroyInterface(s, n) :
        o \in IF u.err = "ok"
                THEN {Done([u.st EXCEPT !.usedPorts = @ \ {port}, !.ifaces[p] = NoIface])}
                ELSE {u}
  BY DEF destroyTrackedInterface, Then
<1>3. Outcomes(s, u, v)
  BY Zenon DEF Outcomes, destroyInterface, Command, Done, Outcome
<1>4. CASE u.err # "ok"
  <2>1. o.st = s \/ o.st = Faulted(s)
    BY <1>2, <1>3, <1>4 DEF Outcomes
  <2>2. PeerStep(s, o.st, n, k) /\ RouteStep(s, o.st, a)
    BY <1>1, <2>1, PeerStepRefl, FaultedRoutes DEF RouteStep
  <2> QED BY <2>2, PeerUndisturbed
<1>5. CASE u.err = "ok"
  <2>1. o.st = t
    <3>1. u.st = v
      BY <1>3, <1>5 DEF Outcomes
    <3> QED BY <1>2, <1>5, <3>1 DEF Done, Outcome
  <2>2. /\ t.ifaces = [s.ifaces EXCEPT ![p] = NoIface]
        /\ t.listen = {l \in s.listen : l[1] # n}
        /\ t.kpeers = {x \in s.kpeers : x[1] # n}
        /\ \A b \in Addrs : s.routes[b] # n => t.routes[b] = s.routes[b]
    <3>1. /\ v \in States /\ v.ifaces = s.ifaces
          /\ v.listen = {l \in s.listen : l[1] # n}
          /\ v.kpeers = {x \in s.kpeers : x[1] # n}
      BY <1>1, UnlinkedFields
    <3>2. \A b \in Addrs : s.routes[b] # n => v.routes[b] = s.routes[b]
      BY <1>1, UnlinkedRoutes
    <3> HIDE DEF v
    <3> QED BY <1>1, <3>1, <3>2 DEF States
  <2> HIDE DEF t
  <2>3. /\ t.ifaces[p] = NoIface
        /\ \A q \in Profiles : q # p => t.ifaces[q] = s.ifaces[q]
    BY <1>1, <2>2 DEF States
  <2>4. \A q \in Tracked(s) : q # p => s.ifaces[q].name # n
    BY DEF Books, HostAccountedIn
  <2>5. Listening(s) => Listening(t)
    <3>1. \A q \in Tracked(t) : q \in Tracked(s) /\ q # p /\ t.ifaces[q] = s.ifaces[q]
      BY <2>3 DEF Tracked, NoIface
    <3> QED BY <2>2, <2>4, <3>1 DEF Listening
  <2>6. ASSUME NEW x \in Profiles, NEW j \in Keys \ {k}, NEW i \in Nat, NEW m \in Nat,
               NEW b \in Addrs \ {a}, On(s, x, j, i, m, b)
        PROVE  On(t, x, j, i, m, b)
    <3>1. x # p /\ x \in Tracked(s)
      BY <2>6 DEF On, Tracked, NoName
    <3>2. i # n
      BY <2>4, <2>6, <3>1 DEF On
    <3> QED BY <2>2, <2>3, <2>6, <3>1, <3>2 DEF On
  <2> QED BY <2>1, <2>5, <2>6 DEF Undisturbed
<1> QED BY <1>4, <1>5

\* t is s with more, if anything, listening.
Louder(s, t) ==
  /\ t \in States /\ t.ifaces = s.ifaces /\ t.kpeers = s.kpeers /\ t.routes = s.routes
  /\ s.listen \subseteq t.listen

\* Bringing a link up takes nothing from the host; on success it listens.
LEMMA BringUpLouder ==
  ASSUME NEW s \in States, NEW n \in Nat, NEW port \in Nat, NEW o \in bringUp(s, n, port)
  PROVE  Louder(s, o.st) /\ (o.err = "ok" => <<n, port>> \in o.st.listen)
<1>1. PICK u \in configureDevice(s, n, port) :
        o \in IF u.err = "ok"
                THEN Then(configureInterfaceNetwork(u.st, n),
                          LAMBDA x : IF x.masqAdded THEN {Done(x)} ELSE addMasquerade(x))
                ELSE {u}
  BY DEF bringUp, Then
<1>f. ASSUME NEW t \in States
      PROVE  /\ Faulted(t) \in States /\ Faulted(t).ifaces = t.ifaces
             /\ Faulted(t).kpeers = t.kpeers /\ Faulted(t).routes = t.routes
             /\ Faulted(t).listen = t.listen
  BY PeerStepRefl, FaultedRoutes DEF PeerStep
<1>2. Louder(s, u.st) /\ (u.err = "ok" => <<n, port>> \in u.st.listen)
  <2> DEFINE e == [s EXCEPT !.listen = @ \cup {<<n, port>>}]
  <2>1. Outcomes(s, u, e)
    BY Zenon DEF Outcomes, configureDevice, Command, Done, Outcome
  <2>2. Louder(s, e) /\ <<n, port>> \in e.listen
    BY DEF Louder, States
  <2>3. Louder(s, s) /\ Louder(s, Faulted(s))
    BY <1>f DEF Louder
  <2> HIDE DEF e
  <2> QED BY <2>1, <2>2, <2>3 DEF Outcomes
<1>3. CASE u.err = "ok"
  <2>1. PICK v \in configureInterfaceNetwork(u.st, n) :
          o \in IF v.err = "ok"
                  THEN IF v.st.masqAdded THEN {Done(v.st)} ELSE addMasquerade(v.st)
                  ELSE {v}
    BY <1>1, <1>3 DEF Then
  <2>2. Louder(s, v.st) /\ v.st \in States /\ <<n, port>> \in v.st.listen
    <3>1. Outcomes(u.st, v, u.st)
      BY Zenon DEF Outcomes, configureInterfaceNetwork, Command, Done, Outcome
    <3>2. v.st = u.st \/ v.st = Faulted(u.st)
      BY <3>1 DEF Outcomes
    <3>3. u.st \in States
      BY <1>2 DEF Louder
    <3> QED BY <1>2, <1>3, <1>f, <3>2, <3>3 DEF Louder
  <2>3. CASE o.st = v.st
    BY <2>2, <2>3
  <2>4. CASE o \in addMasquerade(v.st)
    <3> DEFINE w == v.st
               e == [w EXCEPT !.masq = @ + 1, !.masqAdded = TRUE]
    <3>1. Outcomes(w, o, e)
      BY <2>4, Zenon DEF Outcomes, addMasquerade, Command, Done, Outcome
    <3>2. w \in States
      BY <2>2
    <3> HIDE DEF w
    <3>3. e \in States
      <4> DEFINE f == [w EXCEPT !.masq = @ + 1]
      <4>1. f \in States
        BY <3>2 DEF States
      <4>2. e = [f EXCEPT !.masqAdded = TRUE]
        OBVIOUS
      <4> HIDE DEF f, e
      <4> QED BY <4>1, <4>2 DEF States
    <3>4. /\ e.ifaces = w.ifaces /\ e.kpeers = w.kpeers /\ e.routes = w.routes
          /\ e.listen = w.listen
      BY <3>2 DEF States
    <3> HIDE DEF e
    <3>5. o.st = e \/ o.st = w \/ o.st = Faulted(w)
      BY <3>1 DEF Outcomes
    <3>6. /\ o.st \in States /\ o.st.ifaces = w.ifaces /\ o.st.kpeers = w.kpeers
          /\ o.st.routes = w.routes /\ o.st.listen = w.listen
      BY <1>f, <3>2, <3>3, <3>4, <3>5
    <3>7. Louder(s, w) /\ <<n, port>> \in w.listen
      BY <2>2 DEF w
    <3> QED BY <3>6, <3>7 DEF Louder
  <2>5. o.st = v.st \/ o \in addMasquerade(v.st)
    BY <2>1 DEF Done, Outcome
  <2> QED BY <2>3, <2>4, <2>5
<1> QED BY <1>1, <1>2, <1>3

\* A louder host disturbs nobody.
LEMMA LouderUndisturbed ==
  ASSUME NEW s, NEW t, NEW k, NEW a, Louder(s, t)
  PROVE  Undisturbed(s, t, k, a)
<1>1. Tracked(t) = Tracked(s)
  BY DEF Louder, Tracked
<1> QED BY <1>1 DEF Louder, Undisturbed, On, Listening

\* A link that was not brought up has a name nobody uses, so nobody misses it.
LEMMA AbandonUndisturbed ==
  ASSUME NEW s, NEW t, NEW n \in Nat, NEW port \in Nat, NEW k, NEW a, Louder(s, t),
         \A q \in Tracked(s) : s.ifaces[q].name # n,
         NEW o \in abandonInterface(t, n, port)
  PROVE  Undisturbed(s, o.st, k, a)
<1> DEFINE v == Unlinked(t, {n})
<1>1. PICK d \in destroyInterface(t, n) :
        o = IF d.err = "ok" THEN Outcome(d.st, "failed")
                            ELSE Outcome(trackOrphanInterface(d.st, n, port), "rollbackFailed")
  BY DEF abandonInterface
<1>2. Outcomes(t, d, v)
  BY Zenon DEF Outcomes, destroyInterface, Command, Done, Outcome
<1>3. t \in States
  BY DEF Louder
<1>4. CASE d.err = "ok"
  <2>1. o.st = v
    <3>1. d.st = v
      BY <1>2, <1>4 DEF Outcomes
    <3> QED BY <1>1, <1>4, <3>1 DEF Outcome
  <2>2. /\ v.ifaces = s.ifaces
        /\ \A l \in s.listen : l[1] # n => l \in v.listen
        /\ \A x \in s.kpeers : x[1] # n => x \in v.kpeers
        /\ \A b \in Addrs : s.routes[b] # n => v.routes[b] = s.routes[b]
    BY <1>3, UnlinkedFields, UnlinkedRoutes DEF Louder
  <2> HIDE DEF v
  <2>3. Tracked(v) = Tracked(s)
    BY <2>2 DEF Tracked
  <2>4. Listening(s) => Listening(v)
    BY <2>2, <2>3 DEF Listening
  <2>5. ASSUME NEW x \in Profiles, NEW j \in Keys \ {k}, NEW i \in Nat, NEW m \in Nat,
               NEW b \in Addrs \ {a}, On(s, x, j, i, m, b)
        PROVE  On(v, x, j, i, m, b)
    <3>1. x \in Tracked(s) /\ i # n
      BY <2>5 DEF On, Tracked, NoName
    <3> QED BY <2>2, <2>5, <3>1 DEF On
  <2> QED BY <2>1, <2>4, <2>5 DEF Undisturbed
<1>5. CASE d.err # "ok"
  <2>1. d.st = t \/ d.st = Faulted(t)
    BY <1>2, <1>5 DEF Outcomes
  <2>2. Louder(s, d.st)
    BY <1>3, <2>1, PeerStepRefl, FaultedRoutes DEF PeerStep, Louder
  <2>3. o.st = trackOrphanInterface(d.st, n, port)
    BY <1>1, <1>5 DEF Outcome
  <2>4. Louder(d.st, trackOrphanInterface(d.st, n, port))
    <3>1. d.st \in States
      BY <2>2 DEF Louder
    <3> DEFINE w == d.st
               r == [name |-> n, port |-> port]
    <3>2. w \in States /\ r \in [name : Nat, port : Nat]
      BY <3>1
    <3> HIDE DEF w, r
    <3>3. Louder(w, [w EXCEPT !.orphans = @ \cup {r}, !.usedPorts = @ \cup {port}])
      BY <3>2 DEF Louder, States
    <3> QED BY <3>3 DEF trackOrphanInterface, w, r
  <2>5. Louder(s, o.st)
    BY <2>2, <2>3, <2>4 DEF Louder
  <2> QED BY <2>5, LouderUndisturbed
<1> QED BY <1>4, <1>5

\* A link that was brought up and is registered on a free profile listens.
LEMMA RegisterUndisturbed ==
  ASSUME NEW s, NEW t, NEW p \in Profiles, NEW n \in Nat, NEW port \in Nat, NEW k, NEW a,
         Louder(s, t), p \notin Tracked(s), <<n, port>> \in t.listen
  PROVE  LET u == registerInterface(t, p, n, port)
         IN Undisturbed(s, u, k, a) /\ u.ifaces[p].port = port
<1> DEFINE u == registerInterface(t, p, n, port)
           i == [name |-> n, port |-> port, count |-> 0, peers |-> {}]
<1>1. t \in States
  BY DEF Louder
<1>2. /\ u.ifaces[p] = i
      /\ \A q \in Profiles : q # p => u.ifaces[q] = t.ifaces[q]
      /\ u.listen = t.listen /\ u.kpeers = t.kpeers /\ u.routes = t.routes
  BY <1>1 DEF registerInterface, States
<1> HIDE DEF u
<1>3. Listening(s) => Listening(u)
  <2> SUFFICES ASSUME Listening(s), NEW q \in Tracked(u)
               PROVE  <<u.ifaces[q].name, u.ifaces[q].port>> \in u.listen
    BY DEF Listening
  <2>1. CASE q = p
    BY <1>2, <2>1
  <2>2. CASE q # p
    <3>1. q \in Tracked(s) /\ u.ifaces[q] = s.ifaces[q]
      BY <1>2, <2>2 DEF Louder, Tracked
    <3> QED BY <1>2, <3>1 DEF Listening, Louder
  <2> QED BY <2>1, <2>2
<1>4. ASSUME NEW x \in Profiles, NEW j \in Keys \ {k}, NEW h \in Nat, NEW m \in Nat,
             NEW b \in Addrs \ {a}, On(s, x, j, h, m, b)
      PROVE  On(u, x, j, h, m, b)
  <2>1. x # p
    BY <1>4 DEF On, Tracked, NoName
  <2> QED BY <1>2, <1>4, <2>1 DEF On, Louder
<1>5. Undisturbed(s, u, k, a) /\ u.ifaces[p].port = port
  BY <1>2, <1>3, <1>4 DEF Undisturbed
<1> QED BY <1>5 DEF u

\* Creating an interface disturbs nobody, if it fails half-way too.
LEMMA NewInterfaceUndisturbed ==
  ASSUME NEW s, NEW port, NEW p \in Profiles, NEW k, NEW a, Inv(s),
         Free(s, s.nextIndex, port), p \notin Tracked(s), NEW o \in newInterface(s, p, port)
  PROVE  /\ Undisturbed(s, o.st, k, a)
         /\ o.err = "ok" => o.st.ifaces[p].port = port
<1> DEFINE n == s.nextIndex
           b == [s EXCEPT !.nextIndex = n + 1]
           e == [b EXCEPT !.links = @ \cup {n}]
<1>1. s \in States /\ n \in Nat /\ port \in Nat /\ b \in States
  BY DEF Inv, Books, States, Free
<1>2. PICK c \in createInterface(b, n) :
        o \in IF c.err = "ok"
                THEN Then(Catch(bringUp(c.st, n, port),
                                LAMBDA x : abandonInterface(x.st, n, port)),
                          LAMBDA x : {Done(registerInterface(x, p, n, port))})
                ELSE {c}
  BY DEF newInterface, Then
<1>3. Outcomes(b, c, e)
  BY Zenon DEF Outcomes, createInterface, Command, Done, Outcome
<1>4. Louder(s, c.st)
  <2>1. Louder(s, b)
    BY <1>1 DEF Louder, States
  <2>2. Louder(s, e)
    <3>1. Louder(b, e)
      BY <1>1 DEF Louder, States
    <3> QED BY <2>1, <3>1 DEF Louder
  <2>3. Louder(s, Faulted(b))
    <3> HIDE DEF b
    <3>1. PeerStep(b, Faulted(b), 0, 0) /\ Faulted(b).kpeers = b.kpeers
          /\ Faulted(b).routes = b.routes
      BY <1>1, PeerStepRefl, FaultedRoutes
    <3> QED BY <2>1, <3>1 DEF PeerStep, Louder
  <2> HIDE DEF b, e
  <2> QED BY <1>3, <2>1, <2>2, <2>3 DEF Outcomes
<1>5. \A q \in Tracked(s) : s.ifaces[q].name # n
  BY FreeIsFresh DEF Inv
<1> HIDE DEF n, b, e
<1>6. CASE c.err # "ok"
  BY <1>2, <1>4, <1>6, LouderUndisturbed
<1>7. CASE c.err = "ok"
  <2>1. PICK x \in Catch(bringUp(c.st, n, port), LAMBDA y : abandonInterface(y.st, n, port)) :
          o \in IF x.err = "ok" THEN {Done(registerInterface(x.st, p, n, port))} ELSE {x}
    BY <1>2, <1>7 DEF Then
  <2>2. PICK y \in bringUp(c.st, n, port) :
          x \in IF y.err = "ok" THEN {y} ELSE abandonInterface(y.st, n, port)
    BY DEF Catch
  <2>3. c.st \in States
    BY <1>4 DEF Louder
  <2>4. Louder(c.st, y.st) /\ (y.err = "ok" => <<n, port>> \in y.st.listen)
    BY <1>1, <2>3, BringUpLouder
  <2>5. Louder(s, y.st)
    BY <1>4, <2>4 DEF Louder
  <2>6. CASE y.err = "ok"
    <3>1. o = Done(registerInterface(y.st, p, n, port))
      BY <2>1, <2>2, <2>6
    <3>2. o.st = registerInterface(y.st, p, n, port)
      BY <3>1 DEF Done, Outcome
    <3> QED BY <1>1, <2>4, <2>5, <2>6, <3>2, RegisterUndisturbed
  <2>7. CASE y.err # "ok"
    <3>1. x \in abandonInterface(y.st, n, port)
      BY <2>2, <2>7
    <3>2. Undisturbed(s, x.st, k, a)
      BY <1>1, <1>5, <2>5, <3>1, AbandonUndisturbed
    <3>3. x.err # "ok"
      <4>1. PICK d \in destroyInterface(y.st, n) :
              x = IF d.err = "ok" THEN Outcome(d.st, "failed")
                  ELSE Outcome(trackOrphanInterface(d.st, n, port), "rollbackFailed")
        BY <3>1 DEF abandonInterface
      <4> QED BY <4>1 DEF Outcome
    <3> QED BY <2>1, <3>2, <3>3
  <2> QED BY <2>6, <2>7
<1> QED BY <1>6, <1>7

\* getOrCreateInterface disturbs nobody; without an error the profile has the
\* requested port.
LEMMA GetOrCreateUndisturbed ==
  ASSUME NEW s, NEW req \in Nat, NEW p \in Profiles, NEW k, NEW a, Inv(s),
         NEW o \in getOrCreateInterface(s, p, req)
  PROVE  /\ Undisturbed(s, o.st, k, a)
         /\ (o.err = "ok" /\ req # 0) => o.st.ifaces[p].port = req
<1>1. \/ o.st = s /\ ((o.err = "ok" /\ req # 0) => s.ifaces[p].port = req)
      \/ /\ p \notin Tracked(s)
         /\ \E port \in resolvePort(s, req) : o \in newInterface(s, p, port)
  <2>1. CASE p \in Tracked(s)
    BY <2>1 DEF getOrCreateInterface, PortConflicts, Outcome
  <2>2. CASE p \notin Tracked(s) /\ req # 0 /\ req \in s.usedPorts
    BY <2>2 DEF getOrCreateInterface, Outcome
  <2>3. CASE p \notin Tracked(s) /\ (req = 0 \/ req \notin s.usedPorts)
    BY <2>3 DEF getOrCreateInterface, Outcome
  <2> QED BY <2>1, <2>2, <2>3
<1>2. ASSUME NEW port \in resolvePort(s, req)
      PROVE  Free(s, s.nextIndex, port) /\ (req # 0 => port = req)
  BY PortAssumption DEF resolvePort, Free
<1>3. CASE o.st = s /\ ((o.err = "ok" /\ req # 0) => s.ifaces[p].port = req)
  BY <1>3, UndisturbedRefl
<1>4. CASE p \notin Tracked(s) /\ \E port \in resolvePort(s, req) : o \in newInterface(s, p, port)
  <2>1. PICK port \in resolvePort(s, req) : o \in newInterface(s, p, port)
    BY <1>4
  <2>2. Free(s, s.nextIndex, port) /\ (req # 0 => port = req) /\ p \notin Tracked(s)
    BY <1>2, <1>4
  <2>3. o.err = "ok" => o.st.ifaces[p].port = port
    BY <2>1, <2>2, NewInterfaceUndisturbed
  <2>4. Undisturbed(s, o.st, k, a)
    BY <2>1, <2>2, NewInterfaceUndisturbed
  <2> QED BY <2>2, <2>3, <2>4
<1> QED BY <1>1, <1>3, <1>4

-----------------------------------------------------------------------------
(***************************************************************************)
(* The public methods, from the inside out.                                *)
(***************************************************************************)
\* Peer k at address a is live on the interface of profile p, routed to it and
\* tracked there; the interface has the port that was requested, if one was.
Reached(s, p, req, k, a) ==
  /\ p \in Tracked(s) /\ k \in s.ifaces[p].peers
  /\ <<s.ifaces[p].name, k>> \in s.kpeers
  /\ s.routes[a] = s.ifaces[p].name
  /\ req # 0 => s.ifaces[p].port = req

\* Undoing a failed add disturbs nobody: an interface is destroyed only when
\* it has no peer.
LEMMA UndoUndisturbed ==
  ASSUME NEW s, NEW p \in Tracked(s), NEW k \in Keys, NEW a \in Addrs,
         Books(s), LiveBut(s, p, k), NEW o \in undoFailedAdd(s, p, k, a)
  PROVE  Undisturbed(s, o.st, k, a)
<1> DEFINE n == s.ifaces[p].name
           kept(c, t) == IF c.removed THEN t ELSE trackPeer(t, p, k)
<1>1. PICK c \in cleanupPeerAfterFailedAdd(s, n, k, a) :
        o \in IF s.ifaces[p].count = 0
                THEN {IF d.err = "ok" THEN Outcome(d.st, "failed")
                                      ELSE Outcome(kept(c, d.st), "rollbackFailed") :
                        d \in destroyTrackedInterface(c.st, p)}
                ELSE {Outcome(kept(c, c.st), rollbackFailure("failed", c.err))}
  BY DEF undoFailedAdd
<1>2. p \in Profiles /\ n \in Nat /\ s \in States
  BY TrackedName DEF Books
<1>3. PeerStep(s, c.st, n, k) /\ Undisturbed(s, c.st, k, a)
  BY <1>2, CleanupStep, CleanupUndisturbed
<1>4. /\ Books(c.st) /\ LiveBut(c.st, p, k) /\ Tracked(c.st) = Tracked(s)
      /\ c.st.ifaces = s.ifaces
  BY <1>2, <1>3, PeerStepBooks DEF PeerStep
<1>5. ASSUME NEW t \in States, p \in Tracked(t), Undisturbed(s, t, k, a)
      PROVE  Undisturbed(s, kept(c, t), k, a)
  BY <1>5, TrackUndisturbed, UndisturbedTrans
<1> HIDE DEF kept
<1>6. CASE s.ifaces[p].count = 0
  <2>1. PICK d \in destroyTrackedInterface(c.st, p) :
          o = IF d.err = "ok" THEN Outcome(d.st, "failed")
                              ELSE Outcome(kept(c, d.st), "rollbackFailed")
    BY <1>1, <1>6
  <2>2. c.st.ifaces[p].peers = {}
    BY <1>2, <1>4, <1>6, EmptyCount
  <2>3. Undisturbed(c.st, d.st, k, a)
    BY <1>4, <2>2, DestroyUndisturbed
  <2>4. Undisturbed(s, d.st, k, a)
    BY <1>3, <2>3, UndisturbedTrans
  <2>5. CASE d.err = "ok"
    BY <2>1, <2>4, <2>5 DEF Outcome
  <2>6. CASE d.err # "ok"
    <3>1. PeerStep(c.st, d.st, c.st.ifaces[p].name, k)
      BY <1>4, <2>6, DestroyTracked
    <3>2. d.st \in States /\ p \in Tracked(d.st)
      BY <1>4, <3>1 DEF PeerStep, Tracked
    <3>3. o.st = kept(c, d.st)
      BY <2>1, <2>6 DEF Outcome
    <3> QED BY <1>5, <2>4, <3>2, <3>3
  <2> QED BY <2>5, <2>6
<1>7. CASE s.ifaces[p].count # 0
  <2>1. o.st = kept(c, c.st)
    BY <1>1, <1>7 DEF Outcome
  <2>2. c.st \in States /\ p \in Tracked(c.st)
    BY <1>4 DEF Books
  <2> QED BY <1>3, <1>5, <2>1, <2>2
<1> QED BY <1>6, <1>7

\* addPeerLocked disturbs nobody; on success the peer is reached.
LEMMA AddLockedServes ==
  ASSUME NEW s, NEW p \in Tracked(s), NEW k \in Keys, NEW a \in Addrs, NEW req,
         Inv(s), NEW o \in addPeerLocked(s, p, k, a), req # 0 => s.ifaces[p].port = req
  PROVE  /\ Undisturbed(s, o.st, k, a)
         /\ o.err = "ok" => Reached(o.st, p, req, k, a)
<1> DEFINE n == s.ifaces[p].name
<1>1. PICK x \in Catch(addPeerToInterface(s, n, k, a),
                       LAMBDA y : undoFailedAdd(y.st, p, k, a)) :
        o \in IF x.err = "ok" THEN {Done(trackPeer(x.st, p, k))} ELSE {x}
  BY DEF addPeerLocked, Then
<1>2. PICK y \in addPeerToInterface(s, n, k, a) :
        x \in IF y.err = "ok" THEN {y} ELSE undoFailedAdd(y.st, p, k, a)
  BY DEF Catch
<1>3. p \in Profiles /\ n \in Nat /\ s \in States
  BY TrackedName DEF Inv, Books
<1>4. PeerStep(s, y.st, n, k) /\ y.st.ifaces = s.ifaces
  BY <1>3, AddToInterfaceStep DEF PeerStep
<1>5. Books(y.st) /\ LiveBut(y.st, p, k) /\ Tracked(y.st) = Tracked(s) /\ y.st \in States
  BY <1>3, <1>4, PeerStepBooks, LiveIsLiveBut DEF Inv, Books
<1>6. /\ Undisturbed(s, y.st, k, a)
      /\ y.err = "ok" => <<n, k>> \in y.st.kpeers /\ y.st.routes[a] = n
  BY <1>3, AddToInterfaceServes
<1>7. CASE y.err = "ok"
  <2>1. o = Done(trackPeer(y.st, p, k))
    BY <1>1, <1>2, <1>7
  <2>2. o.st = trackPeer(y.st, p, k)
    BY <2>1 DEF Done, Outcome
  <2>3. Undisturbed(y.st, o.st, k, a) /\ SameBut(y.st, o.st, p, k) /\ k \in o.st.ifaces[p].peers
    BY <1>5, <2>2, TrackUndisturbed
  <2>4. Reached(o.st, p, req, k, a)
    BY <1>3, <1>4, <1>5, <1>6, <1>7, <2>3 DEF Reached, SameBut, Tracked
  <2> QED BY <1>6, <2>3, <2>4, UndisturbedTrans
<1>8. CASE y.err # "ok"
  <2>1. x \in undoFailedAdd(y.st, p, k, a)
    BY <1>2, <1>8
  <2>2. Undisturbed(y.st, x.st, k, a) /\ x.err # "ok"
    BY <1>5, <2>1, UndoUndisturbed, UndoFailedAddInv
  <2>3. o = x
    BY <1>1, <2>2
  <2> QED BY <1>6, <2>2, <2>3, UndisturbedTrans
<1> QED BY <1>7, <1>8

\* Pool.AddPeer disturbs nobody; on success the peer is reached.
LEMMA AddPeerServes ==
  ASSUME NEW s, NEW p \in Profiles, NEW req \in Nat, NEW k \in Keys, NEW a \in Addrs,
         Inv(s), NEW o \in AddPeer(s, p, req, k, a)
  PROVE  /\ Undisturbed(s, o.st, k, a)
         /\ o.err = "ok" => Reached(o.st, p, req, k, a)
<1>1. PICK x \in getOrCreateInterface(s, p, req) :
        o \in IF x.err = "ok" THEN addPeerLocked(x.st, p, k, a) ELSE {x}
  BY DEF AddPeer, Then
<1>2. Inv(x.st) /\ (x.err = "ok" => p \in Tracked(x.st))
  BY GetOrCreateInv
<1>3. /\ Undisturbed(s, x.st, k, a)
      /\ (x.err = "ok" /\ req # 0) => x.st.ifaces[p].port = req
  BY GetOrCreateUndisturbed
<1>4. CASE x.err = "ok"
  <2>1. /\ Undisturbed(x.st, o.st, k, a)
        /\ o.err = "ok" => Reached(o.st, p, req, k, a)
    BY <1>1, <1>2, <1>3, <1>4, AddLockedServes
  <2> QED BY <1>3, <2>1, UndisturbedTrans
<1>5. CASE x.err # "ok"
  BY <1>1, <1>3, <1>5
<1> QED BY <1>4, <1>5

\* Destroying an interface that lost its last peer disturbs nobody.
LEMMA DestroyOrRestoreUndisturbed ==
  ASSUME NEW s, NEW p \in Tracked(s), NEW k \in Keys, NEW a \in Addrs, Inv(s),
         s.ifaces[p].count = 0, NEW o \in destroyOrRestore(s, p, k, a)
  PROVE  Undisturbed(s, o.st, k, a)
<1> DEFINE n == s.ifaces[p].name
<1>1. PICK d \in destroyTrackedInterface(s, p) :
        o \in IF d.err = "ok" THEN {d}
              ELSE {Outcome(trackPeer(r.st, p, k), rollbackFailure("failed", r.err)) :
                      r \in restorePeerAndRoute(d.st, n, k, a)}
  BY DEF destroyOrRestore, Catch
<1>2. p \in Profiles /\ n \in Nat /\ Books(s) /\ LiveBut(s, p, k)
  BY TrackedName, LiveIsLiveBut DEF Inv, Books
<1>3. Undisturbed(s, d.st, k, a)
  <2>1. s.ifaces[p].peers = {}
    BY <1>2, EmptyCount
  <2> QED BY <1>2, <2>1, DestroyUndisturbed
<1>4. CASE d.err = "ok"
  BY <1>1, <1>3, <1>4
<1>5. CASE d.err # "ok"
  <2>1. PICK r \in restorePeerAndRoute(d.st, n, k, a) : o.st = trackPeer(r.st, p, k)
    BY <1>1, <1>5 DEF Outcome
  <2>2. PeerStep(s, d.st, n, k)
    BY <1>2, <1>5, DestroyTracked
  <2>3. d.st \in States /\ d.st.ifaces = s.ifaces
    BY <2>2 DEF PeerStep
  <2>4. PeerStep(d.st, r.st, n, k) /\ Undisturbed(d.st, r.st, k, a)
    BY <1>2, <2>3, RestoreStep, RestoreUndisturbed
  <2>5. r.st \in States /\ p \in Tracked(r.st)
    BY <2>3, <2>4 DEF PeerStep, Tracked
  <2>6. Undisturbed(r.st, o.st, k, a)
    BY <2>1, <2>5, TrackUndisturbed
  <2> QED BY <1>3, <2>4, <2>6, UndisturbedTrans
<1> QED BY <1>4, <1>5

\* Taking a peer off its interface and untracking it disturbs nobody else.
LEMMA RemoveTrackedUndisturbed ==
  ASSUME NEW s, NEW p \in Tracked(s), NEW k \in Keys, NEW a \in Addrs, Inv(s),
         k \in s.ifaces[p].peers,
         NEW x \in removePeerFromInterface(s, s.ifaces[p].name, k, a)
  PROVE  Undisturbed(s, x.st, k, a) /\ Undisturbed(s, untrackPeer(x.st, p, k), k, a)
<1>1. s.ifaces[p].name \in Nat /\ s \in States
  BY TrackedName DEF Inv, Books
<1>2. Undisturbed(s, x.st, k, a)
  BY <1>1, RemoveFromInterfaceUndisturbed
<1>3. x.st \in States /\ p \in Tracked(x.st)
  <2>1. Inv(x.st) /\ x.st.ifaces = s.ifaces
    BY RemoveTrackedPeer
  <2> QED BY <2>1 DEF Inv, Books, Tracked
<1> QED BY <1>2, <1>3, UntrackUndisturbed, UndisturbedTrans

\* Pool.RemovePeer disturbs nobody else.
LEMMA RemovePeerUndisturbed ==
  ASSUME NEW s, NEW p \in Profiles, NEW k \in Keys, NEW a \in Addrs, Inv(s),
         NEW o \in RemovePeer(s, p, k, a)
  PROVE  Undisturbed(s, o.st, k, a)
<1>1. CASE ~HasPeer(s, p, k)
  <2>1. o = Outcome(s, "refused")
    BY <1>1 DEF RemovePeer
  <2>2. o.st = s
    BY <2>1 DEF Outcome
  <2> QED BY <2>2, UndisturbedRefl
<1>2. CASE HasPeer(s, p, k)
  <2>1. PICK x \in removePeerFromInterface(s, s.ifaces[p].name, k, a) :
          o \in IF x.err = "ok"
                  THEN LET u == untrackPeer(x.st, p, k)
                       IN IF u.ifaces[p].count = 0 THEN destroyOrRestore(u, p, k, a)
                                                   ELSE {Done(u)}
                  ELSE {x}
    BY <1>2 DEF RemovePeer, Then
  <2> DEFINE u == untrackPeer(x.st, p, k)
  <2>2. /\ x.err = "ok" => Inv(u) /\ Tracked(u) = Tracked(s)
        /\ p \in Tracked(s)
    BY <1>2, RemoveTrackedPeer DEF HasPeer
  <2>3. Undisturbed(s, x.st, k, a) /\ Undisturbed(s, u, k, a)
    BY <1>2, RemoveTrackedUndisturbed DEF HasPeer
  <2>4. \/ o = x \/ o = Done(u)
        \/ x.err = "ok" /\ u.ifaces[p].count = 0 /\ o \in destroyOrRestore(u, p, k, a)
    BY <2>1
  <2> HIDE DEF u
  <2>5. CASE o = x \/ o = Done(u)
    BY <2>3, <2>5 DEF Done, Outcome
  <2>6. CASE x.err = "ok" /\ u.ifaces[p].count = 0 /\ o \in destroyOrRestore(u, p, k, a)
    BY <2>2, <2>3, <2>6, DestroyOrRestoreUndisturbed, UndisturbedTrans
  <2> QED BY <2>4, <2>5, <2>6
<1> QED BY <1>1, <1>2

\* rollbackNewPeerLocked disturbs nobody else.
LEMMA RollbackNewUndisturbed ==
  ASSUME NEW s, NEW q \in Tracked(s), NEW k \in Keys, NEW a \in Addrs, Inv(s),
         NEW o \in rollbackNewPeer(s, q, k, a)
  PROVE  Undisturbed(s, o.st, k, a)
<1>1. CASE k \notin s.ifaces[q].peers
  <2>1. o = Outcome(s, "failed")
    BY <1>1 DEF rollbackNewPeer
  <2>2. o.st = s
    BY <2>1 DEF Outcome
  <2> QED BY <2>2, UndisturbedRefl
<1>2. CASE k \in s.ifaces[q].peers
  <2>1. PICK x \in removePeerFromInterface(s, s.ifaces[q].name, k, a) :
          o \in IF x.err = "ok"
                  THEN LET u == untrackPeer(x.st, q, k)
                       IN IF u.ifaces[q].count = 0 THEN destroyTrackedInterface(u, q)
                                                   ELSE {Done(u)}
                  ELSE {x}
    BY <1>2 DEF rollbackNewPeer, Then
  <2> DEFINE u == untrackPeer(x.st, q, k)
  <2>2. x.err = "ok" => Inv(u) /\ Tracked(u) = Tracked(s)
    BY <1>2, RemoveTrackedPeer
  <2>3. Undisturbed(s, x.st, k, a) /\ Undisturbed(s, u, k, a)
    BY <1>2, RemoveTrackedUndisturbed
  <2>4. \/ o = x \/ o = Done(u)
        \/ x.err = "ok" /\ u.ifaces[q].count = 0 /\ o \in destroyTrackedInterface(u, q)
    BY <2>1
  <2> HIDE DEF u
  <2>5. CASE o = x \/ o = Done(u)
    BY <2>3, <2>5 DEF Done, Outcome
  <2>6. CASE x.err = "ok" /\ u.ifaces[q].count = 0 /\ o \in destroyTrackedInterface(u, q)
    <3>1. Books(u) /\ q \in Tracked(u) /\ q \in Profiles
      BY <2>2, <2>6, TrackedName DEF Inv, Books, Tracked
    <3>2. u.ifaces[q].peers = {}
      BY <2>6, <3>1, EmptyCount
    <3>3. Undisturbed(u, o.st, k, a)
      BY <2>6, <3>1, <3>2, DestroyUndisturbed
    <3> QED BY <2>3, <3>3, UndisturbedTrans
  <2> QED BY <2>4, <2>5, <2>6
<1> QED BY <1>1, <1>2

\* rollbackSharedMigration disturbs nobody else.
LEMMA RollbackSharedUndisturbed ==
  ASSUME NEW s, NEW p \in Tracked(s), NEW q \in Tracked(s), p # q,
         NEW k \in Keys, NEW a \in Addrs, Inv(s),
         NEW o \in rollbackSharedMigration(s, p, q, k, a)
  PROVE  Undisturbed(s, o.st, k, a)
<1> DEFINE n == s.ifaces[p].name
<1>1. PICK x \in rollbackNewPeer(s, q, k, a) :
        \E r \in restorePeerAndRoute(x.st, n, k, a) :
          o = Outcome(r.st, IF x.err = "ok" THEN r.err ELSE x.err)
  BY DEF rollbackSharedMigration
<1>2. PICK r \in restorePeerAndRoute(x.st, n, k, a) : o.st = r.st
  BY <1>1 DEF Outcome
<1>3. Inv(x.st) /\ Undisturbed(s, x.st, k, a)
  BY RollbackNewPeerInv, RollbackNewUndisturbed DEF Keeps
<1>4. n \in Nat /\ x.st \in States
  BY <1>3, TrackedName DEF Inv, Books
<1>5. Undisturbed(x.st, r.st, k, a)
  BY <1>4, RestoreUndisturbed
<1> QED BY <1>2, <1>3, <1>5, UndisturbedTrans

\* Migrating the only peer of an interface disturbs nobody; on success the peer
\* is reached on the new profile.
LEMMA MigrateSoleServes ==
  ASSUME NEW s, NEW p \in Profiles, NEW q \in Profiles, NEW req \in Nat,
         NEW k \in Keys, NEW a \in Addrs, Inv(s), HasPeer(s, p, k), s.ifaces[p].count = 1,
         NEW o \in migrateSolePeer(s, p, q, req, k, a)
  PROVE  /\ Undisturbed(s, o.st, k, a)
         /\ o.err = "ok" => Reached(o.st, q, req, k, a)
<1> DEFINE oldPort == s.ifaces[p].port
           added(u) == Catch(AddPeer(u, q, req, k, a),
                             LAMBDA y : {Outcome(r.st, rollbackFailure(y.err, r.err)) :
                                           r \in AddPeer(y.st, p, oldPort, k, a)})
<1>1. PICK x \in removePeerFromInterface(s, s.ifaces[p].name, k, a) :
        o \in IF x.err = "ok"
                THEN Then(destroyOrRestore(untrackPeer(x.st, p, k), p, k, a), added)
                ELSE {x}
  BY DEF migrateSolePeer, Then
<1> DEFINE v == untrackPeer(x.st, p, k)
<1>2. /\ x.err \in {"ok", "failed"} /\ Inv(x.st) /\ x.st.ifaces = s.ifaces
      /\ x.err = "ok" => Inv(v) /\ Tracked(v) = Tracked(s)
      /\ p \in Tracked(s) /\ oldPort \in Nat
  BY RemoveTrackedPeer, TrackedName DEF HasPeer, Iface, Inv, Books
<1>3. Undisturbed(s, x.st, k, a) /\ Undisturbed(s, v, k, a)
  BY RemoveTrackedUndisturbed DEF HasPeer
<1>4. v.ifaces[p].count = 0
  <2>1. x.st \in States /\ k \in x.st.ifaces[p].peers /\ x.st.ifaces[p].count = 1
    BY <1>2 DEF Inv, Books, HasPeer
  <2> QED BY <2>1 DEF untrackPeer, States, Iface
<1> HIDE DEF added, v
<1>5. CASE x.err # "ok"
  BY <1>1, <1>3, <1>5
<1>6. CASE x.err = "ok"
  <2>1. PICK d \in destroyOrRestore(v, p, k, a) : o \in IF d.err = "ok" THEN added(d.st) ELSE {d}
    BY <1>1, <1>6 DEF Then, v
  <2>2. Inv(d.st) /\ Undisturbed(v, d.st, k, a)
    BY <1>2, <1>4, <1>6, DestroyOrRestoreInv, DestroyOrRestoreUndisturbed DEF Keeps
  <2>3. Undisturbed(s, d.st, k, a)
    BY <1>3, <2>2, UndisturbedTrans
  <2>4. CASE d.err # "ok"
    BY <2>1, <2>3, <2>4
  <2>5. CASE d.err = "ok"
    <3>1. PICK y \in AddPeer(d.st, q, req, k, a) :
            o \in IF y.err = "ok" THEN {y}
                  ELSE {Outcome(r.st, rollbackFailure(y.err, r.err)) :
                          r \in AddPeer(y.st, p, oldPort, k, a)}
      BY <2>1, <2>5 DEF added, Catch
    <3>2. /\ Inv(y.st) /\ Undisturbed(d.st, y.st, k, a)
          /\ y.err = "ok" => Reached(y.st, q, req, k, a)
      BY <2>2, AddPeerInv, AddPeerServes DEF Keeps
    <3>3. Undisturbed(s, y.st, k, a)
      BY <2>3, <3>2, UndisturbedTrans
    <3>4. CASE y.err = "ok"
      BY <3>1, <3>2, <3>3, <3>4
    <3>5. CASE y.err # "ok"
      <4>1. PICK r \in AddPeer(y.st, p, oldPort, k, a) :
              o = Outcome(r.st, rollbackFailure(y.err, r.err))
        BY <3>1, <3>5
      <4>2. Undisturbed(y.st, r.st, k, a)
        BY <1>2, <3>2, AddPeerServes
      <4>3. o.st = r.st /\ o.err # "ok"
        BY <3>5, <4>1 DEF Outcome, rollbackFailure
      <4> QED BY <3>3, <4>2, <4>3, UndisturbedTrans
    <3> QED BY <3>4, <3>5
  <2> QED BY <2>4, <2>5
<1> QED BY <1>2, <1>5, <1>6

\* Migrating one of several peers disturbs none of the others; on success the
\* peer is reached on the new profile.
LEMMA MigrateSharedServes ==
  ASSUME NEW s, NEW p \in Profiles, NEW q \in Profiles, p # q, NEW req \in Nat,
         NEW k \in Keys, NEW a \in Addrs, Inv(s), HasPeer(s, p, k),
         NEW o \in migrateSharedPeer(s, p, q, req, k, a)
  PROVE  /\ Undisturbed(s, o.st, k, a)
         /\ o.err = "ok" => Reached(o.st, q, req, k, a)
<1> DEFINE n == s.ifaces[p].name
           left(u) == Then(Catch(removePeerOnlyFromInterface(u, n, k),
                                 LAMBDA y : {Outcome(r.st, rollbackFailure(y.err, r.err)) :
                                               r \in rollbackSharedMigration(y.st, p, q, k, a)}),
                           LAMBDA v : {Done(untrackPeer(v, p, k))})
           joined(t) == Catch(addPeerLocked(t, q, k, a),
                              LAMBDA y : {Outcome(r.st, rollbackFailure(y.err, r.err)) :
                                            r \in replacePeerRoute(y.st, n, a)})
<1>1. PICK g \in getOrCreateInterface(s, q, req) :
        o \in IF g.err = "ok" THEN Then(joined(g.st), left) ELSE {g}
  BY DEF migrateSharedPeer, Then
<1> HIDE DEF left, joined
<1>2. /\ Inv(g.st) /\ OthersKept(s, g.st, q)
      /\ g.err = "ok" => q \in Tracked(g.st)
  BY GetOrCreateInv
<1>3. /\ Undisturbed(s, g.st, k, a)
      /\ (g.err = "ok" /\ req # 0) => g.st.ifaces[q].port = req
  BY GetOrCreateUndisturbed
<1>4. p \in Tracked(s) /\ n \in Nat /\ k \in s.ifaces[p].peers
  BY TrackedName DEF HasPeer, Inv, Books
<1>5. CASE g.err # "ok"
  BY <1>1, <1>3, <1>5
<1>6. CASE g.err = "ok"
  <2>1. PICK j \in joined(g.st) : o \in IF j.err = "ok" THEN left(j.st) ELSE {j}
    BY <1>1, <1>6 DEF Then
  <2>2. PICK y \in addPeerLocked(g.st, q, k, a) :
          j \in IF y.err = "ok" THEN {y}
                ELSE {Outcome(r.st, rollbackFailure(y.err, r.err)) :
                        r \in replacePeerRoute(y.st, n, a)}
    BY DEF joined, Catch
  <2>3. /\ Inv(y.st) /\ OthersKept(g.st, y.st, q)
        /\ y.err = "ok" => q \in Tracked(y.st)
    BY <1>2, <1>6, AddPeerLockedInv DEF Keeps
  <2>4. /\ Undisturbed(g.st, y.st, k, a)
        /\ y.err = "ok" => Reached(y.st, q, req, k, a)
    BY <1>2, <1>3, <1>6, AddLockedServes
  <2>5. Undisturbed(s, y.st, k, a) /\ y.st \in States
    BY <1>3, <2>3, <2>4, UndisturbedTrans DEF Inv, Books
  <2>6. p \in Tracked(y.st) /\ y.st.ifaces[p] = s.ifaces[p]
    BY <1>2, <1>4, <2>3 DEF OthersKept, Tracked
  <2>7. CASE y.err # "ok"
    <3>1. PICK r \in replacePeerRoute(y.st, n, a) :
            j = Outcome(r.st, rollbackFailure(y.err, r.err))
      BY <2>2, <2>7
    <3>2. PeerStep(y.st, r.st, n, k) /\ RouteStep(y.st, r.st, a)
      BY <1>4, <2>5, ReplaceRouteStep, ReplaceRouteRoutes
    <3>3. Undisturbed(s, r.st, k, a)
      BY <2>5, <3>2, PeerUndisturbed, UndisturbedTrans
    <3>4. j.st = r.st /\ j.err # "ok"
      BY <2>7, <3>1 DEF Outcome, rollbackFailure
    <3> QED BY <2>1, <3>3, <3>4
  <2>8. CASE y.err = "ok"
    <3>1. o \in left(y.st)
      BY <2>1, <2>2, <2>8
    <3>2. PICK w \in Catch(removePeerOnlyFromInterface(y.st, n, k),
                            LAMBDA z : {Outcome(r.st, rollbackFailure(z.err, r.err)) :
                                          r \in rollbackSharedMigration(z.st, p, q, k, a)}) :
            o \in IF w.err = "ok" THEN {Done(untrackPeer(w.st, p, k))} ELSE {w}
      BY <3>1 DEF left, Then
    <3>3. PICK z \in removePeerOnlyFromInterface(y.st, n, k) :
            w \in IF z.err = "ok" THEN {z}
                  ELSE {Outcome(r.st, rollbackFailure(z.err, r.err)) :
                          r \in rollbackSharedMigration(z.st, p, q, k, a)}
      BY DEF Catch
    <3>4. PeerStep(y.st, z.st, n, k) /\ z.st.routes = y.st.routes
      <4>1. PeerStep(y.st, z.st, n, k)
        BY <1>4, <2>5, RemovePeerOnlyStep
      <4>2. z.st.routes = y.st.routes
        BY <1>4, <2>5, RemovePeerOnlyRoutes, ZenonT(40)
      <4> QED BY <4>1, <4>2
    <3>5. /\ Inv(z.st) /\ Tracked(z.st) = Tracked(y.st) /\ z.st.ifaces = y.st.ifaces
          /\ z.st \in States
      BY <1>4, <2>3, <2>6, <3>4, TrackedPeerStep DEF PeerStep
    <3>6. Undisturbed(s, z.st, k, a)
      <4>1. RouteStep(y.st, z.st, a)
        BY <3>4 DEF RouteStep
      <4> QED BY <2>5, <3>4, <4>1, PeerUndisturbed, UndisturbedTrans
    <3>7. CASE z.err = "ok"
      <4>1. o = Done(untrackPeer(z.st, p, k))
        BY <3>2, <3>3, <3>7
      <4>2. o.st = untrackPeer(z.st, p, k)
        BY <4>1 DEF Done, Outcome
      <4>3. Undisturbed(z.st, o.st, k, a) /\ SameBut(z.st, o.st, p, k)
        BY <2>6, <3>5, <4>2, UntrackUndisturbed
      \* The peer was removed from the old link, whose name is not the new one's.
      <4>4. y.st.ifaces[q].name # n
        BY <2>3, <2>6, <2>8 DEF Inv, Books, HostAccountedIn
      <4>5. <<y.st.ifaces[q].name, k>> \in z.st.kpeers
        BY <2>4, <2>8, <3>4, <4>4 DEF Reached, PeerStep
      <4>6. Reached(o.st, q, req, k, a)
        BY <2>4, <2>8, <3>4, <3>5, <4>3, <4>5 DEF Reached, SameBut, Tracked
      <4> QED BY <3>6, <4>3, <4>6, UndisturbedTrans
    <3>8. CASE z.err # "ok"
      <4>1. PICK r \in rollbackSharedMigration(z.st, p, q, k, a) :
              w = Outcome(r.st, rollbackFailure(z.err, r.err))
        BY <3>3, <3>8
      <4>2. Undisturbed(z.st, r.st, k, a)
        BY <2>3, <2>6, <2>8, <3>5, RollbackSharedUndisturbed
      <4>3. w.st = r.st /\ w.err # "ok"
        BY <3>8, <4>1 DEF Outcome, rollbackFailure
      <4> QED BY <3>2, <3>6, <4>2, <4>3, UndisturbedTrans
    <3> QED BY <3>7, <3>8
  <2> QED BY <2>7, <2>8
<1> QED BY <1>5, <1>6

\* Pool.MigratePeer disturbs nobody; a migration to another profile that
\* succeeds has the peer reached there.
LEMMA MigratePeerServes ==
  ASSUME NEW s, NEW p \in Profiles, NEW q \in Profiles, NEW oldReq, NEW req \in Nat,
         NEW k \in Keys, NEW a \in Addrs, Inv(s),
         NEW o \in MigratePeer(s, p, oldReq, q, req, k, a)
  PROVE  /\ Undisturbed(s, o.st, k, a)
         /\ (o.err = "ok" /\ p # q) => Reached(o.st, q, req, k, a)
<1>1. \/ o.st = s /\ (o.err = "ok" => p = q)
      \/ HasPeer(s, p, k) /\ s.ifaces[p].count = 1 /\ o \in migrateSolePeer(s, p, q, req, k, a)
      \/ HasPeer(s, p, k) /\ p # q /\ o \in migrateSharedPeer(s, p, q, req, k, a)
  <2>1. CASE HasPeer(s, p, k) /\ p = q /\ s.ifaces[p].count # 1
    <3>1. s.ifaces[p].count \in Nat
      BY <2>1, TrackedName DEF HasPeer, Iface, Inv, Books
    <3>2. s.ifaces[p].count > 1
      BY <2>1, <3>1 DEF HasPeer
    <3> QED BY <2>1, <3>2 DEF MigratePeer, Done, Outcome
  <2>2. CASE ~(HasPeer(s, p, k) /\ p = q /\ s.ifaces[p].count # 1)
    BY <2>2 DEF MigratePeer, Done, Outcome
  <2> QED BY <2>1, <2>2
<1>2. CASE o.st = s /\ (o.err = "ok" => p = q)
  BY <1>2, UndisturbedRefl
<1>3. CASE HasPeer(s, p, k) /\ s.ifaces[p].count = 1 /\ o \in migrateSolePeer(s, p, q, req, k, a)
  BY <1>3, MigrateSoleServes
<1>4. CASE HasPeer(s, p, k) /\ p # q /\ o \in migrateSharedPeer(s, p, q, req, k, a)
  BY <1>4, MigrateSharedServes
<1> QED BY <1>1, <1>2, <1>3, <1>4

\* What Close could not destroy goes on listening: no other link has its name.
LEMMA CloseListening ==
  ASSUME NEW s, Inv(s), Listening(s), NEW o \in Close(s)
  PROVE  Listening(o.st)
<1>1. PICK x \in (SUBSET Tracked(s)) \X (SUBSET s.orphans) :
        o \in closeMasquerade(closeInterfaces(s, x[1], x[2]))
  BY DEF Close
<1> DEFINE goneP == Tracked(s) \ x[1]
           goneO == s.orphans \ x[2]
           names == {s.ifaces[p].name : p \in goneP} \cup {r.name : r \in goneO}
           v     == Unlinked(s, names)
           t     == closeInterfaces(s, x[1], x[2])
<1>2. s \in States /\ v.listen = {l \in s.listen : l[1] \notin names}
  BY UnlinkedFields DEF Inv, Books
<1>3. /\ t.listen = v.listen
      /\ t.ifaces = [p \in Profiles |-> IF p \in goneP THEN NoIface ELSE s.ifaces[p]]
  BY DEF closeInterfaces, Unlinked
<1> HIDE DEF v, t, goneP, goneO
<1>4. Listening(t)
  <2> SUFFICES ASSUME NEW q \in Tracked(t)
               PROVE  <<t.ifaces[q].name, t.ifaces[q].port>> \in t.listen
    BY DEF Listening
  <2>1. q \in Tracked(s) /\ q \notin goneP /\ t.ifaces[q] = s.ifaces[q]
    BY <1>3 DEF Tracked, NoIface
  <2>2. s.ifaces[q].name \notin names
    BY <2>1 DEF Inv, Books, HostAccountedIn, goneP, goneO
  <2> QED BY <1>2, <1>3, <2>1, <2>2 DEF Listening
<1>5. o.st.ifaces = t.ifaces /\ o.st.listen = t.listen
  <2>1. t \in States
    BY CloseInterfacesInv DEF t, Inv, Books
  <2>2. \/ o = Done(t)
        \/ \E c \in Command(t, t.masq > 0, [t EXCEPT !.masq = @ - 1, !.masqAdded = FALSE]) :
             o.st = c.st
    <3>1. o \in closeMasquerade(t)
      BY <1>1 DEF t
    <3> QED BY <3>1 DEF closeMasquerade, Catch, Done, Outcome
  <2>3. CASE o = Done(t)
    BY <2>3 DEF Done, Outcome
  <2>4. ASSUME NEW c \in Command(t, t.masq > 0, [t EXCEPT !.masq = @ - 1, !.masqAdded = FALSE]),
               o.st = c.st
        PROVE  o.st.ifaces = t.ifaces /\ o.st.listen = t.listen
    <3> DEFINE e == [t EXCEPT !.masq = @ - 1, !.masqAdded = FALSE]
    <3>1. Outcomes(t, c, e)
      BY Zenon DEF Outcomes, Command, Done, Outcome
    <3>2. e.ifaces = t.ifaces /\ e.listen = t.listen
      BY <2>1 DEF States
    <3>3. Faulted(t).ifaces = t.ifaces /\ Faulted(t).listen = t.listen
      BY <2>1, PeerStepRefl DEF PeerStep
    <3> HIDE DEF e
    <3>4. c.st = e \/ c.st = t \/ c.st = Faulted(t)
      BY <3>1 DEF Outcomes
    <3> QED BY <2>4, <3>2, <3>3, <3>4
  <2> QED BY <2>2, <2>3, <2>4
<1> QED BY <1>4, <1>5 DEF Listening, Tracked

-----------------------------------------------------------------------------
(***************************************************************************)
(* The specification.                                                      *)
(***************************************************************************)
\* What the two action properties need: the invariant of the pool, books in
\* order on every profile, and interfaces that listen.
ServiceInv == Inv(pool) /\ last \in Calls /\ Sound(pool) /\ Listening(pool)

\* A call disturbs nobody but the peer it is for, and its success is service.
CallServes ==
  /\ Listening(pool')
  /\ last'.op # "Close" =>
       last'.key \in Keys /\ Undisturbed(pool, pool', last'.key, AddrOf[last'.key])
  /\ (/\ last'.op \in {"AddPeer", "MigratePeer"} /\ last'.err = "ok"
      /\ last'.op = "MigratePeer" => last'.from # last'.to) =>
       /\ Reached(pool', last'.to, last'.req, last'.key, AddrOf[last'.key])
       /\ last'.op = "MigratePeer" => ~HasPeer(pool', last'.from, last'.key)

\* Every call of a pool method is such a step.
LEMMA NextServes == ServiceInv /\ Next => CallServes
<1> SUFFICES ASSUME ServiceInv, Next PROVE CallServes
  OBVIOUS
<1>1. /\ Inv(Fresh) /\ Sound(Fresh) /\ Listening(Fresh)
      /\ \A k \in Keys, a \in Addrs : Undisturbed(pool, Fresh, k, a)
  <2>1. pool \in States
    BY DEF ServiceInv, Sound
  <2>2. /\ Fresh \in States
        /\ Fresh.ifaces = pool.ifaces /\ Fresh.orphans = pool.orphans
        /\ Fresh.usedPorts = pool.usedPorts /\ Fresh.nextIndex = pool.nextIndex
        /\ Fresh.masqAdded = pool.masqAdded /\ Fresh.links = pool.links
        /\ Fresh.listen = pool.listen /\ Fresh.kpeers = pool.kpeers
        /\ Fresh.masq = pool.masq /\ Fresh.routes = pool.routes
    BY <2>1 DEF Fresh, States
  <2> HIDE DEF Fresh
  <2>3. Inv(Fresh)
    BY <2>2, FaultsInv DEF ServiceInv
  <2>4. Sound(Fresh)
    <3>1. SameBooks(pool, Fresh)
      BY <2>2 DEF SameBooks, Unruled
    <3> QED BY <3>1, SameSound DEF ServiceInv
  <2>5. Louder(pool, Fresh)
    BY <2>2 DEF Louder
  <2>6. \A k \in Keys, a \in Addrs : Undisturbed(pool, Fresh, k, a)
    BY <2>5, LouderUndisturbed
  <2>7. Listening(Fresh)
    BY <2>2 DEF ServiceInv, Listening, Tracked
  <2> QED BY <2>3, <2>4, <2>6, <2>7
<1> HIDE DEF Fresh
<1>2. ASSUME NEW k \in Keys, NEW t, Undisturbed(Fresh, t, k, AddrOf[k])
      PROVE  Undisturbed(pool, t, k, AddrOf[k]) /\ Listening(t)
  <2>1. AddrOf[k] \in Addrs
    BY AddrAssumption
  <2>2. Undisturbed(pool, Fresh, k, AddrOf[k])
    BY <1>1, <2>1
  <2> QED BY <1>1, <1>2, <2>2, UndisturbedTrans DEF Undisturbed
<1>3. ASSUME NEW p \in Profiles, NEW req \in Requests, NEW k \in Keys, AddPeerCall(p, req, k)
      PROVE  CallServes
  <2>1. PICK o \in AddPeer(Fresh, p, req, k, AddrOf[k]) :
          /\ pool' = o.st
          /\ last' = [op |-> "AddPeer", key |-> k, to |-> p, req |-> req, err |-> o.err]
    BY <1>3 DEF AddPeerCall
  <2>2. req \in Nat /\ AddrOf[k] \in Addrs
    BY RequestAssumption, AddrAssumption
  <2>3. /\ Undisturbed(Fresh, o.st, k, AddrOf[k])
        /\ o.err = "ok" => Reached(o.st, p, req, k, AddrOf[k])
    BY <1>1, <2>2, AddPeerServes
  <2>4. Undisturbed(pool, o.st, k, AddrOf[k]) /\ Listening(o.st)
    BY <1>2, <2>3
  <2> QED BY <2>1, <2>3, <2>4 DEF CallServes
<1>4. ASSUME NEW p \in Profiles, NEW k \in Keys, RemovePeerCall(p, k)
      PROVE  CallServes
  <2>1. PICK o \in RemovePeer(Fresh, p, k, AddrOf[k]) :
          /\ pool' = o.st
          /\ last' = [op |-> "RemovePeer", key |-> k, from |-> p, err |-> o.err]
    BY <1>4 DEF RemovePeerCall
  <2>2. AddrOf[k] \in Addrs
    BY AddrAssumption
  <2>3. Undisturbed(Fresh, o.st, k, AddrOf[k])
    BY <1>1, <2>2, RemovePeerUndisturbed
  <2>4. Undisturbed(pool, o.st, k, AddrOf[k]) /\ Listening(o.st)
    BY <1>2, <2>3
  <2> QED BY <2>1, <2>4 DEF CallServes
<1>5. ASSUME NEW p \in Profiles, NEW q \in Profiles, NEW oldReq \in Requests,
             NEW req \in Requests, NEW k \in Keys, MigratePeerCall(p, oldReq, q, req, k)
      PROVE  CallServes
  <2>1. PICK o \in MigratePeer(Fresh, p, oldReq, q, req, k, AddrOf[k]) :
          /\ pool' = o.st
          /\ last' = [op |-> "MigratePeer", key |-> k, from |-> p, to |-> q,
                      req |-> req, err |-> o.err]
    BY <1>5 DEF MigratePeerCall
  <2>2. req \in Nat /\ AddrOf[k] \in Addrs
    BY RequestAssumption, AddrAssumption
  <2>3. /\ Undisturbed(Fresh, o.st, k, AddrOf[k])
        /\ (o.err = "ok" /\ p # q) => Reached(o.st, q, req, k, AddrOf[k])
    BY <1>1, <2>2, MigratePeerServes
  <2>4. Undisturbed(pool, o.st, k, AddrOf[k]) /\ Listening(o.st)
    BY <1>2, <2>3
  <2>5. (o.err = "ok" /\ p # q) => ~HasPeer(o.st, p, k)
    <3>1. o.err = "ok" => Moved(Fresh, o.st, p, q, k)
      BY <1>1, <2>2, MigrateEffect
    <3> QED BY <3>1 DEF Moved, HasPeer
  <2> QED BY <2>1, <2>3, <2>4, <2>5 DEF CallServes
<1>6. CASE CloseCall
  <2>1. PICK o \in Close(Fresh) : pool' = o.st /\ last' = [op |-> "Close"]
    BY <1>6 DEF CloseCall
  <2>2. Listening(o.st)
    BY <1>1, CloseListening
  <2> QED BY <2>1, <2>2 DEF CallServes
<1> QED BY <1>3, <1>4, <1>5, <1>6 DEF Next

\* The invariant the action properties rest on: every interface the pool tracks
\* listens on its port, besides what Invariance says, whatever has failed.
THEOREM ServiceInvariance == Spec => []ServiceInv
<1>1. Init => ServiceInv
  <2> SUFFICES ASSUME Init PROVE ServiceInv
    OBVIOUS
  <2>1. pool = EmptyPool /\ Sound(pool)
    BY EmptySound DEF Init
  <2>2. Listening(pool)
    BY <2>1 DEF Listening, Tracked, EmptyPool, NoIface
  <2> QED BY <2>1, <2>2, InitInv DEF ServiceInv
<1>2. ServiceInv /\ [Next]_vars => ServiceInv'
  <2> SUFFICES ASSUME ServiceInv, [Next]_vars PROVE ServiceInv'
    OBVIOUS
  <2>1. CASE Next
    <3>1. Inv(pool') /\ last' \in Calls
      BY <2>1, NextInv DEF ServiceInv
    <3>2. Sound(pool')
      BY <2>1, NextKeeps DEF ServiceInv, CallKeeps
    <3>3. Listening(pool')
      BY <2>1, NextServes DEF CallServes
    <3> QED BY <3>1, <3>2, <3>3 DEF ServiceInv
  <2>2. CASE UNCHANGED vars
    BY <2>2 DEF vars, ServiceInv
  <2> QED BY <2>1, <2>2
<1> QED BY <1>1, <1>2, PTL DEF Spec

\* A call for one key never disturbs another: a peer that was reachable stays
\* reachable, on the same interface and port, in every rollback too.
THEOREM OthersStayUndisturbed == Spec => OthersUndisturbed
<1>1. ServiceInv /\ [Next]_vars =>
        [last'.op # "Close" =>
           \A p \in Profiles, j \in Keys :
             (j # last'.key /\ Served(pool, p, j)) =>
               /\ Served(pool', p, j)
               /\ pool'.ifaces[p].name = pool.ifaces[p].name
               /\ pool'.ifaces[p].port = pool.ifaces[p].port]_vars
  <2> SUFFICES ASSUME ServiceInv, Next, last'.op # "Close",
                      NEW p \in Profiles, NEW j \in Keys, j # last'.key, Served(pool, p, j)
               PROVE  /\ Served(pool', p, j)
                      /\ pool'.ifaces[p].name = pool.ifaces[p].name
                      /\ pool'.ifaces[p].port = pool.ifaces[p].port
    OBVIOUS
  <2> DEFINE n == pool.ifaces[p].name
             m == pool.ifaces[p].port
             b == AddrOf[j]
             k == last'.key
  <2>1. k \in Keys /\ Undisturbed(pool, pool', k, AddrOf[k])
    BY NextServes DEF CallServes
  <2>2. n \in Nat /\ m \in Nat
    BY TrackedName DEF Served, ServiceInv, Sound, Iface
  <2>3. b \in Addrs \ {AddrOf[k]} /\ j \in Keys \ {k}
    BY <2>1, AddrAssumption
  <2>4. On(pool, p, j, n, m, b)
    BY DEF Served, On
  <2>5. On(pool', p, j, n, m, b)
    BY <2>1, <2>2, <2>3, <2>4 DEF Undisturbed
  <2> QED BY <2>2, <2>5 DEF On, Served, Tracked, NoName
<1> QED BY <1>1, ServiceInvariance, PTL DEF Spec, OthersUndisturbed

\* Success means service: when AddPeer or a migration to another profile returns
\* nil the peer is reachable there, on the requested port, and has left the old
\* profile.
THEOREM SuccessMeansService == Spec => SuccessServes
<1>1. ServiceInv /\ [Next]_vars =>
        [(last'.op \in {"AddPeer", "MigratePeer"} /\ last'.err = "ok"
            /\ (last'.op = "MigratePeer" => last'.from # last'.to)) =>
           /\ Served(pool', last'.to, last'.key)
           /\ last'.req # 0 => pool'.ifaces[last'.to].port = last'.req
           /\ last'.op = "MigratePeer" => ~HasPeer(pool', last'.from, last'.key)]_vars
  <2> SUFFICES ASSUME ServiceInv, Next,
                      last'.op \in {"AddPeer", "MigratePeer"}, last'.err = "ok",
                      last'.op = "MigratePeer" => last'.from # last'.to
               PROVE  /\ Served(pool', last'.to, last'.key)
                      /\ last'.req # 0 => pool'.ifaces[last'.to].port = last'.req
                      /\ last'.op = "MigratePeer" => ~HasPeer(pool', last'.from, last'.key)
    OBVIOUS
  <2>1. /\ Listening(pool')
        /\ Reached(pool', last'.to, last'.req, last'.key, AddrOf[last'.key])
        /\ last'.op = "MigratePeer" => ~HasPeer(pool', last'.from, last'.key)
    BY NextServes DEF CallServes
  <2> QED BY <2>1 DEF Listening, Reached, Served
<1> QED BY <1>1, ServiceInvariance, PTL DEF Spec, SuccessServes

-----------------------------------------------------------------------------
(***************************************************************************)
(* One thing going wrong.  An error costs a failed command, unless the     *)
(* pool refuses the call before it changes anything: in a state that       *)
(* satisfies Inv the kernel allows every command the pool gives.  So after *)
(* one failed command the rollback, which may not cost another, succeeds.  *)
(***************************************************************************)
\* Failed commands are counted; an error costs at least one if the kernel state
\* allowed the command.
Costs(s, o, allowed) ==
  /\ s.faults \in Nat /\ o.st.faults \in Nat /\ o.st.faults >= s.faults
  /\ (allowed /\ o.err # "ok") => o.st.faults > s.faults

LEMMA CommandCosts ==
  ASSUME NEW s \in States, NEW allowed, NEW e, e.faults = s.faults, NEW o \in Command(s, allowed, e)
  PROVE  Costs(s, o, allowed)
<1>1. s.faults \in Nat /\ Faulted(s).faults = s.faults + 1
  BY DEF States, Faulted
<1>2. \/ o = [st |-> e, err |-> "ok"]
      \/ ~allowed /\ o = [st |-> s, err |-> "failed"]
      \/ o = [st |-> Faulted(s), err |-> "failed"]
  BY Zenon DEF Command, Done, Outcome
<1> QED BY <1>1, <1>2 DEF Costs

\* Nothing but a failure changes the count.
LEMMA SetPeerCosts ==
  ASSUME NEW s \in States, NEW n, NEW k, NEW o \in setPeerOnInterface(s, n, k)
  PROVE  Costs(s, o, n \in s.links)
<1> DEFINE e == [s EXCEPT !.kpeers = @ \cup {<<n, k>>}]
<1>1. e.faults = s.faults
  BY DEF States
<1>2. o \in Command(s, n \in s.links, e)
  BY DEF setPeerOnInterface
<1> HIDE DEF e
<1> QED BY <1>1, <1>2, CommandCosts

LEMMA RemovePeerOnlyCosts ==
  ASSUME NEW s \in States, NEW n, NEW k, NEW o \in removePeerOnlyFromInterface(s, n, k)
  PROVE  /\ Costs(s, o, n \in s.links)
         /\ o.err # "ok" => o.st.kpeers = s.kpeers
<1> DEFINE e == [s EXCEPT !.kpeers = @ \ {<<n, k>>}]
<1>1. e.faults = s.faults
  BY DEF States
<1>2. o \in Command(s, n \in s.links, e)
  BY DEF removePeerOnlyFromInterface
<1>3. Outcomes(s, o, e)
  BY Zenon DEF Outcomes, removePeerOnlyFromInterface, Command, Done, Outcome
<1> HIDE DEF e
<1>4. o.err # "ok" => o.st.kpeers = s.kpeers
  BY <1>3, PeerStepRefl DEF Outcomes
<1> QED BY <1>1, <1>2, <1>4, CommandCosts

LEMMA ReplaceRouteCosts ==
  ASSUME NEW s \in States, NEW n, NEW a, NEW o \in replacePeerRoute(s, n, a)
  PROVE  Costs(s, o, n \in s.links)
<1> DEFINE e == [s EXCEPT !.routes[a] = n]
<1>1. e.faults = s.faults
  BY DEF States
<1>2. o \in Command(s, n \in s.links, e)
  BY DEF replacePeerRoute
<1> HIDE DEF e
<1> QED BY <1>1, <1>2, CommandCosts

LEMMA DeleteRouteCosts ==
  ASSUME NEW s \in States, NEW n, NEW a, NEW o \in deletePeerRoute(s, n, a)
  PROVE  Costs(s, o, s.routes[a] = n)
<1> DEFINE e == [s EXCEPT !.routes[a] = NoName]
<1>1. e.faults = s.faults
  BY DEF States
<1>2. o \in Command(s, s.routes[a] = n, e)
  BY DEF deletePeerRoute
<1> HIDE DEF e
<1> QED BY <1>1, <1>2, CommandCosts

LEMMA DestroyCosts ==
  ASSUME NEW s \in States, NEW n, NEW o \in destroyInterface(s, n)
  PROVE  Costs(s, o, n \in s.links)
<1> DEFINE e == Unlinked(s, {n})
<1>1. e.faults = s.faults
  BY DEF States, Unlinked
<1>2. o \in Command(s, n \in s.links, e)
  BY DEF destroyInterface
<1> HIDE DEF e
<1> QED BY <1>1, <1>2, CommandCosts

LEMMA CostsAllowed ==
  ASSUME NEW s, NEW o, NEW allowed, Costs(s, o, allowed), allowed
  PROVE  Costs(s, o, TRUE)
BY DEF Costs

\* One after the other.
LEMMA CostsTrans ==
  ASSUME NEW s, NEW x, NEW o, NEW g, NEW h, Costs(s, x, g), Costs(x.st, o, h)
  PROVE  /\ o.st.faults \in Nat /\ s.faults \in Nat /\ x.st.faults \in Nat
         /\ o.st.faults >= x.st.faults /\ x.st.faults >= s.faults
         /\ (g /\ x.err # "ok") => o.st.faults > s.faults
         /\ (h /\ o.err # "ok") => o.st.faults > s.faults
BY DEF Costs

-----------------------------------------------------------------------------
LEMMA AddToInterfaceCosts ==
  ASSUME NEW s \in States, NEW n \in Nat, NEW k \in Keys, NEW a \in Addrs,
         NEW o \in addPeerToInterface(s, n, k, a)
  PROVE  Costs(s, o, n \in s.links)
<1>1. PICK x \in setPeerOnInterface(s, n, k) :
        o \in IF x.err = "ok" THEN replacePeerRoute(x.st, n, a) ELSE {x}
  BY DEF addPeerToInterface, Then
<1>2. x.st \in States /\ x.st.links = s.links
  BY SetPeerStep DEF PeerStep
<1>3. Costs(s, x, n \in s.links)
  BY SetPeerCosts
<1>4. CASE x.err = "ok"
  <2>1. Costs(x.st, o, n \in s.links)
    BY <1>1, <1>2, <1>4, ReplaceRouteCosts
  <2> QED BY <1>3, <2>1, CostsTrans DEF Costs
<1>5. CASE x.err # "ok"
  BY <1>1, <1>3, <1>5
<1> QED BY <1>4, <1>5

\* A restore that costs nothing restores both.
LEMMA RestoreCosts ==
  ASSUME NEW s \in States, NEW n \in Nat, NEW k \in Keys, NEW a \in Addrs,
         NEW o \in restorePeerAndRoute(s, n, k, a)
  PROVE  /\ Costs(s, o, n \in s.links)
         /\ o.err = "ok" => <<n, k>> \in o.st.kpeers /\ o.st.routes[a] = n
<1>1. PICK x \in setPeerOnInterface(s, n, k) : \E r \in replacePeerRoute(x.st, n, a) :
        o = Outcome(r.st, IF x.err = "ok" THEN r.err ELSE x.err)
  BY DEF restorePeerAndRoute
<1>2. PICK r \in replacePeerRoute(x.st, n, a) :
        o = Outcome(r.st, IF x.err = "ok" THEN r.err ELSE x.err)
  BY <1>1
<1>3. o.st = r.st /\ o.err = IF x.err = "ok" THEN r.err ELSE x.err
  BY <1>2 DEF Outcome
<1>4. /\ x.st \in States /\ x.st.links = s.links
      /\ x.err = "ok" => <<n, k>> \in x.st.kpeers
  BY SetPeerStep, SetPeerRoutes DEF PeerStep
<1>5. r.st.kpeers = x.st.kpeers /\ (r.err = "ok" => r.st.routes[a] = n)
  BY <1>4, ReplaceRouteStep, ReplaceRouteRoutes
<1>6. Costs(s, x, n \in s.links) /\ Costs(x.st, r, n \in s.links)
  BY <1>4, SetPeerCosts, ReplaceRouteCosts
<1>7. Costs(s, o, n \in s.links)
  BY <1>3, <1>6, CostsTrans DEF Costs
<1> QED BY <1>3, <1>4, <1>5, <1>7

\* The peer is live on link n and routed to it.
Live(s, n, k, a) == <<n, k>> \in s.kpeers /\ s.routes[a] = n

\* The peer of a served key is removed with its route, or both are still there
\* unless a second command fails.
LEMMA RemoveFromCosts ==
  ASSUME NEW s \in States, NEW n \in Nat, NEW k \in Keys, NEW a \in Addrs,
         n \in s.links, s.routes[a] = n, NEW o \in removePeerFromInterface(s, n, k, a)
  PROVE  /\ Costs(s, o, TRUE)
         /\ (/\ <<n, k>> \in s.kpeers /\ o.err # "ok" /\ o.st.faults <= s.faults + 1) =>
              Live(o.st, n, k, a)
<1>1. PICK x \in removePeerOnlyFromInterface(s, n, k) :
        o \in IF x.err = "ok"
                THEN Catch(deletePeerRoute(x.st, n, a),
                           LAMBDA y : {Outcome(r.st, "failed") :
                                         r \in restorePeerAndRoute(y.st, n, k, a)})
                ELSE {x}
  BY DEF removePeerFromInterface, Then
<1>2. /\ x.st \in States /\ x.st.links = s.links /\ x.st.routes = s.routes
      /\ Costs(s, x, TRUE) /\ (x.err # "ok" => x.st.kpeers = s.kpeers)
  <2>1. PeerStep(s, x.st, n, k)
    BY RemovePeerOnlyStep
  <2>3. x.st.routes = s.routes
    BY RemovePeerOnlyRoutes
  <2>2. Costs(s, x, n \in s.links) /\ (x.err # "ok" => x.st.kpeers = s.kpeers)
    BY RemovePeerOnlyCosts
  <2> QED BY <2>1, <2>2, <2>3, CostsAllowed DEF PeerStep
<1>3. CASE x.err # "ok"
  BY <1>1, <1>2, <1>3 DEF Live
<1>4. CASE x.err = "ok"
  <2>1. PICK y \in deletePeerRoute(x.st, n, a) :
          o \in IF y.err = "ok" THEN {y}
                ELSE {Outcome(r.st, "failed") : r \in restorePeerAndRoute(y.st, n, k, a)}
    BY <1>1, <1>4 DEF Catch
  <2>2. Costs(x.st, y, TRUE) /\ y.st \in States /\ y.st.links = s.links
    <3>1. Costs(x.st, y, TRUE)
      BY <1>2, DeleteRouteCosts
    <3>2. PeerStep(x.st, y.st, n, k)
      BY <1>2, DeleteRouteStep
    <3> QED BY <1>2, <3>1, <3>2 DEF PeerStep
  <2>3. CASE y.err = "ok"
    <3>1. o = y
      BY <2>1, <2>3
    <3> QED BY <1>2, <2>2, <2>3, <3>1, CostsTrans DEF Costs
  <2>4. CASE y.err # "ok"
    <3>1. PICK r \in restorePeerAndRoute(y.st, n, k, a) : o = Outcome(r.st, "failed")
      BY <2>1, <2>4
    <3>2. o.st = r.st /\ o.err = "failed"
      BY <3>1 DEF Outcome
    <3>3. /\ Costs(y.st, r, TRUE)
          /\ r.err = "ok" => <<n, k>> \in r.st.kpeers /\ r.st.routes[a] = n
      <4>1. /\ Costs(y.st, r, n \in y.st.links)
            /\ r.err = "ok" => <<n, k>> \in r.st.kpeers /\ r.st.routes[a] = n
        BY <2>2, RestoreCosts
      <4> QED BY <2>2, <4>1, CostsAllowed
    <3>4. /\ r.st.faults \in Nat /\ s.faults \in Nat /\ r.st.faults > s.faults
          /\ r.err # "ok" => r.st.faults > s.faults + 1
      BY <1>2, <2>2, <2>4, <3>3 DEF Costs
    <3> QED BY <3>2, <3>3, <3>4 DEF Costs, Live
  <2> QED BY <2>3, <2>4
<1> QED BY <1>3, <1>4

\* The link of a tracked interface exists.
LEMMA TrackedLink ==
  ASSUME NEW s, NEW p \in Tracked(s), Books(s)
  PROVE  /\ p \in Profiles /\ s \in States
         /\ s.ifaces[p].name \in Nat /\ s.ifaces[p].port \in Nat /\ s.ifaces[p].name \in s.links
<1>1. s \in States /\ p \in Profiles /\ s.ifaces[p].name \in Nat /\ s.ifaces[p] \in Iface
  BY TrackedName DEF Books
<1>2. s.ifaces[p].name \in s.links
  BY DEF Books, HostAccountedIn
<1> QED BY <1>1, <1>2 DEF Iface

\* The interface of p is gone, nothing else has changed in the books.
Vacated(s, t, p) ==
  /\ t.ifaces = [s.ifaces EXCEPT ![p] = NoIface]
  /\ t.orphans = s.orphans
  /\ t.usedPorts = s.usedPorts \ {s.ifaces[p].port}

\* k is on profile p as it was, and no interface is new.
StillReached(s, t, p, k, a) ==
  Reached(t, p, s.ifaces[p].port, k, a) /\ Tracked(t) \subseteq Tracked(s)

\* A destroyed interface leaves the others and frees its port.
LEMMA DestroyTrackedCosts ==
  ASSUME NEW s \in States, NEW p \in Profiles, NEW o \in destroyTrackedInterface(s, p)
  PROVE  /\ Costs(s, o, s.ifaces[p].name \in s.links)
         /\ o.err = "ok" => Vacated(s, o.st, p)
         /\ o.err # "ok" => o.st \in States /\ o.st.links = s.links /\ o.st.ifaces = s.ifaces
<1> DEFINE n == s.ifaces[p].name
           done(t) == [t EXCEPT !.usedPorts = @ \ {s.ifaces[p].port}, !.ifaces[p] = NoIface]
           e == Unlinked(s, {n})
<1>1. PICK x \in destroyInterface(s, n) : o \in IF x.err = "ok" THEN {Done(done(x.st))} ELSE {x}
  BY DEF destroyTrackedInterface, Then
<1>2. Costs(s, x, n \in s.links)
  BY DestroyCosts
<1>3. Outcomes(s, x, e)
  BY <1>1, Zenon DEF Outcomes, destroyInterface, Command, Done, Outcome
<1>4. /\ e \in States /\ e.ifaces = s.ifaces /\ e.orphans = s.orphans /\ e.usedPorts = s.usedPorts
  BY UnlinkedFields
<1>5. /\ Faulted(s) \in States /\ Faulted(s).links = s.links /\ Faulted(s).ifaces = s.ifaces
  BY PeerStepRefl DEF PeerStep
<1> HIDE DEF n, e
<1>6. CASE x.err = "ok"
  <2> HIDE DEF done
  <2>0. x.st = e
    BY <1>3, <1>6 DEF Outcomes
  <2>1. x.st = e /\ o = Done(done(e))
    BY <1>1, <1>6, <2>0
  <2> USE DEF done
  <2>2. o.st = done(e) /\ o.err = "ok"
    BY <2>1 DEF Done, Outcome
  <2>3. /\ done(e).faults = e.faults /\ done(e).orphans = e.orphans
        /\ done(e).usedPorts = e.usedPorts \ {s.ifaces[p].port}
        /\ done(e).ifaces = [e.ifaces EXCEPT ![p] = NoIface]
    BY <1>4 DEF States
  <2> HIDE DEF done
  <2>4. Vacated(s, o.st, p)
    BY <1>4, <2>2, <2>3 DEF Vacated
  <2> QED BY <1>2, <1>4, <2>1, <2>2, <2>3, <2>4 DEF Costs
<1>7. CASE x.err # "ok"
  <2>1. o = x /\ (x.st = s \/ x.st = Faulted(s))
    BY <1>1, <1>3, <1>7 DEF Outcomes
  <2> QED BY <1>2, <1>5, <1>7, <2>1 DEF n
<1> QED BY <1>6, <1>7

\* An interface that lost its last peer goes, or the peer is back unless a second
\* command fails.
LEMMA DestroyOrRestoreCosts ==
  ASSUME NEW s, NEW p \in Tracked(s), NEW k \in Keys, NEW a \in Addrs, Inv(s), Sound(s),
         NEW o \in destroyOrRestore(s, p, k, a)
  PROVE  /\ Costs(s, o, TRUE)
         /\ o.err = "ok" => Vacated(s, o.st, p)
         /\ (o.err # "ok" /\ o.st.faults <= s.faults + 1) => StillReached(s, o.st, p, k, a)
<1> DEFINE n == s.ifaces[p].name
<1>1. PICK x \in destroyTrackedInterface(s, p) :
        o \in IF x.err = "ok" THEN {x}
              ELSE {Outcome(trackPeer(r.st, p, k), rollbackFailure("failed", r.err)) :
                      r \in restorePeerAndRoute(x.st, n, k, a)}
  BY DEF destroyOrRestore, Catch
<1>2. p \in Profiles /\ s \in States /\ n \in Nat /\ n \in s.links
  BY TrackedLink DEF Inv
<1>3. /\ Costs(s, x, TRUE)
      /\ x.err = "ok" => Vacated(s, x.st, p)
      /\ x.err # "ok" => x.st \in States /\ x.st.links = s.links /\ x.st.ifaces = s.ifaces
  <2>1. Costs(s, x, n \in s.links)
    BY <1>2, DestroyTrackedCosts
  <2>2. Costs(s, x, TRUE)
    BY <1>2, <2>1, CostsAllowed
  <2>3. /\ x.err = "ok" => Vacated(s, x.st, p)
        /\ x.err # "ok" => x.st \in States /\ x.st.links = s.links /\ x.st.ifaces = s.ifaces
    BY <1>2, DestroyTrackedCosts
  <2> QED BY <2>2, <2>3
<1>4. CASE x.err = "ok"
  BY <1>1, <1>3, <1>4
<1>5. CASE x.err # "ok"
  <2>1. PICK r \in restorePeerAndRoute(x.st, n, k, a) :
          o = Outcome(trackPeer(r.st, p, k), rollbackFailure("failed", r.err))
    BY <1>1, <1>5
  <2>2. o.st = trackPeer(r.st, p, k) /\ o.err # "ok"
    BY <2>1 DEF Outcome, rollbackFailure
  <2>3. /\ Costs(x.st, r, TRUE)
        /\ r.err = "ok" => <<n, k>> \in r.st.kpeers /\ r.st.routes[a] = n
    <3>1. /\ Costs(x.st, r, n \in x.st.links)
          /\ r.err = "ok" => <<n, k>> \in r.st.kpeers /\ r.st.routes[a] = n
      BY <1>2, <1>3, <1>5, RestoreCosts
    <3> QED BY <1>2, <1>3, <1>5, <3>1, CostsAllowed
  <2>4. r.st \in States /\ r.st.ifaces = s.ifaces
    BY <1>2, <1>3, <1>5, RestoreStep DEF PeerStep
  <2>5. Tracked(r.st) = Tracked(s)
    BY <2>4 DEF Tracked
  <2>6. /\ o.st.kpeers = r.st.kpeers /\ o.st.routes = r.st.routes /\ k \in o.st.ifaces[p].peers
        /\ \A q \in Profiles : /\ o.st.ifaces[q].name = s.ifaces[q].name
                               /\ o.st.ifaces[q].port = s.ifaces[q].port
    BY <2>2, <2>4, <2>5, TrackUndisturbed DEF SameBut
  <2>7. o.st.faults = r.st.faults
    BY <2>2, <2>4 DEF trackPeer, States
  <2>8. /\ o.st.faults \in Nat /\ s.faults \in Nat /\ o.st.faults > s.faults
        /\ r.err # "ok" => o.st.faults > s.faults + 1
    BY <1>3, <1>5, <2>3, <2>7 DEF Costs
  <2>9. Tracked(o.st) = Tracked(s)
    BY <2>6 DEF Tracked
  <2>10. Costs(s, o, TRUE)
    BY <2>8 DEF Costs
  <2>11. r.err = "ok" => StillReached(s, o.st, p, k, a)
    BY <1>2, <2>3, <2>6, <2>9 DEF Reached, StillReached
  <2>12. o.st.faults <= s.faults + 1 => r.err = "ok"
    BY <2>8
  <2> QED BY <2>2, <2>10, <2>11, <2>12
<1> QED BY <1>4, <1>5

\* Cleaning up after a failed add.
LEMMA CleanupCosts ==
  ASSUME NEW s \in States, NEW n \in Nat, NEW k \in Keys, NEW a \in Addrs, n \in s.links,
         NEW c \in cleanupPeerAfterFailedAdd(s, n, k, a)
  PROVE  Costs(s, c, TRUE) /\ (~c.removed => c.st.faults > s.faults)
<1>1. PICK x \in removePeerOnlyFromInterface(s, n, k) : \E r \in deletePartialRoute(x.st, n, a) :
        c = [st |-> r.st, removed |-> x.err = "ok", err |-> IF x.err = "ok" THEN r.err ELSE x.err]
  BY DEF cleanupPeerAfterFailedAdd
<1>2. PICK r \in deletePartialRoute(x.st, n, a) :
        c = [st |-> r.st, removed |-> x.err = "ok", err |-> IF x.err = "ok" THEN r.err ELSE x.err]
  BY <1>1
<1>3. c.st = r.st /\ c.removed = (x.err = "ok") /\ c.err = IF x.err = "ok" THEN r.err ELSE x.err
  BY <1>2
<1>4. x.st \in States /\ x.st.links = s.links
  <2>1. PeerStep(s, x.st, n, k)
    BY RemovePeerOnlyStep
  <2> QED BY <2>1 DEF PeerStep
<1>5. Costs(s, x, TRUE)
  <2>1. Costs(s, x, n \in s.links)
    BY RemovePeerOnlyCosts
  <2> QED BY <2>1, CostsAllowed
<1>6. Costs(x.st, r, TRUE)
  <2> DEFINE t == x.st
  <2>1. PICK y \in peerRouteExists(t, n) :
          r \in IF y.err = "ok"
                  THEN IF y.st.routes[a] = n THEN deletePeerRoute(y.st, n, a) ELSE {Done(y.st)}
                  ELSE {y}
    BY DEF deletePartialRoute, Then
  <2>2. y \in Command(t, n \in t.links, t)
    BY DEF peerRouteExists
  <2>3. Costs(t, y, TRUE)
    <3>1. Costs(t, y, n \in t.links)
      BY <1>4, <2>2, CommandCosts
    <3> QED BY <1>4, <3>1, CostsAllowed
  <2>4. y.st \in States
    <3>1. Outcomes(t, y, t)
      BY <2>2, Zenon DEF Outcomes, Command, Done, Outcome
    <3>2. Faulted(t) \in States
      BY <1>4, PeerStepRefl DEF PeerStep
    <3> QED BY <1>4, <3>1, <3>2 DEF Outcomes
  <2> HIDE DEF t
  <2>5. CASE y.err # "ok"
    BY <2>1, <2>3, <2>5 DEF t
  <2>6. CASE y.err = "ok" /\ y.st.routes[a] = n
    <3>1. Costs(y.st, r, y.st.routes[a] = n)
      BY <2>1, <2>4, <2>6, DeleteRouteCosts
    <3>2. Costs(y.st, r, TRUE)
      BY <2>6, <3>1, CostsAllowed
    <3> QED BY <2>3, <3>2, CostsTrans DEF Costs, t
  <2>7. CASE y.err = "ok" /\ y.st.routes[a] # n
    <3>1. r.st = y.st /\ r.err = "ok"
      BY <2>1, <2>7 DEF Done, Outcome
    <3> QED BY <2>3, <3>1 DEF Costs, t
  <2> QED BY <2>5, <2>6, <2>7
<1>7. /\ r.st.faults \in Nat /\ s.faults \in Nat /\ r.st.faults >= s.faults
      /\ x.err # "ok" => r.st.faults > s.faults
      /\ r.err # "ok" => r.st.faults > s.faults
  BY <1>5, <1>6 DEF Costs
<1> QED BY <1>3, <1>7 DEF Costs

\* What a failed add is undone to, unless another command fails: a still empty
\* interface is gone, and nothing else has changed in the books.
Undone(s, o, p) ==
  /\ o.err = "failed"
  /\ o.st.orphans = s.orphans
  /\ o.st.ifaces = IF s.ifaces[p].count = 0 THEN [s.ifaces EXCEPT ![p] = NoIface] ELSE s.ifaces

LEMMA UndoCosts ==
  ASSUME NEW s, NEW p \in Tracked(s), NEW k \in Keys, NEW a \in Addrs,
         Books(s), NEW o \in undoFailedAdd(s, p, k, a)
  PROVE  /\ s.faults \in Nat /\ o.st.faults \in Nat /\ o.st.faults >= s.faults
         /\ o.st.faults <= s.faults => Undone(s, o, p)
<1> DEFINE n == s.ifaces[p].name
           kept(c, t) == IF c.removed THEN t ELSE trackPeer(t, p, k)
<1>1. PICK c \in cleanupPeerAfterFailedAdd(s, n, k, a) :
        o \in IF s.ifaces[p].count = 0
                THEN {IF d.err = "ok" THEN Outcome(d.st, "failed")
                                      ELSE Outcome(kept(c, d.st), "rollbackFailed") :
                        d \in destroyTrackedInterface(c.st, p)}
                ELSE {Outcome(kept(c, c.st), rollbackFailure("failed", c.err))}
  BY DEF undoFailedAdd
<1>2. p \in Profiles /\ n \in Nat /\ s \in States /\ n \in s.links
  BY TrackedLink
<1>3. Costs(s, c, TRUE) /\ (~c.removed => c.st.faults > s.faults)
  BY <1>2, CleanupCosts
<1>4. /\ c.st \in States /\ c.st.ifaces = s.ifaces /\ c.st.orphans = s.orphans
      /\ c.st.links = s.links /\ c.removed \in BOOLEAN
  <2>1. PeerStep(s, c.st, n, k) /\ c.removed \in BOOLEAN
    BY <1>2, CleanupStep
  <2> QED BY <2>1 DEF PeerStep
<1>5. \A t \in States : kept(c, t).faults = t.faults
  BY DEF trackPeer, States
<1>6. CASE s.ifaces[p].count = 0
  <2>1. PICK d \in destroyTrackedInterface(c.st, p) :
          o = IF d.err = "ok" THEN Outcome(d.st, "failed")
                              ELSE Outcome(kept(c, d.st), "rollbackFailed")
    BY <1>1, <1>6
  <2>2. Costs(c.st, d, n \in c.st.links)
    BY <1>2, <1>4, DestroyTrackedCosts
  <2>3. /\ d.err = "ok" => /\ d.st.ifaces = [s.ifaces EXCEPT ![p] = NoIface]
                           /\ d.st.orphans = s.orphans
        /\ d.err # "ok" => d.st \in States
    <3>1. /\ d.err = "ok" => Vacated(c.st, d.st, p)
          /\ d.err # "ok" => d.st \in States
      BY <1>2, <1>4, DestroyTrackedCosts
    <3> QED BY <1>4, <3>1 DEF Vacated
  <2>4. Costs(c.st, d, TRUE)
    BY <1>2, <1>4, <2>2, CostsAllowed
  <2> HIDE DEF kept
  <2>5. CASE d.err = "ok"
    <3>1. o.st = d.st /\ o.err = "failed"
      BY <2>1, <2>5 DEF Outcome
    <3>2. s.faults \in Nat /\ d.st.faults \in Nat /\ d.st.faults >= s.faults
      BY <1>3, <2>4 DEF Costs
    <3>3. Undone(s, o, p)
      BY <1>6, <2>3, <2>5, <3>1 DEF Undone
    <3> QED BY <3>1, <3>2, <3>3
  <2>6. CASE d.err # "ok"
    <3>1. o.st = kept(c, d.st)
      BY <2>1, <2>6 DEF Outcome
    <3>2. o.st.faults = d.st.faults
      BY <1>5, <2>3, <2>6, <3>1
    <3>3. d.st.faults \in Nat /\ s.faults \in Nat /\ d.st.faults > s.faults
      BY <1>3, <2>4, <2>6, CostsTrans
    <3> QED BY <3>2, <3>3
  <2> QED BY <2>5, <2>6
<1>7. CASE s.ifaces[p].count # 0
  <2>1. o.st = kept(c, c.st) /\ o.err = rollbackFailure("failed", c.err)
    BY <1>1, <1>7 DEF Outcome
  <2>2. o.st.faults = c.st.faults
    BY <1>4, <1>5, <2>1
  <2>3. ASSUME o.st.faults <= s.faults PROVE Undone(s, o, p)
    <3>1. c.removed /\ c.err = "ok"
      BY <1>3, <2>2, <2>3 DEF Costs
    <3>2. o.st = c.st /\ o.err = "failed"
      BY <2>1, <3>1 DEF rollbackFailure
    <3> QED BY <1>4, <1>7, <3>2 DEF Undone
  <2> QED BY <1>3, <2>2, <2>3 DEF Costs
<1> QED BY <1>6, <1>7

LEMMA AddLockedCosts ==
  ASSUME NEW s, NEW p \in Tracked(s), NEW k \in Keys, NEW a \in Addrs,
         Inv(s), NEW o \in addPeerLocked(s, p, k, a)
  PROVE  /\ Costs(s, o, TRUE)
         /\ (o.err # "ok" /\ o.st.faults <= s.faults + 1) => Undone(s, o, p)
<1> DEFINE n == s.ifaces[p].name
<1>1. PICK x \in Catch(addPeerToInterface(s, n, k, a),
                       LAMBDA y : undoFailedAdd(y.st, p, k, a)) :
        o \in IF x.err = "ok" THEN {Done(trackPeer(x.st, p, k))} ELSE {x}
  BY DEF addPeerLocked, Then
<1>2. PICK y \in addPeerToInterface(s, n, k, a) :
        x \in IF y.err = "ok" THEN {y} ELSE undoFailedAdd(y.st, p, k, a)
  BY DEF Catch
<1>3. p \in Profiles /\ n \in Nat /\ s \in States /\ n \in s.links
  BY TrackedLink DEF Inv
<1>4. PeerStep(s, y.st, n, k) /\ y.st.ifaces = s.ifaces /\ y.st.orphans = s.orphans
  BY <1>3, AddToInterfaceStep DEF PeerStep
<1>5. Books(y.st) /\ LiveBut(y.st, p, k) /\ Tracked(y.st) = Tracked(s) /\ y.st \in States
  BY <1>3, <1>4, PeerStepBooks, LiveIsLiveBut DEF Inv, Books
<1>6. Costs(s, y, TRUE)
  <2>1. Costs(s, y, n \in s.links)
    BY <1>3, AddToInterfaceCosts
  <2> QED BY <1>3, <2>1, CostsAllowed
<1>7. CASE y.err = "ok"
  <2>1. o = Done(trackPeer(y.st, p, k))
    BY <1>1, <1>2, <1>7
  <2>2. o.st = trackPeer(y.st, p, k) /\ o.err = "ok"
    BY <2>1 DEF Done, Outcome
  <2>3. o.st.faults = y.st.faults
    BY <1>5, <2>2 DEF trackPeer, States
  <2> QED BY <1>6, <2>2, <2>3 DEF Costs
<1>8. CASE y.err # "ok"
  <2>1. x \in undoFailedAdd(y.st, p, k, a)
    BY <1>2, <1>8
  <2>2. x.err # "ok"
    BY <1>5, <2>1, UndoFailedAddInv
  <2>3. o = x
    BY <1>1, <2>2
  <2>4. /\ y.st.faults \in Nat /\ o.st.faults \in Nat /\ o.st.faults >= y.st.faults
        /\ o.st.faults <= y.st.faults => Undone(y.st, o, p)
    BY <1>5, <2>1, <2>3, UndoCosts
  <2>5. s.faults \in Nat /\ y.st.faults > s.faults
    BY <1>6, <1>8 DEF Costs
  <2>6. o.st.faults > s.faults /\ (o.st.faults <= s.faults + 1 => o.st.faults <= y.st.faults)
    BY <2>4, <2>5
  <2>7. Undone(y.st, o, p) => Undone(s, o, p)
    BY <1>4 DEF Undone
  <2> QED BY <2>4, <2>5, <2>6, <2>7 DEF Costs
<1> QED BY <1>7, <1>8

\* Link n is new, and nobody has its port.
Alone(s, n, port) == n \in s.links /\ \A l \in s.listen : l[1] # n /\ l[2] # port

LEMMA BringUpCosts ==
  ASSUME NEW s \in States, NEW n \in Nat, NEW port \in Nat, Alone(s, n, port),
         NEW o \in bringUp(s, n, port)
  PROVE  Costs(s, o, TRUE) /\ o.st \in States /\ n \in o.st.links
<1> SUFFICES Costs(s, o, TRUE) /\ o.st \in States /\ o.st.links = s.links
  BY DEF Alone
<1> DEFINE e == [s EXCEPT !.listen = @ \cup {<<n, port>>}]
<1>1. PICK x \in configureDevice(s, n, port) :
        o \in IF x.err = "ok"
                THEN Then(configureInterfaceNetwork(x.st, n),
                          LAMBDA u : IF u.masqAdded THEN {Done(u)} ELSE addMasquerade(u))
                ELSE {x}
  BY DEF bringUp, Then
<1>2. /\ e \in States /\ e.links = s.links /\ e.faults = s.faults
      /\ e.listen = s.listen \cup {<<n, port>>}
  BY DEF States
<1>3. x \in Command(s, n \in s.links, e) /\ Outcomes(s, x, e)
  BY <1>1, Zenon DEF configureDevice, Outcomes, Command, Done, Outcome
<1>4. \A t \in States : Faulted(t) \in States /\ Faulted(t).links = t.links
  BY PeerStepRefl DEF PeerStep
<1> HIDE DEF e
<1>5. Costs(s, x, TRUE)
  <2>1. Costs(s, x, n \in s.links)
    BY <1>2, <1>3, CommandCosts
  <2> QED BY <2>1, CostsAllowed DEF Alone
<1>6. CASE x.err # "ok"
  <2>1. o = x
    BY <1>1, <1>6
  <2>2. x.st = s \/ x.st = Faulted(s)
    BY <1>3, <1>6 DEF Outcomes
  <2> QED BY <1>4, <1>5, <2>1, <2>2
<1>7. CASE x.err = "ok"
  <2> DEFINE fits == n \in e.links /\ \A l, r \in e.listen : l[1] = n /\ l[2] = r[2] => r[1] = n
  <2>1. x.st = e
    BY <1>3, <1>7 DEF Outcomes
  <2>2. PICK y \in configureInterfaceNetwork(e, n) :
          o \in IF y.err = "ok" THEN IF y.st.masqAdded THEN {Done(y.st)} ELSE addMasquerade(y.st)
                                ELSE {y}
    BY <1>1, <1>7, <2>1 DEF Then
  <2>3. y \in Command(e, fits, e) /\ Outcomes(e, y, e)
    BY <2>2, Zenon DEF configureInterfaceNetwork, Outcomes, Command, Done, Outcome
  <2>4. fits
    <3>1. ASSUME NEW l \in e.listen, NEW r \in e.listen, l[1] = n, l[2] = r[2] PROVE r[1] = n
      <4>1. l = <<n, port>>
        BY <1>2, <3>1 DEF Alone
      <4>2. r[2] = port
        BY <3>1, <4>1
      <4> QED BY <1>2, <4>2 DEF Alone
    <3> QED BY <1>2, <3>1 DEF Alone
  <2> HIDE DEF fits
  <2>5. Costs(e, y, TRUE)
    <3>1. Costs(e, y, fits)
      BY <1>2, <2>3, CommandCosts
    <3> QED BY <2>4, <3>1, CostsAllowed
  <2>6. y.st \in States /\ y.st.links = s.links
    BY <1>2, <1>4, <2>3 DEF Outcomes
  <2>7. Costs(s, y, TRUE)
    BY <1>2, <2>5 DEF Costs
  <2>8. CASE y.err # "ok"
    BY <2>2, <2>6, <2>7, <2>8
  <2>9. CASE y.err = "ok" /\ y.st.masqAdded
    <3>1. o.st = y.st /\ o.err = "ok"
      BY <2>2, <2>9 DEF Done, Outcome
    <3> QED BY <2>6, <2>7, <3>1 DEF Costs
  <2>10. CASE y.err = "ok" /\ ~y.st.masqAdded
    <3> DEFINE t == y.st
               m == [t EXCEPT !.masq = @ + 1, !.masqAdded = TRUE]
    <3>1. o \in addMasquerade(t)
      BY <2>2, <2>10
    <3>2. o \in Command(t, TRUE, m) /\ Outcomes(t, o, m)
      BY <3>1, Zenon DEF addMasquerade, Outcomes, Command, Done, Outcome
    <3>3. m \in States /\ m.faults = t.faults /\ m.links = t.links
      <4> DEFINE f == [t EXCEPT !.masq = @ + 1]
      <4>0. t \in States
        BY <2>6
      <4> HIDE DEF t
      <4>1. f \in States /\ f.faults = t.faults /\ f.links = t.links
        BY <4>0 DEF States
      <4>2. m = [f EXCEPT !.masqAdded = TRUE]
        OBVIOUS
      <4> HIDE DEF f, m
      <4> QED BY <4>1, <4>2 DEF States
    <3> HIDE DEF m, t
    <3>4. Costs(t, o, TRUE)
      BY <2>6, <3>2, <3>3, CommandCosts DEF t
    <3>5. o.st \in States /\ o.st.links = s.links
      BY <1>4, <2>6, <3>2, <3>3 DEF Outcomes, t
    <3> QED BY <2>7, <3>4, <3>5 DEF Costs, t
  <2> QED BY <2>8, <2>9, <2>10
<1> QED BY <1>6, <1>7

\* A new interface under the next number, on a free port: nothing stands in its
\* way, and after one failed command it is gone without a trace.
LEMMA NewInterfaceCosts ==
  ASSUME NEW s, NEW port, NEW p \in Profiles, Inv(s), Free(s, s.nextIndex, port),
         NEW o \in newInterface(s, p, port)
  PROVE  /\ Costs(s, o, TRUE)
         /\ (o.err # "ok" /\ o.st.faults <= s.faults + 1) => o.err = "failed"
<1> DEFINE n == s.nextIndex
           b == [s EXCEPT !.nextIndex = n + 1]
           e == [b EXCEPT !.links = @ \cup {n}]
<1>1. s \in States /\ n \in Nat /\ port \in Nat /\ b \in States
  BY DEF Inv, Books, States, Free
<1>2. PICK c \in createInterface(b, n) :
        o \in IF c.err = "ok"
                THEN Then(Catch(bringUp(c.st, n, port),
                                LAMBDA x : abandonInterface(x.st, n, port)),
                          LAMBDA x : {Done(registerInterface(x, p, n, port))})
                ELSE {c}
  BY DEF newInterface, Then
<1>3. c \in Command(b, n \notin b.links, e) /\ Outcomes(b, c, e)
  BY Zenon DEF Outcomes, createInterface, Command, Done, Outcome
<1>4. /\ b.links = s.links /\ b.faults = s.faults /\ b.listen = s.listen
  BY <1>1 DEF States
<1>5. /\ e \in States /\ e.links = s.links \cup {n} /\ e.faults = s.faults /\ e.listen = s.listen
  <2>1. e \in States /\ e.links = b.links \cup {n} /\ e.faults = b.faults /\ e.listen = b.listen
    <3> HIDE DEF b
    <3> QED BY <1>1 DEF States
  <2> QED BY <1>4, <2>1
<1>6. n \notin s.links /\ Alone(e, n, port)
  <2>1. /\ n \notin s.links
        /\ \A x \in Tracked(s) : s.ifaces[x].name # n /\ s.ifaces[x].port # port
        /\ \A r \in s.orphans : r.name # n /\ r.port # port
    BY FreeIsFresh DEF Inv
  <2>2. \A l \in s.listen : \/ \E x \in Tracked(s) : l = <<s.ifaces[x].name, s.ifaces[x].port>>
                            \/ \E r \in s.orphans : l = <<r.name, r.port>>
    BY DEF Inv, Books, HostAccountedIn
  <2>3. \A l \in s.listen : l[1] # n /\ l[2] # port
    BY <2>1, <2>2
  <2> HIDE DEF e, b
  <2> QED BY <1>5, <2>1, <2>3 DEF Alone
<1> HIDE DEF b, e
<1>7. Costs(s, c, TRUE)
  <2>1. Costs(b, c, n \notin b.links)
    BY <1>1, <1>3, <1>4, <1>5, CommandCosts
  <2>2. Costs(b, c, TRUE)
    BY <1>4, <1>6, <2>1, CostsAllowed
  <2> QED BY <1>4, <2>2 DEF Costs
<1>8. CASE c.err # "ok"
  <2>2. o = c
    BY <1>2, <1>8
  <2>1. o = c /\ c.err = "failed"
    BY <1>3, <1>8, <2>2 DEF Outcomes
  <2> QED BY <1>7, <2>1
<1>9. CASE c.err = "ok"
  <2>1. c.st = e
    BY <1>3, <1>9 DEF Outcomes
  <2>2. PICK x \in Catch(bringUp(e, n, port), LAMBDA y : abandonInterface(y.st, n, port)) :
          o \in IF x.err = "ok" THEN {Done(registerInterface(x.st, p, n, port))} ELSE {x}
    BY <1>2, <1>9, <2>1 DEF Then
  <2>3. PICK y \in bringUp(e, n, port) :
          x \in IF y.err = "ok" THEN {y} ELSE abandonInterface(y.st, n, port)
    BY DEF Catch
  <2>4. Costs(e, y, TRUE) /\ y.st \in States /\ n \in y.st.links
    <3>1. /\ e \in States /\ Alone(e, n, port) /\ n \in Nat /\ port \in Nat
          /\ y \in bringUp(e, n, port)
      BY <1>1, <1>5, <1>6, <2>3
    <3> HIDE DEF n
    <3> QED BY <3>1, BringUpCosts
  <2>5. /\ s.faults \in Nat /\ y.st.faults \in Nat /\ y.st.faults >= s.faults
        /\ y.err # "ok" => y.st.faults > s.faults
    BY <1>5, <2>4 DEF Costs
  <2>6. CASE y.err = "ok"
    <3>1. o = Done(registerInterface(y.st, p, n, port))
      BY <2>2, <2>3, <2>6
    <3>2. o.st = registerInterface(y.st, p, n, port) /\ o.err = "ok"
      BY <3>1 DEF Done, Outcome
    <3>3. o.st.faults = y.st.faults
      BY <2>4, <3>2 DEF registerInterface, States
    <3> QED BY <2>5, <3>2, <3>3 DEF Costs
  <2>7. CASE y.err # "ok"
    <3>1. PICK d \in destroyInterface(y.st, n) :
            x = IF d.err = "ok" THEN Outcome(d.st, "failed")
                ELSE Outcome(trackOrphanInterface(d.st, n, port), "rollbackFailed")
      BY <2>3, <2>7 DEF abandonInterface
    <3>2. Costs(y.st, d, TRUE)
      <4>1. Costs(y.st, d, n \in y.st.links)
        BY <2>4, DestroyCosts
      <4> QED BY <2>4, <4>1, CostsAllowed
    <3>3. d.st \in States
      <4> DEFINE g == Unlinked(y.st, {n})
      <4>1. Outcomes(y.st, d, g)
        BY <3>1, Zenon DEF Outcomes, destroyInterface, Command, Done, Outcome
      <4>2. g \in States /\ Faulted(y.st) \in States
        BY <2>4, UnlinkedFields, PeerStepRefl DEF PeerStep
      <4> HIDE DEF g
      <4> QED BY <2>4, <4>1, <4>2 DEF Outcomes
    <3>4. x.err # "ok" /\ x.st.faults = d.st.faults /\ (d.err = "ok" => x.err = "failed")
      BY <3>1, <3>3 DEF Outcome, trackOrphanInterface, States
    <3>5. o = x
      BY <2>2, <3>4
    <3>6. /\ d.st.faults \in Nat /\ d.st.faults > s.faults
          /\ d.err # "ok" => d.st.faults > s.faults + 1
      BY <2>5, <2>7, <3>2 DEF Costs
    <3>7. d.st.faults <= s.faults + 1 => d.err = "ok"
      BY <2>5, <3>6
    <3> QED BY <2>5, <3>4, <3>5, <3>6, <3>7 DEF Costs
  <2> QED BY <2>6, <2>7
<1> QED BY <1>8, <1>9

\* getOrCreateInterface refuses before it does anything.
Refused(s, p, req) ==
  IF p \in Tracked(s) THEN PortConflicts(s, p, req)
  ELSE (req # 0 /\ req \in s.usedPorts) \/ LimitReached(s) \/ resolvePort(s, req) = {}

\* An error, and nothing was done.
Rejected(s, o) == o.st = s /\ o.err # "ok"

LEMMA GetOrCreateCosts ==
  ASSUME NEW s, NEW req \in Nat, NEW p \in Profiles, Inv(s),
         NEW o \in getOrCreateInterface(s, p, req)
  PROVE  /\ Refused(s, p, req) => Rejected(s, o)
         /\ ~Refused(s, p, req) =>
              /\ Costs(s, o, TRUE)
              /\ (o.err # "ok" /\ o.st.faults <= s.faults + 1) => o.err = "failed"
<1>0. s \in States /\ s.faults \in Nat
  BY DEF Inv, Books, States
<1>1. CASE Refused(s, p, req)
  <2>1. \E err \in {"portConflict", "portInUse", "maxInterfaces", "refused"} : o = Outcome(s, err)
    BY <1>1, Zenon DEF getOrCreateInterface, Refused
  <2>2. Rejected(s, o)
    BY <2>1 DEF Outcome, Rejected
  <2> QED BY <1>1, <2>2
<1>2. CASE ~Refused(s, p, req)
  <2>1. CASE p \in Tracked(s)
    <3>1. o.st = s /\ o.err = "ok"
      BY <1>2, <2>1 DEF getOrCreateInterface, Refused, Outcome
    <3> QED BY <1>0, <1>2, <3>1 DEF Costs
  <2>2. CASE p \notin Tracked(s)
    <3>1. PICK port \in resolvePort(s, req) : o \in newInterface(s, p, port)
      BY <1>2, <2>2 DEF getOrCreateInterface, Refused
    <3>2. Free(s, s.nextIndex, port)
      BY PortAssumption DEF resolvePort, Free
    <3> QED BY <1>2, <3>1, <3>2, NewInterfaceCosts
  <2> QED BY <2>1, <2>2
<1> QED BY <1>1, <1>2

\* The books of t are those of s, or some interfaces are gone.
Shrunk(s, t) ==
  /\ t.orphans = s.orphans
  /\ \A x \in Profiles : t.ifaces[x] = s.ifaces[x] \/ t.ifaces[x] = NoIface

\* Then what there was room for, there still is.
LEMMA ShrunkRoom ==
  ASSUME NEW s, NEW t, Inv(s), Inv(t), Shrunk(s, t)
  PROVE  /\ Tracked(t) \subseteq Tracked(s) /\ t.usedPorts \subseteq s.usedPorts
         /\ LimitReached(t) => LimitReached(s)
<1>1. /\ Tracked(t) \subseteq Tracked(s)
      /\ \A x \in Tracked(t) : t.ifaces[x] = s.ifaces[x]
  BY DEF Shrunk, Tracked, NoIface
<1>2. t.usedPorts \subseteq s.usedPorts
  <2>1. /\ t.usedPorts = {t.ifaces[p].port : p \in Tracked(t)} \cup {o.port : o \in t.orphans}
        /\ s.usedPorts = {s.ifaces[p].port : p \in Tracked(s)} \cup {o.port : o \in s.orphans}
    BY DEF Inv, Books, HostAccountedIn
  <2> QED BY <1>1, <2>1 DEF Shrunk
<1>3. LimitReached(t) => LimitReached(s)
  <2>1. /\ IsFiniteSet(Tracked(s)) /\ IsFiniteSet(Tracked(t)) /\ IsFiniteSet(s.orphans)
    BY DEF Inv, Books, NamesAndSizes
  <2>2. /\ Cardinality(Tracked(t)) <= Cardinality(Tracked(s))
        /\ Cardinality(Tracked(t)) \in Nat /\ Cardinality(Tracked(s)) \in Nat
        /\ Cardinality(s.orphans) \in Nat
    BY <1>1, <2>1, FS_Subset, FS_CardinalityType
  <2> QED BY <2>2, LimitAssumption DEF LimitReached, Shrunk
<1> QED BY <1>1, <1>2, <1>3

\* Pool.AddPeer is refused before it does anything, or an error costs a failed
\* command, after which nothing is left of it unless a second one fails.
LEMMA AddPeerCosts ==
  ASSUME NEW s, NEW p \in Profiles, NEW req \in Nat, NEW k \in Keys, NEW a \in Addrs,
         Inv(s), Sound(s), NEW o \in AddPeer(s, p, req, k, a)
  PROVE  /\ Refused(s, p, req) => Rejected(s, o)
         /\ ~Refused(s, p, req) =>
              /\ Costs(s, o, TRUE)
              /\ (o.err # "ok" /\ o.st.faults <= s.faults + 1) => Shrunk(s, o.st)
<1>1. PICK g \in getOrCreateInterface(s, p, req) :
        o \in IF g.err = "ok" THEN addPeerLocked(g.st, p, k, a) ELSE {g}
  BY DEF AddPeer, Then
<1>2. /\ Refused(s, p, req) => Rejected(s, g)
      /\ ~Refused(s, p, req) =>
           /\ Costs(s, g, TRUE)
           /\ (g.err # "ok" /\ g.st.faults <= s.faults + 1) => g.err = "failed"
  BY GetOrCreateCosts
<1>3. Inv(g.st) /\ (g.err = "ok" => p \in Tracked(g.st))
  BY GetOrCreateInv
<1>4. /\ Touches(s, g.st, p)
      /\ g.err = "ok" => /\ g.st.orphans = s.orphans
                         /\ g.st.ifaces[p].peers = s.ifaces[p].peers
                         /\ p \in Tracked(s) => g.st = s
      /\ g.err \notin {"ok", "rollbackFailed"} => SameBooks(s, g.st)
  <2> HIDE DEF Touches
  <2>1. Touches(s, g.st, p)
    BY GetOrCreateEffect
  <2>2. g.err = "ok" => /\ g.st.orphans = s.orphans
                        /\ g.st.ifaces[p].peers = s.ifaces[p].peers
                        /\ p \in Tracked(s) => g.st = s
    BY GetOrCreateEffect
  <2>3. g.err \notin {"ok", "rollbackFailed"} => SameBooks(s, g.st)
    BY GetOrCreateEffect
  <2> QED BY <2>1, <2>2, <2>3
<1>5. CASE Refused(s, p, req)
  BY <1>1, <1>2, <1>5 DEF Rejected
<1>6. CASE ~Refused(s, p, req) /\ g.err # "ok"
  <2>1. o = g
    BY <1>1, <1>6
  <2>2. SameBooks(s, g.st) => Shrunk(s, g.st)
    BY DEF SameBooks, Shrunk
  <2> QED BY <1>2, <1>4, <1>6, <2>1, <2>2
<1>7. CASE ~Refused(s, p, req) /\ g.err = "ok"
  <2>1. /\ Costs(g.st, o, TRUE)
        /\ (o.err # "ok" /\ o.st.faults <= g.st.faults + 1) => Undone(g.st, o, p)
    BY <1>1, <1>3, <1>7, AddLockedCosts
  <2>2. Costs(s, g, TRUE)
    BY <1>2, <1>7
  <2>3. /\ Costs(s, o, TRUE)
        /\ (o.err # "ok" /\ o.st.faults <= s.faults + 1) => o.st.faults <= g.st.faults + 1
    BY <2>1, <2>2 DEF Costs
  <2>4. ASSUME Undone(g.st, o, p) PROVE Shrunk(s, o.st)
    <3>1. o.st.orphans = s.orphans
      BY <1>4, <1>7, <2>4 DEF Undone
    <3>2. \A x \in Profiles : x # p => g.st.ifaces[x] = s.ifaces[x]
      BY <1>4 DEF Touches
    <3>3. g.st.ifaces \in [Profiles -> Iface]
      BY <1>3 DEF Inv, Books, States
    <3>4. CASE g.st.ifaces[p].count = 0
      <4>1. o.st.ifaces = [g.st.ifaces EXCEPT ![p] = NoIface]
        BY <2>4, <3>4 DEF Undone
      <4> QED BY <3>1, <3>2, <3>3, <4>1 DEF Shrunk
    <3>5. CASE g.st.ifaces[p].count # 0
      <4>1. o.st.ifaces = g.st.ifaces
        BY <2>4, <3>5 DEF Undone
      <4>2. p \in Tracked(s)
        <5>1. SUFFICES ASSUME p \notin Tracked(s) PROVE FALSE
          OBVIOUS
        <5>2. s.ifaces[p].name = NoName
          BY <5>1 DEF Tracked
        <5>3. s.ifaces[p] = NoIface
          BY <5>2 DEF Sound, GoodIface
        <5>4. g.st.ifaces[p].peers = {}
          BY <1>4, <1>7, <5>3 DEF NoIface
        <5>5. GoodIface(g.st.ifaces[p]) /\ g.st.ifaces[p] \in Iface
          BY <1>4, <3>3 DEF Touches, Sound
        <5> QED BY <3>5, <5>4, <5>5, GoodIfaceFacts
      <4>3. g.st = s
        BY <1>4, <1>7, <4>2
      <4> QED BY <3>1, <4>1, <4>3 DEF Shrunk
    <3> QED BY <3>4, <3>5
  <2> QED BY <1>7, <2>1, <2>3, <2>4
<1> QED BY <1>5, <1>6, <1>7

-----------------------------------------------------------------------------
\* What is refused depends on the books alone.
LEMMA RefusedBooks ==
  ASSUME NEW s, NEW t, NEW u, NEW p, NEW q, NEW req, Vacated(s, t, p), Vacated(s, u, p)
  PROVE  Refused(t, q, req) <=> Refused(u, q, req)
<1>1. t.ifaces = u.ifaces /\ t.orphans = u.orphans /\ t.usedPorts = u.usedPorts
  BY DEF Vacated
<1>2. Tracked(t) = Tracked(u)
  BY <1>1 DEF Tracked
<1>3. resolvePort(t, req) = resolvePort(u, req)
  BY <1>1, Zenon DEF resolvePort
<1>4. LimitReached(t) <=> LimitReached(u)
  BY <1>1, <1>2, Zenon DEF LimitReached
<1>5. PortConflicts(t, q, req) <=> PortConflicts(u, q, req)
  BY <1>1, Zenon DEF PortConflicts
<1> QED BY <1>1, <1>2, <1>3, <1>4, <1>5, Zenon DEF Refused

\* A peer that is reached is one the pool has.
LEMMA ReachedHas ==
  ASSUME NEW s, NEW p \in Profiles, NEW k, NEW a, Inv(s), Sound(s), Reached(s, p, 0, k, a)
  PROVE  /\ HasPeer(s, p, k) /\ s.ifaces[p].port \in Nat \ {0}
         /\ s.ifaces[p].name \in Nat /\ s.ifaces[p].name \in s.links /\ s \in States
<1>1. p \in Tracked(s) /\ k \in s.ifaces[p].peers
  BY DEF Reached
<1>2. /\ s \in States /\ s.ifaces[p] \in Iface
      /\ s.ifaces[p].name \in Nat /\ s.ifaces[p].port \in Nat /\ s.ifaces[p].name \in s.links
  BY <1>1, TrackedLink, TrackedName DEF Inv
<1>3. GoodIface(s.ifaces[p]) /\ s.ifaces[p].name # NoName
  BY <1>1 DEF Sound, Tracked
<1>4. s.ifaces[p].count # 0 /\ s.ifaces[p].count \in Nat
  BY <1>1, <1>2, <1>3, GoodIfaceFacts DEF Iface
<1>5. s.ifaces[p].port # 0
  BY <1>3 DEF GoodIface
<1> QED BY <1>1, <1>2, <1>4, <1>5 DEF HasPeer

\* Removing a peer that is reached: it is off the interface, or it is still
\* reached unless a second command fails.
LEMMA RemoveReached ==
  ASSUME NEW s, NEW p \in Profiles, NEW k \in Keys, NEW a \in Addrs, Inv(s), Sound(s),
         Reached(s, p, 0, k, a), NEW x \in removePeerFromInterface(s, s.ifaces[p].name, k, a)
  PROVE  LET u == untrackPeer(x.st, p, k)
         IN /\ Costs(s, x, TRUE)
            /\ (x.err # "ok" /\ x.st.faults <= s.faults + 1) => StillReached(s, x.st, p, k, a)
            /\ x.err = "ok" =>
                 /\ Inv(u) /\ Sound(u) /\ Tracked(u) = Tracked(s) /\ u.faults = x.st.faults
                 /\ u.orphans = s.orphans /\ u.usedPorts = s.usedPorts
                 /\ u.ifaces[p].port = s.ifaces[p].port
                 /\ \A q \in Profiles : q # p => u.ifaces[q] = s.ifaces[q]
<1> DEFINE n == s.ifaces[p].name
           u == untrackPeer(x.st, p, k)
<1>1. /\ p \in Tracked(s) /\ k \in s.ifaces[p].peers /\ <<n, k>> \in s.kpeers /\ s.routes[a] = n
      /\ n \in Nat /\ n \in s.links /\ s \in States
  BY ReachedHas DEF Reached
<1>2. PeerStep(s, x.st, n, k)
  BY <1>1, RemoveFromInterfaceStep
<1>3. /\ Inv(x.st) /\ x.st.ifaces = s.ifaces
      /\ x.err = "ok" => Inv(u) /\ Tracked(u) = Tracked(s) /\ OthersKept(s, u, p)
  BY <1>1, RemoveTrackedPeer
<1>4. Tracked(x.st) = Tracked(s) /\ Sound(x.st)
  BY <1>2, PeerStepSame, SameSound
<1>5. Costs(s, x, TRUE)
  BY <1>1, RemoveFromCosts
<1>7. ASSUME x.err # "ok", x.st.faults <= s.faults + 1
      PROVE  StillReached(s, x.st, p, k, a)
  <2>1. <<n, k>> \in x.st.kpeers /\ x.st.routes[a] = n
    <3>1. Live(x.st, n, k, a)
      BY <1>1, <1>7, RemoveFromCosts
    <3> QED BY <3>1 DEF Live
  <2> QED BY <1>1, <1>3, <1>4, <2>1 DEF Reached, StillReached
<1>8. /\ Sound(u) /\ u.orphans = x.st.orphans /\ u.ifaces[p].port = x.st.ifaces[p].port
  BY <1>1, <1>4, UntrackEffect DEF Touches
<1>9. u.usedPorts = x.st.usedPorts /\ u.faults = x.st.faults
  BY <1>2 DEF untrackPeer, States, PeerStep
<1>10. x.st.orphans = s.orphans /\ x.st.usedPorts = s.usedPorts
  BY <1>2 DEF PeerStep
<1> HIDE DEF u, n
<1>11. x.err = "ok" => \A q \in Profiles : q # p => u.ifaces[q] = s.ifaces[q]
  BY <1>3 DEF OthersKept
<1>12. x.err = "ok" =>
                 /\ Inv(u) /\ Sound(u) /\ Tracked(u) = Tracked(s) /\ u.faults = x.st.faults
                 /\ u.orphans = s.orphans /\ u.usedPorts = s.usedPorts
                 /\ u.ifaces[p].port = s.ifaces[p].port
                 /\ \A q \in Profiles : q # p => u.ifaces[q] = s.ifaces[q]
  BY <1>3, <1>8, <1>9, <1>10, <1>11
<1> QED BY <1>4, <1>5, <1>7, <1>12 DEF u

\* Then its empty interface goes, or the peer is reached again unless a second
\* command fails.
LEMMA VacateReached ==
  ASSUME NEW s, NEW p \in Profiles, NEW k \in Keys, NEW a \in Addrs, Inv(s), Sound(s),
         Reached(s, p, 0, k, a), NEW x \in removePeerFromInterface(s, s.ifaces[p].name, k, a),
         x.err = "ok", NEW y \in destroyOrRestore(untrackPeer(x.st, p, k), p, k, a)
  PROVE  /\ y.st.faults \in Nat /\ s.faults \in Nat /\ y.st.faults >= s.faults
         /\ (y.err # "ok" /\ y.st.faults <= s.faults + 1) => StillReached(s, y.st, p, k, a)
         /\ y.err = "ok" => Vacated(s, y.st, p) /\ Inv(y.st) /\ Sound(y.st)
<1> DEFINE u == untrackPeer(x.st, p, k)
<1>1. /\ Inv(u) /\ Sound(u) /\ Tracked(u) = Tracked(s) /\ u.faults = x.st.faults
      /\ u.orphans = s.orphans /\ u.usedPorts = s.usedPorts
      /\ u.ifaces[p].port = s.ifaces[p].port
      /\ \A q \in Profiles : q # p => u.ifaces[q] = s.ifaces[q]
  BY RemoveReached
<1>2. Costs(s, x, TRUE)
  BY RemoveReached
<1>3. p \in Tracked(u)
  BY <1>1 DEF Reached
<1> HIDE DEF u
<1>4. y \in destroyOrRestore(u, p, k, a)
  BY DEF u
<1>5. Costs(u, y, TRUE)
  BY <1>1, <1>3, <1>4, DestroyOrRestoreCosts
<1>6. y.err = "ok" => Vacated(u, y.st, p)
  BY <1>1, <1>3, <1>4, DestroyOrRestoreCosts
<1>7. (y.err # "ok" /\ y.st.faults <= u.faults + 1) => StillReached(u, y.st, p, k, a)
  BY <1>1, <1>3, <1>4, DestroyOrRestoreCosts
<1>8. /\ y.st.faults \in Nat /\ s.faults \in Nat /\ y.st.faults >= s.faults
      /\ y.st.faults <= s.faults + 1 => y.st.faults <= u.faults + 1
  BY <1>1, <1>2, <1>5 DEF Costs
<1>9. Inv(y.st)
  BY <1>1, <1>3, <1>4, DestroyOrRestoreInv DEF Keeps
<1>10. Sound(y.st)
  BY <1>1, <1>3, <1>4, DestroyOrRestoreEffect DEF Touches
<1>11. y.err = "ok" => Vacated(s, y.st, p)
  <2>1. u.ifaces \in [Profiles -> Iface] /\ s.ifaces \in [Profiles -> Iface]
    BY <1>1 DEF Sound, States
  <2>2. [u.ifaces EXCEPT ![p] = NoIface] = [s.ifaces EXCEPT ![p] = NoIface]
    BY <1>1, <2>1
  <2> QED BY <1>1, <1>6, <2>2 DEF Vacated
<1>12. StillReached(u, y.st, p, k, a) => StillReached(s, y.st, p, k, a)
  BY <1>1, Zenon DEF StillReached
<1> QED BY <1>7, <1>8, <1>9, <1>10, <1>11, <1>12

\* Pool.RemovePeer of a peer that is reached: an error leaves it reached, unless
\* a second command fails.
LEMMA RemovePeerCosts ==
  ASSUME NEW s, NEW p \in Profiles, NEW k \in Keys, NEW a \in Addrs, Inv(s), Sound(s),
         Reached(s, p, 0, k, a), NEW o \in RemovePeer(s, p, k, a),
         o.err # "ok", o.st.faults <= s.faults + 1
  PROVE  StillReached(s, o.st, p, k, a)
<1>1. HasPeer(s, p, k)
  BY ReachedHas
<1>2. PICK x \in removePeerFromInterface(s, s.ifaces[p].name, k, a) :
        o \in IF x.err = "ok"
                THEN LET u == untrackPeer(x.st, p, k)
                     IN IF u.ifaces[p].count = 0 THEN destroyOrRestore(u, p, k, a) ELSE {Done(u)}
                ELSE {x}
  BY <1>1 DEF RemovePeer, Then
<1>3. CASE x.err # "ok"
  <2>1. o = x
    BY <1>2, <1>3
  <2> QED BY <1>3, <2>1, RemoveReached
<1>4. CASE x.err = "ok"
  <2>1. o \in destroyOrRestore(untrackPeer(x.st, p, k), p, k, a)
    BY <1>2, <1>4 DEF Done, Outcome
  <2> QED BY <1>4, <2>1, VacateReached
<1> QED BY <1>3, <1>4

\* An interface that is gone can be made again, on its old port.
LEMMA VacatedRoom ==
  ASSUME NEW s, NEW t, NEW u, NEW p \in Tracked(s), Inv(s), Inv(t), Inv(u),
         s.ifaces[p].port \in Nat \ {0}, Vacated(s, t, p), Shrunk(t, u)
  PROVE  ~Refused(u, p, s.ifaces[p].port) /\ Tracked(u) \subseteq Tracked(s)
<1> DEFINE port == s.ifaces[p].port
<1>1. Tracked(u) \subseteq Tracked(t) /\ u.usedPorts \subseteq t.usedPorts
  BY ShrunkRoom
<1>2. LimitReached(u) => LimitReached(t)
  BY ShrunkRoom
<1>3. s.ifaces \in [Profiles -> Iface] /\ p \in Profiles
  BY DEF Inv, Books, States, Tracked
<1>4. Tracked(t) = Tracked(s) \ {p}
  BY <1>3 DEF Tracked, Vacated, NoIface
<1>5. port \notin u.usedPorts
  BY <1>1 DEF Vacated
<1>6. ~LimitReached(t)
  <2>1. IsFiniteSet(Tracked(s)) /\ IsFiniteSet(s.orphans) /\ t.orphans = s.orphans
    BY DEF Inv, Books, NamesAndSizes, Vacated
  <2>2. /\ Cardinality(Tracked(t)) = Cardinality(Tracked(s)) - 1
        /\ Cardinality(Tracked(s)) \in Nat /\ Cardinality(s.orphans) \in Nat
    BY <1>4, <2>1, FS_RemoveElement, FS_CardinalityType
  <2>3. MaxInterfaces > 0 => Cardinality(Tracked(s)) + Cardinality(s.orphans) <= MaxInterfaces
    BY DEF Inv, Books, WithinLimitIn
  <2> QED BY <2>1, <2>2, <2>3, LimitAssumption DEF LimitReached
<1>7. port \in resolvePort(u, port)
  BY <1>5 DEF resolvePort
<1>8. p \notin Tracked(u) /\ Tracked(u) \subseteq Tracked(s)
  BY <1>1, <1>4
<1> QED BY <1>2, <1>5, <1>6, <1>7, <1>8 DEF Refused

\* A migration of the only peer that fails leaves it reached where it was, after
\* one failed command or after none; with one, the new profile must have room.
LEMMA MigrateSoleCosts ==
  ASSUME NEW s, NEW p \in Profiles, NEW q \in Profiles, NEW req \in Nat,
         NEW k \in Keys, NEW a \in Addrs, Inv(s), Sound(s), Reached(s, p, 0, k, a),
         NEW o \in migrateSolePeer(s, p, q, req, k, a), o.err # "ok",
         \/ o.st.faults = s.faults
         \/ o.st.faults = s.faults + 1 /\ \E t : Vacated(s, t, p) /\ ~Refused(t, q, req)
  PROVE  StillReached(s, o.st, p, k, a)
<1> DEFINE oldPort == s.ifaces[p].port
<1>1. PICK x \in removePeerFromInterface(s, s.ifaces[p].name, k, a) :
        o \in IF x.err = "ok"
                THEN Then(destroyOrRestore(untrackPeer(x.st, p, k), p, k, a),
                     LAMBDA u : Catch(AddPeer(u, q, req, k, a),
                     LAMBDA z : {Outcome(r.st, rollbackFailure(z.err, r.err)) :
                                   r \in AddPeer(z.st, p, oldPort, k, a)}))
                ELSE {x}
  BY DEF migrateSolePeer, Then
<1>2. s.faults \in Nat /\ o.st.faults <= s.faults + 1
  BY DEF Inv, Books, States
<1>3. CASE x.err # "ok"
  <2>1. o = x
    BY <1>1, <1>3
  <2> QED BY <1>2, <1>3, <2>1, RemoveReached
<1>4. CASE x.err = "ok"
  <2>1. PICK y \in destroyOrRestore(untrackPeer(x.st, p, k), p, k, a) :
          o \in IF y.err = "ok"
                  THEN Catch(AddPeer(y.st, q, req, k, a),
                       LAMBDA z : {Outcome(r.st, rollbackFailure(z.err, r.err)) :
                                     r \in AddPeer(z.st, p, oldPort, k, a)})
                  ELSE {y}
    BY <1>1, <1>4 DEF Then
  <2>2. CASE y.err # "ok"
    <3>1. o = y
      BY <2>1, <2>2
    <3> QED BY <1>2, <1>4, <2>2, <3>1, VacateReached
  <2>3. CASE y.err = "ok"
    <3>1. y.st.faults \in Nat /\ y.st.faults >= s.faults
      BY <1>4, VacateReached
    <3>2. Vacated(s, y.st, p) /\ Inv(y.st) /\ Sound(y.st)
      BY <1>4, <2>3, VacateReached
    <3>3. PICK z \in AddPeer(y.st, q, req, k, a) :
            o \in IF z.err = "ok" THEN {z}
                  ELSE {Outcome(r.st, rollbackFailure(z.err, r.err)) :
                          r \in AddPeer(z.st, p, oldPort, k, a)}
      BY <2>1, <2>3 DEF Catch
    <3>4. z.err # "ok"
      BY <3>3
    <3>5. PICK r \in AddPeer(z.st, p, oldPort, k, a) :
            o = Outcome(r.st, rollbackFailure(z.err, r.err))
      BY <3>3, <3>4
    <3>6. o.st = r.st
      BY <3>5 DEF Outcome
    <3>7. Inv(z.st)
      BY <3>2, AddPeerInv DEF Keeps
    <3>8. Sound(z.st)
      BY <3>2, AddPeerEffect DEF Touches
    <3>9. /\ Refused(y.st, q, req) => z.st = y.st
          /\ ~Refused(y.st, q, req) =>
               /\ Costs(y.st, z, TRUE)
               /\ z.st.faults <= y.st.faults + 1 => Shrunk(y.st, z.st)
      <4>1. Refused(y.st, q, req) => Rejected(y.st, z)
        BY <3>2, AddPeerCosts
      <4>2. ~Refused(y.st, q, req) => Costs(y.st, z, TRUE)
        BY <3>2, AddPeerCosts
      <4>3. (~Refused(y.st, q, req) /\ z.st.faults <= y.st.faults + 1) => Shrunk(y.st, z.st)
        BY <3>2, <3>4, AddPeerCosts
      <4> QED BY <4>1, <4>2, <4>3 DEF Rejected
    <3>10. oldPort \in Nat \ {0} /\ p \in Tracked(s)
      BY ReachedHas DEF Reached
    <3>11. /\ Refused(z.st, p, oldPort) => r.st = z.st
           /\ ~Refused(z.st, p, oldPort) => Costs(z.st, r, TRUE)
      <4> HIDE DEF oldPort
      <4>1. Refused(z.st, p, oldPort) => Rejected(z.st, r)
        BY <3>7, <3>8, <3>10, AddPeerCosts
      <4>2. ~Refused(z.st, p, oldPort) => Costs(z.st, r, TRUE)
        BY <3>7, <3>8, <3>10, AddPeerCosts
      <4> QED BY <4>1, <4>2 DEF Rejected
    <3>12. r.st.faults \in Nat /\ z.st.faults \in Nat /\ r.st.faults >= z.st.faults
      BY <3>7, <3>11 DEF Costs, Inv, Books, States
    <3>13. Shrunk(y.st, z.st)
      <4>1. CASE Refused(y.st, q, req)
        BY <3>9, <4>1 DEF Shrunk
      <4>2. CASE ~Refused(y.st, q, req)
        BY <1>2, <3>1, <3>6, <3>9, <3>12, <4>2
      <4> QED BY <4>1, <4>2
    <3>14. ~Refused(z.st, p, oldPort) /\ Tracked(z.st) \subseteq Tracked(s)
      BY <3>2, <3>7, <3>10, <3>13, VacatedRoom
    <3>15. r.err = "ok"
      <4>1. Costs(z.st, r, TRUE)
        BY <3>11, <3>14
      <4>2. CASE Refused(y.st, q, req)
        <5>1. \A t : Vacated(s, t, p) => Refused(t, q, req)
          BY <3>2, <4>2, RefusedBooks
        <5>2. r.st.faults = s.faults /\ z.st = y.st
          BY <3>6, <3>9, <4>2, <5>1
        <5> QED BY <1>2, <3>1, <3>12, <4>1, <5>2 DEF Costs
      <4>3. CASE ~Refused(y.st, q, req)
        <5>1. z.st.faults > y.st.faults
          BY <3>4, <3>9, <4>3 DEF Costs
        <5> QED BY <1>2, <3>1, <3>6, <3>12, <4>1, <5>1 DEF Costs
      <4> QED BY <4>2, <4>3
    <3>16. Reached(r.st, p, oldPort, k, a)
      BY <3>7, <3>10, <3>15, AddPeerServes
    <3>17. \A i \in Profiles : i # p => r.st.ifaces[i] = z.st.ifaces[i]
      BY <3>7, <3>10, AddPeerInv DEF Keeps, OthersKept
    <3>18. Tracked(r.st) \subseteq Tracked(s)
      BY <3>10, <3>14, <3>17 DEF Tracked
    <3> QED BY <3>6, <3>16, <3>18 DEF StillReached
  <2> QED BY <2>2, <2>3
<1> QED BY <1>3, <1>4

-----------------------------------------------------------------------------
\* Peers on other links than n stay.
Elsewhere(s, t, n) == \A x \in s.kpeers : x[1] # n => x \in t.kpeers

LEMMA ElsewhereTrans ==
  ASSUME NEW s, NEW t, NEW u, NEW n, Elsewhere(s, t, n), Elsewhere(t, u, n)
  PROVE  Elsewhere(s, u, n)
BY DEF Elsewhere

LEMMA PeerStepElsewhere ==
  ASSUME NEW s, NEW t, NEW n, NEW k, PeerStep(s, t, n, k)
  PROVE  Elsewhere(s, t, n)
<1> SUFFICES ASSUME NEW x \in s.kpeers, x[1] # n PROVE x \in t.kpeers
  BY DEF Elsewhere
<1>1. x # <<n, k>>
  OBVIOUS
<1> QED BY <1>1 DEF PeerStep

\* Destroying one link leaves the others.
LEMMA DestroyElsewhere ==
  ASSUME NEW s \in States, NEW p \in Profiles, NEW o \in destroyTrackedInterface(s, p)
  PROVE  Elsewhere(s, o.st, s.ifaces[p].name)
<1> DEFINE n == s.ifaces[p].name
           done(t) == [t EXCEPT !.usedPorts = @ \ {s.ifaces[p].port}, !.ifaces[p] = NoIface]
           e == Unlinked(s, {n})
<1>1. PICK x \in destroyInterface(s, n) : o \in IF x.err = "ok" THEN {Done(done(x.st))} ELSE {x}
  BY DEF destroyTrackedInterface, Then
<1>2. Outcomes(s, x, e)
  BY <1>1, Zenon DEF Outcomes, destroyInterface, Command, Done, Outcome
<1>3. e \in States /\ e.kpeers = {i \in s.kpeers : i[1] \notin {n}}
  BY UnlinkedFields
<1>4. done(e).kpeers = e.kpeers
  <2> HIDE DEF e
  <2> QED BY <1>3 DEF States
<1>5. Faulted(s).kpeers = s.kpeers
  BY PeerStepRefl
<1> HIDE DEF n, e, done
<1>6. CASE x.err = "ok"
  <2>1. x.st = e
    BY <1>2, <1>6 DEF Outcomes
  <2>2. o = Done(done(e))
    BY <1>1, <1>6, <2>1
  <2>3. o.st = done(e)
    BY <2>2 DEF Done, Outcome
  <2> QED BY <1>3, <1>4, <2>3 DEF Elsewhere, n
<1>7. CASE x.err # "ok"
  <2>1. o = x /\ (x.st = s \/ x.st = Faulted(s))
    BY <1>1, <1>2, <1>7 DEF Outcomes
  <2> QED BY <1>5, <2>1 DEF Elsewhere
<1> QED BY <1>6, <1>7

LEMMA UndoElsewhere ==
  ASSUME NEW s, NEW p \in Tracked(s), NEW k \in Keys, NEW a \in Addrs,
         Books(s), LiveBut(s, p, k), NEW o \in undoFailedAdd(s, p, k, a)
  PROVE  Elsewhere(s, o.st, s.ifaces[p].name)
<1> DEFINE n == s.ifaces[p].name
           kept(c, t) == IF c.removed THEN t ELSE trackPeer(t, p, k)
<1>1. PICK c \in cleanupPeerAfterFailedAdd(s, n, k, a) :
        o \in IF s.ifaces[p].count = 0
                THEN {IF d.err = "ok" THEN Outcome(d.st, "failed")
                                      ELSE Outcome(kept(c, d.st), "rollbackFailed") :
                        d \in destroyTrackedInterface(c.st, p)}
                ELSE {Outcome(kept(c, c.st), rollbackFailure("failed", c.err))}
  BY DEF undoFailedAdd
<1>2. p \in Profiles /\ n \in Nat /\ s \in States
  BY TrackedLink
<1>3. PeerStep(s, c.st, n, k)
  BY <1>2, CleanupStep
<1>4. c.st \in States /\ c.st.ifaces = s.ifaces /\ Elsewhere(s, c.st, n)
  BY <1>3, PeerStepElsewhere DEF PeerStep
<1>5. \A t \in States : kept(c, t).kpeers = t.kpeers
  BY DEF trackPeer, States
<1> HIDE DEF kept
<1>6. CASE s.ifaces[p].count = 0
  <2>1. PICK d \in destroyTrackedInterface(c.st, p) :
          o = IF d.err = "ok" THEN Outcome(d.st, "failed")
                              ELSE Outcome(kept(c, d.st), "rollbackFailed")
    BY <1>1, <1>6
  <2>2. Elsewhere(c.st, d.st, n) /\ (d.err # "ok" => d.st \in States)
    BY <1>2, <1>4, DestroyElsewhere, DestroyTrackedCosts
  <2>3. o.st.kpeers = d.st.kpeers
    BY <1>5, <2>1, <2>2 DEF Outcome
  <2> QED BY <1>4, <2>2, <2>3 DEF Elsewhere
<1>7. CASE s.ifaces[p].count # 0
  <2>1. o.st = kept(c, c.st)
    BY <1>1, <1>7 DEF Outcome
  <2> QED BY <1>4, <1>5, <2>1 DEF Elsewhere
<1> QED BY <1>6, <1>7

LEMMA AddLockedElsewhere ==
  ASSUME NEW s, NEW p \in Tracked(s), NEW k \in Keys, NEW a \in Addrs,
         Inv(s), NEW o \in addPeerLocked(s, p, k, a)
  PROVE  Elsewhere(s, o.st, s.ifaces[p].name)
<1> DEFINE n == s.ifaces[p].name
<1>1. PICK x \in Catch(addPeerToInterface(s, n, k, a),
                       LAMBDA y : undoFailedAdd(y.st, p, k, a)) :
        o \in IF x.err = "ok" THEN {Done(trackPeer(x.st, p, k))} ELSE {x}
  BY DEF addPeerLocked, Then
<1>2. PICK y \in addPeerToInterface(s, n, k, a) :
        x \in IF y.err = "ok" THEN {y} ELSE undoFailedAdd(y.st, p, k, a)
  BY DEF Catch
<1>3. p \in Profiles /\ n \in Nat /\ s \in States
  BY TrackedLink DEF Inv
<1>4. PeerStep(s, y.st, n, k)
  BY <1>3, AddToInterfaceStep
<1>5. /\ Books(y.st) /\ LiveBut(y.st, p, k) /\ Tracked(y.st) = Tracked(s)
      /\ y.st \in States /\ y.st.ifaces = s.ifaces
  BY <1>3, <1>4, PeerStepBooks, LiveIsLiveBut DEF Inv, Books, PeerStep
<1>6. Elsewhere(s, y.st, n)
  BY <1>4, PeerStepElsewhere
<1>7. CASE y.err = "ok"
  <2>1. o = Done(trackPeer(y.st, p, k))
    BY <1>1, <1>2, <1>7
  <2>2. o.st = trackPeer(y.st, p, k)
    BY <2>1 DEF Done, Outcome
  <2>3. o.st.kpeers = y.st.kpeers
    BY <1>5, <2>2 DEF trackPeer, States
  <2> QED BY <1>6, <2>3 DEF Elsewhere
<1>8. CASE y.err # "ok"
  <2>1. x \in undoFailedAdd(y.st, p, k, a)
    BY <1>2, <1>8
  <2>2. x.err # "ok"
    BY <1>5, <2>1, UndoFailedAddInv
  <2>3. o = x
    BY <1>1, <2>2
  <2>4. Elsewhere(y.st, x.st, n)
    BY <1>5, <2>1, UndoElsewhere
  <2> QED BY <1>6, <2>3, <2>4, ElsewhereTrans
<1> QED BY <1>7, <1>8

\* No set holds everything.
LEMMA Outsider ==
  ASSUME NEW S
  PROVE  \E x : x \notin S
<1> DEFINE r == {y \in S : y \notin y}
<1>1. r \notin S
  OBVIOUS
<1> QED BY <1>1

\* getOrCreateInterface takes nothing from a peer on another profile.
LEMMA GetOrCreateLive ==
  ASSUME NEW s, NEW p \in Profiles, NEW q \in Profiles, NEW req \in Nat,
         NEW k \in Keys, NEW a \in Addrs, Inv(s), Sound(s), Listening(s),
         Reached(s, p, 0, k, a), NEW g \in getOrCreateInterface(s, q, req)
  PROVE  Live(g.st, s.ifaces[p].name, k, a)
<1> DEFINE n == s.ifaces[p].name
           m == s.ifaces[p].port
<1>1. PICK j : j \notin Keys
  BY Outsider
<1>2. PICK b : b \notin Addrs
  BY Outsider
<1>3. Undisturbed(s, g.st, j, b)
  BY GetOrCreateUndisturbed
<1>4. n \in Nat /\ m \in Nat
  BY ReachedHas
<1>5. On(s, p, k, n, m, a)
  BY DEF On, Reached, Listening
<1>6. k \in Keys \ {j} /\ a \in Addrs \ {b}
  BY <1>1, <1>2
<1> HIDE DEF n, m
<1>7. On(g.st, p, k, n, m, a)
  BY <1>3, <1>4, <1>5, <1>6 DEF Undisturbed
<1> QED BY <1>7 DEF On, Live, n

\* Taking the new peer off again succeeds unless a command fails, and an
\* interface that has no other peer goes.
LEMMA RollbackNewCosts ==
  ASSUME NEW s, NEW q \in Profiles, NEW k \in Keys, NEW a \in Addrs, Inv(s), Sound(s),
         Reached(s, q, 0, k, a), NEW o \in rollbackNewPeer(s, q, k, a)
  PROVE  /\ Costs(s, o, TRUE) /\ Elsewhere(s, o.st, s.ifaces[q].name)
         /\ (o.err = "ok" /\ s.ifaces[q].peers \subseteq {k}) => q \notin Tracked(o.st)
<1> DEFINE n == s.ifaces[q].name
<1>1. q \in Tracked(s) /\ k \in s.ifaces[q].peers /\ n \in Nat /\ s \in States
  BY ReachedHas DEF Reached
<1>2. PICK x \in removePeerFromInterface(s, n, k, a) :
        o \in IF x.err = "ok"
                THEN LET u == untrackPeer(x.st, q, k)
                     IN IF u.ifaces[q].count = 0 THEN destroyTrackedInterface(u, q) ELSE {Done(u)}
                ELSE {x}
  BY <1>1 DEF rollbackNewPeer, Then
<1>3. PeerStep(s, x.st, n, k)
  BY <1>1, RemoveFromInterfaceStep
<1>4. Elsewhere(s, x.st, n)
  BY <1>3, PeerStepElsewhere
<1>5. Costs(s, x, TRUE)
  BY RemoveReached
<1>6. CASE x.err # "ok"
  BY <1>2, <1>4, <1>5, <1>6
<1>7. CASE x.err = "ok"
  <2> DEFINE u == untrackPeer(x.st, q, k)
  <2>1. /\ Inv(u) /\ Sound(u) /\ Tracked(u) = Tracked(s) /\ u.faults = x.st.faults
        /\ u.orphans = s.orphans /\ u.usedPorts = s.usedPorts
        /\ u.ifaces[q].port = s.ifaces[q].port
        /\ \A i \in Profiles : i # q => u.ifaces[i] = s.ifaces[i]
    BY <1>7, RemoveReached
  <2>2. /\ u.ifaces[q].peers = s.ifaces[q].peers \ {k} /\ u.ifaces[q].name = n
        /\ u.kpeers = x.st.kpeers
    <3>1. x.st.ifaces = s.ifaces /\ Tracked(x.st) = Tracked(s) /\ Sound(x.st)
      BY <1>3, PeerStepSame, SameSound DEF PeerStep
    <3> QED BY <1>1, <3>1, UntrackEffect
  <2> HIDE DEF u
  <2>3. o \in IF u.ifaces[q].count = 0 THEN destroyTrackedInterface(u, q) ELSE {Done(u)}
    BY <1>2, <1>7 DEF u
  <2>4. Elsewhere(s, u, n)
    BY <1>4, <2>2 DEF Elsewhere
  <2>5. u \in States /\ n \in u.links
    <3>1. q \in Tracked(u)
      BY <1>1, <2>1
    <3> QED BY <2>1, <2>2, <3>1, TrackedLink DEF Inv
  <2>6. CASE u.ifaces[q].count = 0
    <3>1. o \in destroyTrackedInterface(u, q)
      BY <2>3, <2>6
    <3>2. Costs(u, o, u.ifaces[q].name \in u.links)
      BY <2>5, <3>1, DestroyTrackedCosts
    <3>3. Costs(u, o, TRUE)
      BY <2>2, <2>5, <3>2, CostsAllowed
    <3>4. o.err = "ok" => Vacated(u, o.st, q)
      BY <2>5, <3>1, DestroyTrackedCosts
    <3>5. Elsewhere(u, o.st, n)
      BY <2>2, <2>5, <3>1, DestroyElsewhere
    <3>6. o.err = "ok" => q \notin Tracked(o.st)
      <4>1. u.ifaces \in [Profiles -> Iface]
        BY <2>5 DEF States
      <4> QED BY <3>4, <4>1 DEF Vacated, Tracked, NoIface
    <3>7. Costs(s, o, TRUE)
      BY <1>5, <2>1, <3>3 DEF Costs
    <3> QED BY <2>4, <3>5, <3>6, <3>7, ElsewhereTrans
  <2>7. CASE u.ifaces[q].count # 0
    <3>1. o.st = u /\ o.err = "ok"
      BY <2>3, <2>7 DEF Done, Outcome
    <3>2. u.ifaces[q].peers # {}
      <4>1. GoodIface(u.ifaces[q]) /\ u.ifaces[q] \in Iface
        BY <2>1, <2>5 DEF Sound, States
      <4> QED BY <2>7, <4>1, GoodIfaceFacts
    <3>3. Costs(s, o, TRUE)
      BY <1>5, <2>1, <3>1 DEF Costs
    <3> QED BY <2>2, <2>4, <3>1, <3>2, <3>3
  <2> QED BY <2>6, <2>7
<1> QED BY <1>6, <1>7

\* A route, or a peer with its route, that is put back is live; no book changes.
LEMMA RouteBack ==
  ASSUME NEW s \in States, NEW n \in Nat, NEW k \in Keys, NEW a \in Addrs,
         NEW o \in replacePeerRoute(s, n, a), n \in s.links, <<n, k>> \in s.kpeers
  PROVE  /\ Costs(s, o, TRUE) /\ SameBooks(s, o.st)
         /\ o.err = "ok" => Live(o.st, n, k, a)
<1>1. Costs(s, o, n \in s.links)
  BY ReplaceRouteCosts
<1>2. Costs(s, o, TRUE)
  BY <1>1, CostsAllowed
<1>3. PeerStep(s, o.st, n, k) /\ o.st.kpeers = s.kpeers
  BY ReplaceRouteStep
<1>4. o.err = "ok" => o.st.routes[a] = n
  BY ReplaceRouteRoutes
<1>5. SameBooks(s, o.st)
  BY <1>3, PeerStepSame
<1> QED BY <1>2, <1>3, <1>4, <1>5 DEF Live

LEMMA RestoreBack ==
  ASSUME NEW s \in States, NEW n \in Nat, NEW k \in Keys, NEW a \in Addrs,
         NEW o \in restorePeerAndRoute(s, n, k, a), n \in s.links
  PROVE  /\ Costs(s, o, TRUE) /\ SameBooks(s, o.st)
         /\ o.err = "ok" => Live(o.st, n, k, a)
<1>1. Costs(s, o, n \in s.links)
  BY RestoreCosts
<1>2. Costs(s, o, TRUE)
  BY <1>1, CostsAllowed
<1>3. PeerStep(s, o.st, n, k)
  BY RestoreStep
<1>4. o.err = "ok" => <<n, k>> \in o.st.kpeers /\ o.st.routes[a] = n
  BY RestoreCosts
<1>5. SameBooks(s, o.st)
  BY <1>3, PeerStepSame
<1> QED BY <1>2, <1>4, <1>5 DEF Live

\* A migration from a shared interface that fails leaves the peer reached where
\* it was, unless a second command fails.
LEMMA MigrateSharedCosts ==
  ASSUME NEW s, NEW p \in Profiles, NEW q \in Profiles, p # q, NEW req \in Nat,
         NEW k \in Keys, NEW a \in Addrs, Inv(s), Sound(s), Listening(s),
         Reached(s, p, 0, k, a), NEW o \in migrateSharedPeer(s, p, q, req, k, a),
         o.err # "ok", o.st.faults <= s.faults + 1
  PROVE  StillReached(s, o.st, p, k, a)
<1> DEFINE n == s.ifaces[p].name
<1>1. PICK g \in getOrCreateInterface(s, q, req) :
        o \in IF g.err = "ok"
          THEN Then(Catch(addPeerLocked(g.st, q, k, a),
                          LAMBDA w : {Outcome(r.st, rollbackFailure(w.err, r.err)) :
                                        r \in replacePeerRoute(w.st, n, a)}),
               LAMBDA u : Then(Catch(removePeerOnlyFromInterface(u, n, k),
                                     LAMBDA w : {Outcome(r.st, rollbackFailure(w.err, r.err)) :
                                                   r \in rollbackSharedMigration(w.st, p, q, k, a)}),
               LAMBDA v : {Done(untrackPeer(v, p, k))}))
          ELSE {g}
  BY DEF migrateSharedPeer, Then
<1>2. /\ p \in Tracked(s) /\ k \in s.ifaces[p].peers /\ <<n, k>> \in s.kpeers
      /\ n \in Nat /\ n \in s.links /\ s \in States
  BY ReachedHas DEF Reached
<1>3. Live(g.st, n, k, a)
  BY GetOrCreateLive
<1>4. Inv(g.st) /\ g.st.ifaces[p] = s.ifaces[p] /\ (g.err = "ok" => q \in Tracked(g.st))
  BY GetOrCreateInv DEF OthersKept
<1>5. g.err # "ok" => g.st.ifaces = s.ifaces
  BY GetOrCreateInv
<1>6. CASE g.err # "ok"
  <2>1. o = g
    BY <1>1, <1>6
  <2>2. Tracked(g.st) = Tracked(s)
    BY <1>5, <1>6 DEF Tracked
  <2> QED BY <1>2, <1>3, <1>4, <2>1, <2>2 DEF Live, Reached, StillReached
<1>7. CASE g.err = "ok"
  <2>1. PICK c :
          /\ c \in Catch(addPeerLocked(g.st, q, k, a),
                         LAMBDA w : {Outcome(r.st, rollbackFailure(w.err, r.err)) :
                                       r \in replacePeerRoute(w.st, n, a)})
          /\ o \in IF c.err = "ok"
               THEN Then(Catch(removePeerOnlyFromInterface(c.st, n, k),
                               LAMBDA w : {Outcome(r.st, rollbackFailure(w.err, r.err)) :
                                             r \in rollbackSharedMigration(w.st, p, q, k, a)}),
                    LAMBDA v : {Done(untrackPeer(v, p, k))})
               ELSE {c}
    BY <1>1, <1>7 DEF Then
  <2>2. PICK y \in addPeerLocked(g.st, q, k, a) :
          c \in IF y.err = "ok" THEN {y}
                ELSE {Outcome(r.st, rollbackFailure(y.err, r.err)) :
                        r \in replacePeerRoute(y.st, n, a)}
    BY <2>1 DEF Catch
  <2>3. y \in AddPeer(s, q, req, k, a)
    <3>1. y \in IF g.err = "ok" THEN addPeerLocked(g.st, q, k, a) ELSE {g}
      BY <1>7, <2>2
    <3> QED BY <3>1, Zenon DEF AddPeer, Then
  <2>4. Inv(y.st) /\ y.st.ifaces[p] = s.ifaces[p]
        /\ \A i \in Profiles : i # q => y.st.ifaces[i] = s.ifaces[i]
    <3>1. Keeps(s, y, q)
      BY <2>3, AddPeerInv
    <3> QED BY <3>1 DEF Keeps, OthersKept
  <2>5. Sound(y.st)
    BY <2>3, AddPeerEffect DEF Touches
  <2>6. ~Refused(s, q, req)
    <3>1. Refused(s, q, req) => Rejected(s, g)
      BY GetOrCreateCosts
    <3> QED BY <1>7, <3>1 DEF Rejected
  <2>7. Costs(s, y, TRUE)
    BY <2>3, <2>6, AddPeerCosts
  <2>8. <<n, k>> \in y.st.kpeers
    <3>1. q \in Tracked(g.st) /\ p \in Tracked(g.st)
      BY <1>2, <1>4, <1>7 DEF Tracked
    <3>2. g.st.ifaces[q].name # n
      BY <1>4, <3>1 DEF Inv, Books, HostAccountedIn
    <3>3. Elsewhere(g.st, y.st, g.st.ifaces[q].name)
      BY <1>4, <2>2, <3>1, AddLockedElsewhere
    <3>4. <<n, k>> \in g.st.kpeers
      BY <1>3 DEF Live
    <3> QED BY <3>2, <3>3, <3>4 DEF Elsewhere
  <2>9. p \in Tracked(y.st) /\ y.st \in States /\ n \in y.st.links
    <3>1. p \in Tracked(y.st)
      BY <1>2, <2>4 DEF Tracked
    <3> QED BY <2>4, <3>1, TrackedLink DEF Inv
  <2> HIDE DEF n
  <2>10. CASE y.err # "ok"
    <3>1. PICK r \in replacePeerRoute(y.st, n, a) :
            c = Outcome(r.st, rollbackFailure(y.err, r.err))
      BY <2>2, <2>10
    <3>2. c.st = r.st /\ c.err # "ok"
      BY <2>10, <3>1 DEF Outcome, rollbackFailure
    <3>3. o = c
      BY <2>1, <3>2
    <3>4. /\ Costs(y.st, r, TRUE) /\ SameBooks(y.st, r.st)
          /\ r.err = "ok" => Live(r.st, n, k, a)
      BY <1>2, <2>8, <2>9, RouteBack DEF n
    <3>5. r.err = "ok" /\ y.st.faults <= s.faults + 1
      <4>1. /\ s.faults \in Nat /\ y.st.faults \in Nat /\ r.st.faults \in Nat
            /\ y.st.faults > s.faults /\ r.st.faults >= y.st.faults
            /\ r.err # "ok" => r.st.faults > y.st.faults
        BY <2>7, <2>10, <3>4 DEF Costs
      <4>2. r.st.faults <= s.faults + 1
        BY <3>2, <3>3
      <4>3. r.err # "ok" => FALSE
        BY <4>1, <4>2
      <4> QED BY <4>1, <4>2, <4>3
    <3>6. Live(r.st, n, k, a)
      BY <3>4, <3>5
    <3>7. r.st.ifaces = y.st.ifaces
      BY <3>4 DEF SameBooks
    <3>8. Shrunk(s, y.st)
      BY <2>3, <2>6, <2>10, <3>5, AddPeerCosts
    <3>9. Tracked(y.st) \subseteq Tracked(s)
      BY <2>4, <3>8, ShrunkRoom
    <3>10. Tracked(r.st) = Tracked(y.st)
      BY <3>7 DEF Tracked
    <3> QED BY <1>2, <2>4, <2>9, <3>2, <3>3, <3>6, <3>7, <3>9, <3>10
            DEF Reached, StillReached, Live, n
  <2>11. CASE y.err = "ok"
    <3>1. c = y
      BY <2>2, <2>11
    <3>2. PICK d :
            /\ d \in Catch(removePeerOnlyFromInterface(y.st, n, k),
                           LAMBDA w : {Outcome(r.st, rollbackFailure(w.err, r.err)) :
                                         r \in rollbackSharedMigration(w.st, p, q, k, a)})
            /\ o \in IF d.err = "ok" THEN {Done(untrackPeer(d.st, p, k))} ELSE {d}
      BY <2>1, <2>11, <3>1 DEF Then
    <3>3. o = d /\ d.err # "ok"
      <4>1. CASE d.err = "ok"
        <5>1. o = Done(untrackPeer(d.st, p, k))
          BY <3>2, <4>1
        <5> QED BY <5>1 DEF Done, Outcome
      <4>2. CASE d.err # "ok"
        BY <3>2, <4>2
      <4> QED BY <4>1, <4>2
    <3>4. PICK w \in removePeerOnlyFromInterface(y.st, n, k) :
            d \in IF w.err = "ok" THEN {w}
                  ELSE {Outcome(r.st, rollbackFailure(w.err, r.err)) :
                          r \in rollbackSharedMigration(w.st, p, q, k, a)}
      BY <3>2 DEF Catch
    <3>5. w.err # "ok"
      BY <3>3, <3>4
    <3>6. PICK r \in rollbackSharedMigration(w.st, p, q, k, a) :
            d = Outcome(r.st, rollbackFailure(w.err, r.err))
      BY <3>4, <3>5
    <3>7. o.st = r.st
      BY <3>3, <3>6 DEF Outcome
    <3>8. PeerStep(y.st, w.st, n, k) /\ w.st.kpeers = y.st.kpeers /\ w.st.routes = y.st.routes
      <4>1. PeerStep(y.st, w.st, n, k)
        BY <1>2, <2>9, RemovePeerOnlyStep
      <4>2. w.st.kpeers = y.st.kpeers
        BY <2>9, <3>5, RemovePeerOnlyCosts
      <4>3. w.st.routes = y.st.routes
        BY <1>2, <2>9, RemovePeerOnlyRoutes
      <4> QED BY <4>1, <4>2, <4>3
    <3>9. Costs(y.st, w, TRUE)
      <4>1. Costs(y.st, w, n \in y.st.links)
        BY <2>9, RemovePeerOnlyCosts
      <4> QED BY <2>9, <4>1, CostsAllowed
    <3>10. Inv(w.st) /\ Sound(w.st) /\ w.st.ifaces = y.st.ifaces /\ Tracked(w.st) = Tracked(y.st)
      <4>1. Sound(w.st) /\ Tracked(w.st) = Tracked(y.st)
        BY <2>5, <3>8, PeerStepSame, SameSound
      <4>2. y.st.ifaces[p].name = n
        BY <2>4 DEF n
      <4>3. Inv(w.st) /\ w.st.ifaces = y.st.ifaces
        BY <2>4, <2>9, <3>8, <4>2, TrackedPeerStep
      <4> QED BY <4>1, <4>3
    <3>11. Reached(w.st, q, 0, k, a)
      <4>1. Reached(y.st, q, req, k, a)
        BY <2>3, <2>11, AddPeerServes
      <4> QED BY <3>8, <3>10, <4>1 DEF Reached
    <3>12. w.st.ifaces[p].name = n
      BY <2>4, <3>10 DEF n
    <3>13. PICK v \in rollbackNewPeer(w.st, q, k, a) :
             \E i \in restorePeerAndRoute(v.st, n, k, a) :
               r = Outcome(i.st, IF v.err = "ok" THEN i.err ELSE v.err)
      BY <3>12 DEF rollbackSharedMigration
    <3>14. PICK i \in restorePeerAndRoute(v.st, n, k, a) :
             r = Outcome(i.st, IF v.err = "ok" THEN i.err ELSE v.err)
      BY <3>13
    <3>15. r.st = i.st
      BY <3>14 DEF Outcome
    <3>16. /\ Costs(w.st, v, TRUE)
           /\ (v.err = "ok" /\ w.st.ifaces[q].peers \subseteq {k}) => q \notin Tracked(v.st)
      BY <3>10, <3>11, RollbackNewCosts
    <3>17. Inv(v.st) /\ \A j \in Profiles : j # q => v.st.ifaces[j] = w.st.ifaces[j]
      <4>1. q \in Tracked(w.st)
        BY <3>11 DEF Reached
      <4> QED BY <3>10, <4>1, RollbackNewPeerInv DEF Keeps, OthersKept
    <3>18. p \in Tracked(v.st) /\ v.st \in States /\ n \in v.st.links /\ v.st.ifaces[p] = s.ifaces[p]
      <4>1. v.st.ifaces[p] = s.ifaces[p]
        BY <2>4, <3>10, <3>17
      <4>2. p \in Tracked(v.st)
        BY <1>2, <4>1 DEF Tracked
      <4>3. v.st.ifaces[p].name = n
        BY <4>1 DEF n
      <4> QED BY <3>17, <4>1, <4>2, <4>3, TrackedLink DEF Inv
    <3>19. /\ Costs(v.st, i, TRUE) /\ SameBooks(v.st, i.st)
           /\ i.err = "ok" => Live(i.st, n, k, a)
      BY <1>2, <3>18, RestoreBack DEF n
    <3>20. v.err = "ok" /\ i.err = "ok"
      <4>1. /\ s.faults \in Nat /\ y.st.faults \in Nat /\ w.st.faults \in Nat
            /\ v.st.faults \in Nat /\ i.st.faults \in Nat
            /\ y.st.faults >= s.faults /\ w.st.faults > y.st.faults
            /\ v.st.faults >= w.st.faults /\ i.st.faults >= v.st.faults
            /\ v.err # "ok" => v.st.faults > w.st.faults
            /\ i.err # "ok" => i.st.faults > v.st.faults
        BY <2>7, <3>5, <3>9, <3>16, <3>19 DEF Costs
      <4>2. i.st.faults <= s.faults + 1
        BY <3>7, <3>15
      <4>3. v.err # "ok" => FALSE
        BY <4>1, <4>2
      <4>4. i.err # "ok" => FALSE
        BY <4>1, <4>2
      <4> QED BY <4>3, <4>4
    <3>21. Live(i.st, n, k, a)
      BY <3>19, <3>20
    <3>22. i.st.ifaces = v.st.ifaces
      BY <3>19 DEF SameBooks
    <3>23. Tracked(v.st) \subseteq Tracked(s)
      <4>1. \A j \in Profiles : j # q => v.st.ifaces[j] = s.ifaces[j]
        BY <2>4, <3>10, <3>17
      <4>2. q \notin Tracked(s) => q \notin Tracked(v.st)
        <5>1. SUFFICES ASSUME q \notin Tracked(s) PROVE w.st.ifaces[q].peers \subseteq {k}
          BY <3>16, <3>20
        <5>2. s.ifaces[q].name = NoName
          BY <5>1 DEF Tracked
        <5>3. s.ifaces[q] = NoIface
          BY <5>2 DEF Sound, GoodIface
        <5>4. s.ifaces[q].peers = {}
          BY <5>3 DEF NoIface
        <5>5. /\ y.err \in Errors
              /\ Touches(s, y.st, q)
              /\ y.err = "ok" => /\ y.st.orphans = s.orphans /\ q \in Tracked(y.st)
                                 /\ y.st.ifaces[q].peers = s.ifaces[q].peers \cup {k}
                                 /\ req # 0 => y.st.ifaces[q].port = req
              /\ Plain(y.err) => Kept(s, y.st)
          BY <2>3, AddPeerEffect
        <5> QED BY <2>11, <3>10, <5>4, <5>5
      <4> QED BY <4>1, <4>2 DEF Tracked
    <3>24. Tracked(i.st) = Tracked(v.st)
      BY <3>22 DEF Tracked
    <3> QED BY <1>2, <3>7, <3>15, <3>18, <3>21, <3>22, <3>23, <3>24
            DEF Reached, StillReached, Live, n
  <2> QED BY <2>10, <2>11
<1> QED BY <1>6, <1>7

\* Pool.MigratePeer of a peer that is reached: an error leaves it reached where
\* it was, after one failed command or after none.
LEMMA MigrateCosts ==
  ASSUME NEW s, NEW p \in Profiles, NEW q \in Profiles, NEW oldReq, NEW req \in Nat,
         NEW k \in Keys, NEW a \in Addrs, Inv(s), Sound(s), Listening(s),
         Reached(s, p, 0, k, a), NEW o \in MigratePeer(s, p, oldReq, q, req, k, a), o.err # "ok",
         \/ o.st.faults = s.faults
         \/ /\ o.st.faults = s.faults + 1
            /\ s.ifaces[p].count = 1 => \E t : Vacated(s, t, p) /\ ~Refused(t, q, req)
  PROVE  StillReached(s, o.st, p, k, a)
<1>1. HasPeer(s, p, k)
  BY ReachedHas
<1>2. \/ o.st = s
      \/ s.ifaces[p].count = 1 /\ o \in migrateSolePeer(s, p, q, req, k, a)
      \/ p # q /\ s.ifaces[p].count # 1 /\ o \in migrateSharedPeer(s, p, q, req, k, a)
  <2>1. CASE p = q
    <3>1. \/ o \in {Outcome(s, "portShared"), Done(s)}
          \/ s.ifaces[p].count = 1 /\ o \in migrateSolePeer(s, p, q, req, k, a)
      <4>1. s.ifaces[p].count \in Nat /\ s.ifaces[p].count > 0
        BY <1>1 DEF HasPeer, Tracked, Inv, Books, States, Iface
      <4>2. s.ifaces[p].count > 1 \/ s.ifaces[p].count = 1
        BY <4>1
      <4> QED BY <1>1, <2>1, <4>2, Zenon DEF MigratePeer
    <3> QED BY <3>1 DEF Outcome, Done
  <2>2. CASE p # q
    <3>1. \/ o = Outcome(s, "portConflict")
          \/ s.ifaces[p].count = 1 /\ o \in migrateSolePeer(s, p, q, req, k, a)
          \/ s.ifaces[p].count # 1 /\ o \in migrateSharedPeer(s, p, q, req, k, a)
      BY <1>1, <2>2, Zenon DEF MigratePeer
    <3> QED BY <2>2, <3>1 DEF Outcome
  <2> QED BY <2>1, <2>2
<1>3. CASE o.st = s
  BY <1>3 DEF Reached, StillReached
<1>4. CASE s.ifaces[p].count = 1 /\ o \in migrateSolePeer(s, p, q, req, k, a)
  BY <1>4, MigrateSoleCosts
<1>5. CASE p # q /\ o \in migrateSharedPeer(s, p, q, req, k, a)
  <2>1. o.st.faults <= s.faults + 1
    BY DEF Inv, Books, States
  <2> QED BY <1>5, <2>1, MigrateSharedCosts
<1> QED BY <1>2, <1>3, <1>4, <1>5

\* A migration of the only peer that can succeed has room on the new profile.
LEMMA SoleSucceeds ==
  ASSUME NEW s, NEW p \in Profiles, NEW q \in Profiles, NEW req \in Nat,
         NEW k \in Keys, NEW a \in Addrs, Inv(s), Sound(s), Reached(s, p, 0, k, a),
         s.ifaces[p].count = 1, NEW o \in MigratePeer(s, p, req + 1, q, req, k, a), o.err = "ok"
  PROVE  \E t : Vacated(s, t, p) /\ ~Refused(t, q, req)
<1> DEFINE oldPort == s.ifaces[p].port
<1>1. HasPeer(s, p, k)
  BY ReachedHas
<1>2. o \in migrateSolePeer(s, p, q, req, k, a)
  <2>1. o # Outcome(s, "portShared") /\ o # Outcome(s, "portConflict")
    BY DEF Outcome
  <2>2. req + 1 # req
    OBVIOUS
  <2> QED BY <1>1, <2>1, <2>2, Zenon DEF MigratePeer
<1>3. PICK x \in removePeerFromInterface(s, s.ifaces[p].name, k, a) :
        o \in IF x.err = "ok"
                THEN Then(destroyOrRestore(untrackPeer(x.st, p, k), p, k, a),
                     LAMBDA u : Catch(AddPeer(u, q, req, k, a),
                     LAMBDA z : {Outcome(r.st, rollbackFailure(z.err, r.err)) :
                                   r \in AddPeer(z.st, p, oldPort, k, a)}))
                ELSE {x}
  BY <1>2 DEF migrateSolePeer, Then
<1>4. x.err = "ok"
  BY <1>3
<1>5. PICK y \in destroyOrRestore(untrackPeer(x.st, p, k), p, k, a) :
        o \in IF y.err = "ok"
                THEN Catch(AddPeer(y.st, q, req, k, a),
                     LAMBDA z : {Outcome(r.st, rollbackFailure(z.err, r.err)) :
                                   r \in AddPeer(z.st, p, oldPort, k, a)})
                ELSE {y}
  BY <1>3, <1>4 DEF Then
<1>6. y.err = "ok"
  BY <1>5
<1>7. Vacated(s, y.st, p) /\ Inv(y.st) /\ Sound(y.st)
  BY <1>4, <1>6, VacateReached
<1>8. PICK z \in AddPeer(y.st, q, req, k, a) :
        o \in IF z.err = "ok" THEN {z}
              ELSE {Outcome(r.st, rollbackFailure(z.err, r.err)) :
                      r \in AddPeer(z.st, p, oldPort, k, a)}
  BY <1>5, <1>6 DEF Catch
<1>9. z.err = "ok"
  <2>1. SUFFICES ASSUME z.err # "ok" PROVE FALSE
    OBVIOUS
  <2>2. PICK r \in AddPeer(z.st, p, oldPort, k, a) :
          o = Outcome(r.st, rollbackFailure(z.err, r.err))
    BY <1>8, <2>1
  <2> QED BY <2>1, <2>2 DEF Outcome, rollbackFailure
<1>10. Refused(y.st, q, req) => Rejected(y.st, z)
  BY <1>7, AddPeerCosts
<1>11. ~Refused(y.st, q, req)
  BY <1>9, <1>10 DEF Rejected
<1> QED BY <1>7, <1>11

\* The fault count does not matter to the books.
LEMMA Recounted ==
  ASSUME NEW s, NEW c \in Nat, Inv(s), Sound(s), Listening(s)
  PROVE  LET t == [s EXCEPT !.faults = c]
         IN /\ Inv(t) /\ Sound(t) /\ Listening(t)
            /\ t.ifaces = s.ifaces /\ t.orphans = s.orphans /\ t.usedPorts = s.usedPorts
            /\ t.kpeers = s.kpeers /\ t.routes = s.routes /\ t.faults = c
            /\ Tracked(t) = Tracked(s)
<1> DEFINE t == [s EXCEPT !.faults = c]
<1>1. s \in States
  BY DEF Sound
<1>2. /\ t \in States
      /\ t.ifaces = s.ifaces /\ t.orphans = s.orphans /\ t.usedPorts = s.usedPorts
      /\ t.nextIndex = s.nextIndex /\ t.masqAdded = s.masqAdded /\ t.links = s.links
      /\ t.listen = s.listen /\ t.kpeers = s.kpeers /\ t.masq = s.masq
      /\ t.routes = s.routes /\ t.faults = c
  BY <1>1 DEF States
<1> HIDE DEF t
<1>3. Inv(t)
  BY <1>2, FaultsInv
<1>4. SameBooks(s, t)
  BY <1>2 DEF SameBooks, Unruled
<1>5. Sound(t) /\ Tracked(t) = Tracked(s)
  BY <1>4, SameSound
<1>6. Listening(t)
  BY <1>2, <1>5 DEF Listening
<1> QED BY <1>2, <1>3, <1>5, <1>6 DEF t

\* What is the same in the books of s and t is so for service too.
LEMMA RecountedReached ==
  ASSUME NEW s, NEW t, t.ifaces = s.ifaces, t.orphans = s.orphans, t.usedPorts = s.usedPorts,
         t.kpeers = s.kpeers, t.routes = s.routes, Tracked(t) = Tracked(s)
  PROVE  /\ \A p, r, k, a : Reached(s, p, r, k, a) <=> Reached(t, p, r, k, a)
         /\ \A p, u : Vacated(s, u, p) <=> Vacated(t, u, p)
         /\ \A p, u, k, a : StillReached(s, u, p, k, a) <=> StillReached(t, u, p, k, a)
<1>1. \A p, r, k, a : Reached(s, p, r, k, a) <=> Reached(t, p, r, k, a)
  BY DEF Reached
<1>2. \A p, u : Vacated(s, u, p) <=> Vacated(t, u, p)
  BY Zenon DEF Vacated
<1>3. \A p, u, k, a : StillReached(s, u, p, k, a) <=> StillReached(t, u, p, k, a)
  BY Zenon DEF StillReached
<1> QED BY <1>1, <1>2, <1>3

\* What a failed removal or migration of a served peer costs.
LEMMA CallRestores ==
  ASSUME ServiceInv, Next, last'.op \in {"RemovePeer", "MigratePeer"}, last'.err # "ok",
         pool'.faults = 0 \/ (pool'.faults = 1 /\ WouldSucceed(last')),
         Served(pool, last'.from, last'.key)
  PROVE  /\ last'.from \in Profiles
         /\ StillReached(pool, pool', last'.from, last'.key, AddrOf[last'.key])
<1> DEFINE full == [pool EXCEPT !.faults = MaxFaults]
<1>1. Inv(pool) /\ Sound(pool) /\ Listening(pool)
  BY DEF ServiceInv
<1>2. /\ Inv(Fresh) /\ Sound(Fresh) /\ Listening(Fresh)
      /\ Fresh.ifaces = pool.ifaces /\ Fresh.orphans = pool.orphans
      /\ Fresh.usedPorts = pool.usedPorts
      /\ Fresh.kpeers = pool.kpeers /\ Fresh.routes = pool.routes /\ Fresh.faults = 0
      /\ Tracked(Fresh) = Tracked(pool)
  BY <1>1, Recounted DEF Fresh
<1>3. /\ Inv(full) /\ Sound(full) /\ Listening(full)
      /\ full.ifaces = pool.ifaces /\ full.orphans = pool.orphans
      /\ full.usedPorts = pool.usedPorts
      /\ full.kpeers = pool.kpeers /\ full.routes = pool.routes /\ full.faults = MaxFaults
      /\ Tracked(full) = Tracked(pool)
  BY <1>1, LimitAssumption, Recounted
<1> HIDE DEF Fresh
<1>4. ASSUME NEW p \in Profiles, NEW k \in Keys, Served(pool, p, k)
      PROVE  /\ Reached(Fresh, p, 0, k, AddrOf[k]) /\ Reached(full, p, 0, k, AddrOf[k])
             /\ AddrOf[k] \in Addrs
  <2>1. Reached(pool, p, 0, k, AddrOf[k])
    BY <1>4 DEF Served, Reached
  <2>2. Reached(Fresh, p, 0, k, AddrOf[k])
    BY <1>2, <2>1, RecountedReached
  <2> HIDE DEF full
  <2>3. Reached(full, p, 0, k, AddrOf[k])
    BY <1>3, <2>1, RecountedReached
  <2> QED BY <2>2, <2>3, AddrAssumption
<1>5. ASSUME NEW p \in Profiles, NEW k \in Keys, NEW t, StillReached(Fresh, t, p, k, AddrOf[k])
      PROVE  StillReached(pool, t, p, k, AddrOf[k])
  BY <1>2, <1>5, RecountedReached
<1>6. ASSUME NEW p \in Profiles, NEW k \in Keys, RemovePeerCall(p, k)
      PROVE  /\ last'.from \in Profiles
             /\ StillReached(pool, pool', last'.from, last'.key, AddrOf[last'.key])
  <2>1. PICK o \in RemovePeer(Fresh, p, k, AddrOf[k]) :
          /\ pool' = o.st
          /\ last' = [op |-> "RemovePeer", key |-> k, from |-> p, err |-> o.err]
    BY <1>6 DEF RemovePeerCall
  <2>2. last'.from = p /\ last'.key = k /\ last'.err = o.err
    BY <2>1
  <2>3. /\ Reached(Fresh, p, 0, k, AddrOf[k]) /\ AddrOf[k] \in Addrs /\ o.err # "ok"
    BY <1>4, <2>2
  <2>4. o.st.faults <= Fresh.faults + 1
    BY <1>2, <2>1
  <2>5. StillReached(Fresh, o.st, p, k, AddrOf[k])
    BY <1>2, <2>3, <2>4, RemovePeerCosts
  <2> QED BY <1>5, <2>1, <2>2, <2>5
<1>7. ASSUME NEW p \in Profiles, NEW q \in Profiles, NEW oldReq \in Requests,
             NEW req \in Requests, NEW k \in Keys, MigratePeerCall(p, oldReq, q, req, k)
      PROVE  /\ last'.from \in Profiles
             /\ StillReached(pool, pool', last'.from, last'.key, AddrOf[last'.key])
  <2>1. PICK o \in MigratePeer(Fresh, p, oldReq, q, req, k, AddrOf[k]) :
          /\ pool' = o.st
          /\ last' = [op |-> "MigratePeer", key |-> k, from |-> p, to |-> q,
                      req |-> req, err |-> o.err]
    BY <1>7 DEF MigratePeerCall
  <2>2. /\ last'.from = p /\ last'.key = k /\ last'.err = o.err
        /\ last'.to = q /\ last'.req = req /\ last'.op = "MigratePeer"
    BY <2>1
  <2>3. /\ Reached(Fresh, p, 0, k, AddrOf[k]) /\ Reached(full, p, 0, k, AddrOf[k])
        /\ AddrOf[k] \in Addrs /\ o.err # "ok" /\ req \in Nat
    BY <1>4, <2>2, RequestAssumption
  <2>4. ASSUME WouldSucceed(last'), pool.ifaces[p].count = 1
        PROVE  \E t : Vacated(Fresh, t, p) /\ ~Refused(t, q, req)
    <3>1. \E w \in MigratePeer(full, p, req + 1, q, req, k, AddrOf[k]) : w.err = "ok"
      BY <2>2, <2>4 DEF WouldSucceed
    <3> HIDE DEF full
    <3>2. PICK w \in MigratePeer(full, p, req + 1, q, req, k, AddrOf[k]) : w.err = "ok"
      BY <3>1
    <3>3. full.ifaces[p].count = 1
      BY <1>3, <2>4
    <3>4. \E t : Vacated(full, t, p) /\ ~Refused(t, q, req)
      BY <1>3, <2>3, <3>2, <3>3, SoleSucceeds
    <3>5. PICK t : Vacated(full, t, p) /\ ~Refused(t, q, req)
      BY <3>4
    <3>6. Vacated(pool, t, p)
      BY <1>3, <3>5, RecountedReached
    <3>7. Vacated(Fresh, t, p)
      BY <1>2, <3>6, RecountedReached
    <3> QED BY <3>5, <3>7
  <2>5. \/ o.st.faults = Fresh.faults
        \/ /\ o.st.faults = Fresh.faults + 1
           /\ Fresh.ifaces[p].count = 1 => \E t : Vacated(Fresh, t, p) /\ ~Refused(t, q, req)
    BY <1>2, <2>1, <2>4
  <2>6. StillReached(Fresh, o.st, p, k, AddrOf[k])
    BY <1>2, <2>3, <2>5, MigrateCosts
  <2> QED BY <1>5, <2>1, <2>2, <2>6
<1>8. ASSUME NEW p \in Profiles, NEW req \in Requests, NEW k \in Keys, AddPeerCall(p, req, k)
      PROVE  FALSE
  BY <1>8 DEF AddPeerCall
<1>9. CASE CloseCall
  BY <1>9 DEF CloseCall
<1> QED BY <1>6, <1>7, <1>8, <1>9 DEF Next

\* One thing going wrong costs no service: when a removal or a migration returns
\* an error after one failed command, and could have been carried out, or after
\* none, because it could not, the peer is reachable on its old profile and port,
\* with its route, and no new interface is left behind.
THEOREM SingleFaultCostsNothing == Spec => SingleFaultRestores
<1>1. ServiceInv /\ [Next]_vars =>
        [(/\ last'.op \in {"RemovePeer", "MigratePeer"} /\ last'.err # "ok"
          /\ pool'.faults = 0 \/ (pool'.faults = 1 /\ WouldSucceed(last'))) =>
           LET k == last'.key
               p == last'.from
           IN Served(pool, p, k) =>
                /\ Served(pool', p, k)
                /\ pool'.ifaces[p].port = pool.ifaces[p].port
                /\ Tracked(pool') \subseteq Tracked(pool)]_vars
  <2> SUFFICES ASSUME ServiceInv, Next, last'.op \in {"RemovePeer", "MigratePeer"},
                      last'.err # "ok",
                      pool'.faults = 0 \/ (pool'.faults = 1 /\ WouldSucceed(last')),
                      Served(pool, last'.from, last'.key)
               PROVE  /\ Served(pool', last'.from, last'.key)
                      /\ pool'.ifaces[last'.from].port = pool.ifaces[last'.from].port
                      /\ Tracked(pool') \subseteq Tracked(pool)
    OBVIOUS
  <2> DEFINE p == last'.from
             k == last'.key
  <2>1. p \in Profiles /\ StillReached(pool, pool', p, k, AddrOf[k])
    BY CallRestores
  <2>2. Listening(pool')
    BY NextServes DEF CallServes
  <2>3. pool.ifaces[p].port # 0
    <3>1. p \in Tracked(pool)
      BY DEF Served
    <3> QED BY <2>1, <3>1 DEF ServiceInv, Sound, GoodIface, Tracked
  <2>4. /\ Reached(pool', p, pool.ifaces[p].port, k, AddrOf[k])
        /\ Tracked(pool') \subseteq Tracked(pool)
    BY <2>1 DEF StillReached
  <2>5. pool'.ifaces[p].port = pool.ifaces[p].port /\ Served(pool', p, k)
    BY <2>2, <2>3, <2>4 DEF Reached, Listening, Served
  <2> QED BY <2>4, <2>5
<1> QED BY <1>1, ServiceInvariance, PTL DEF Spec, SingleFaultRestores
=============================================================================
