---------------------------- MODULE PoolEffects ----------------------------
(***************************************************************************)
(* What the operations of PoolOps do to the books of the pool, proved for  *)
(* every state a host may be in, also one where an earlier process left    *)
(* interfaces behind: which profiles and peers an operation touches, when  *)
(* it succeeds, fails, or fails to roll back.  PoolProofs and ManagerProofs *)
(* build on these lemmas.                                                  *)
(***************************************************************************)
EXTENDS PoolOps, FiniteSetTheorems, TLAPS

(***************************************************************************)
(* Commands on peers and routes.                                           *)
(***************************************************************************)
\* t differs from s only in routes, in the failure count and in whether k is a
\* peer of link n.
PeerStep(s, t, n, k) ==
  /\ t \in States
  /\ t.ifaces = s.ifaces /\ t.orphans = s.orphans /\ t.usedPorts = s.usedPorts
  /\ t.nextIndex = s.nextIndex /\ t.masqAdded = s.masqAdded
  /\ t.links = s.links /\ t.listen = s.listen /\ t.masq = s.masq
  /\ t.kpeers \ {<<n, k>>} = s.kpeers \ {<<n, k>>}

\* A command has its effect, or fails and at most counts.
Outcomes(s, o, effect) ==
  \/ o = [st |-> effect, err |-> "ok"]
  \/ o = [st |-> s, err |-> "failed"]
  \/ o = [st |-> Faulted(s), err |-> "failed"]

\* A command that fails and changes nothing but the fault count is a peer step.
LEMMA PeerStepRefl ==
  ASSUME NEW s \in States, NEW n, NEW k
  PROVE  /\ PeerStep(s, s, n, k) /\ PeerStep(s, Faulted(s), n, k)
         /\ Faulted(s).kpeers = s.kpeers
BY DEF PeerStep, States, Faulted

\* Peer steps compose: device.go chains several commands for one peer.
LEMMA PeerStepTrans ==
  ASSUME NEW s, NEW t, NEW u, NEW n, NEW k, PeerStep(s, t, n, k), PeerStep(t, u, n, k)
  PROVE  PeerStep(s, u, n, k)
BY DEF PeerStep

\* awg set ... peer touches at most the peer it names.
LEMMA SetPeerStep ==
  ASSUME NEW s \in States, NEW n \in Nat, NEW k \in Keys,
         NEW o \in setPeerOnInterface(s, n, k)
  PROVE  PeerStep(s, o.st, n, k) /\ o.err \in {"ok", "failed"}
<1> DEFINE t == [s EXCEPT !.kpeers = @ \cup {<<n, k>>}]
<1>1. PeerStep(s, t, n, k)
  BY DEF States, PeerStep
<1>2. Outcomes(s, o, t)
  BY Zenon DEF Outcomes, setPeerOnInterface, Command, Done, Outcome
<1> HIDE DEF t
<1> QED BY <1>1, <1>2, PeerStepRefl DEF Outcomes

\* awg set ... peer remove touches at most that peer, and on success it is gone.
LEMMA RemovePeerOnlyStep ==
  ASSUME NEW s \in States, NEW n \in Nat, NEW k \in Keys,
         NEW o \in removePeerOnlyFromInterface(s, n, k)
  PROVE  /\ PeerStep(s, o.st, n, k)
         /\ o.err \in {"ok", "failed"}
         /\ o.err = "ok" => <<n, k>> \notin o.st.kpeers
<1> DEFINE t == [s EXCEPT !.kpeers = @ \ {<<n, k>>}]
<1>1. PeerStep(s, t, n, k) /\ <<n, k>> \notin t.kpeers
  BY DEF States, PeerStep
<1>2. Outcomes(s, o, t)
  BY Zenon DEF Outcomes, removePeerOnlyFromInterface, Command, Done, Outcome
<1> HIDE DEF t
<1> QED BY <1>1, <1>2, PeerStepRefl DEF Outcomes

\* ip route replace touches no peer.
LEMMA ReplaceRouteStep ==
  ASSUME NEW s \in States, NEW n \in Nat, NEW k \in Keys, NEW a \in Addrs,
         NEW o \in replacePeerRoute(s, n, a)
  PROVE  /\ PeerStep(s, o.st, n, k)
         /\ o.err \in {"ok", "failed"}
         /\ o.st.kpeers = s.kpeers
<1> DEFINE t == [s EXCEPT !.routes[a] = n]
<1>1. PeerStep(s, t, n, k) /\ t.kpeers = s.kpeers
  BY DEF States, PeerStep
<1>2. Outcomes(s, o, t)
  BY Zenon DEF Outcomes, replacePeerRoute, Command, Done, Outcome
<1> HIDE DEF t
<1> QED BY <1>1, <1>2, PeerStepRefl DEF Outcomes

\* ip route del touches no peer.
LEMMA DeleteRouteStep ==
  ASSUME NEW s \in States, NEW n \in Nat, NEW k \in Keys, NEW a \in Addrs,
         NEW o \in deletePeerRoute(s, n, a)
  PROVE  /\ PeerStep(s, o.st, n, k)
         /\ o.err \in {"ok", "failed"}
         /\ o.st.kpeers = s.kpeers
<1> DEFINE t == [s EXCEPT !.routes[a] = NoName]
<1>1. PeerStep(s, t, n, k) /\ t.kpeers = s.kpeers
  BY DEF States, PeerStep
<1>2. Outcomes(s, o, t)
  BY Zenon DEF Outcomes, deletePeerRoute, Command, Done, Outcome
<1> HIDE DEF t
<1> QED BY <1>1, <1>2, PeerStepRefl DEF Outcomes

\* addPeerToInterface touches at most its peer, wherever it stops.
LEMMA AddToInterfaceStep ==
  ASSUME NEW s \in States, NEW n \in Nat, NEW k \in Keys, NEW a \in Addrs,
         NEW o \in addPeerToInterface(s, n, k, a)
  PROVE  PeerStep(s, o.st, n, k) /\ o.err \in {"ok", "failed"}
<1>1. PICK u \in setPeerOnInterface(s, n, k) :
        o \in IF u.err = "ok" THEN replacePeerRoute(u.st, n, a) ELSE {u}
  BY DEF addPeerToInterface, Then
<1>2. PeerStep(s, u.st, n, k) /\ u.err \in {"ok", "failed"}
  BY SetPeerStep
<1>3. CASE o \in replacePeerRoute(u.st, n, a)
  BY <1>2, <1>3, ReplaceRouteStep, PeerStepTrans DEF PeerStep
<1> QED BY <1>1, <1>2, <1>3

\* restorePeerAndRoute touches at most its peer, whichever command fails.
LEMMA RestoreStep ==
  ASSUME NEW s \in States, NEW n \in Nat, NEW k \in Keys, NEW a \in Addrs,
         NEW o \in restorePeerAndRoute(s, n, k, a)
  PROVE  PeerStep(s, o.st, n, k) /\ o.err \in {"ok", "failed"}
<1>1. PICK u \in setPeerOnInterface(s, n, k) :
        \E r \in replacePeerRoute(u.st, n, a) :
          o = Outcome(r.st, IF u.err = "ok" THEN r.err ELSE u.err)
  BY DEF restorePeerAndRoute
<1>2. PeerStep(s, u.st, n, k) /\ u.err \in {"ok", "failed"}
  BY SetPeerStep
<1>3. PICK r \in replacePeerRoute(u.st, n, a) :
        o = Outcome(r.st, IF u.err = "ok" THEN r.err ELSE u.err)
  BY <1>1
<1>4. PeerStep(u.st, r.st, n, k) /\ r.err \in {"ok", "failed"}
  BY <1>2, ReplaceRouteStep DEF PeerStep
<1> QED BY <1>2, <1>3, <1>4, PeerStepTrans DEF Outcome

\* removePeerFromInterface touches at most its peer, which is gone on success.
LEMMA RemoveFromInterfaceStep ==
  ASSUME NEW s \in States, NEW n \in Nat, NEW k \in Keys, NEW a \in Addrs,
         NEW o \in removePeerFromInterface(s, n, k, a)
  PROVE  /\ PeerStep(s, o.st, n, k)
         /\ o.err \in {"ok", "failed"}
         /\ o.err = "ok" => <<n, k>> \notin o.st.kpeers
<1>1. PICK u \in removePeerOnlyFromInterface(s, n, k) :
        o \in IF u.err = "ok"
                THEN Catch(deletePeerRoute(u.st, n, a),
                           LAMBDA x : {Outcome(r.st, "failed") :
                                         r \in restorePeerAndRoute(x.st, n, k, a)})
                ELSE {u}
  BY DEF removePeerFromInterface, Then
<1>2. /\ PeerStep(s, u.st, n, k) /\ u.err \in {"ok", "failed"}
      /\ u.err = "ok" => <<n, k>> \notin u.st.kpeers
      /\ u.st \in States
  BY RemovePeerOnlyStep DEF PeerStep
<1>3. CASE u.err = "ok"
  <2>1. PICK x \in deletePeerRoute(u.st, n, a) :
          o \in IF x.err = "ok" THEN {x}
                ELSE {Outcome(r.st, "failed") : r \in restorePeerAndRoute(x.st, n, k, a)}
    BY <1>1, <1>3 DEF Catch
  <2>2. /\ PeerStep(s, x.st, n, k) /\ x.err \in {"ok", "failed"}
        /\ x.st.kpeers = u.st.kpeers /\ x.st \in States
    BY <1>2, DeleteRouteStep, PeerStepTrans DEF PeerStep
  <2>3. CASE x.err = "ok"
    BY <1>2, <1>3, <2>1, <2>2, <2>3
  <2>4. CASE x.err # "ok"
    <3>1. PICK r \in restorePeerAndRoute(x.st, n, k, a) : o = Outcome(r.st, "failed")
      BY <2>1, <2>4
    <3>2. PeerStep(x.st, r.st, n, k)
      BY <2>2, RestoreStep
    <3> QED BY <2>2, <3>1, <3>2, PeerStepTrans DEF Outcome
  <2> QED BY <2>3, <2>4
<1> QED BY <1>1, <1>2, <1>3

\* cleanupPeerAfterFailedAdd touches at most its peer; peerRemoved is truthful.
LEMMA CleanupStep ==
  ASSUME NEW s \in States, NEW n \in Nat, NEW k \in Keys, NEW a \in Addrs,
         NEW c \in cleanupPeerAfterFailedAdd(s, n, k, a)
  PROVE  /\ PeerStep(s, c.st, n, k)
         /\ c.removed => <<n, k>> \notin c.st.kpeers
         /\ c.removed \in BOOLEAN
         /\ c.err = "ok" => c.removed
<1>1. PICK u \in removePeerOnlyFromInterface(s, n, k) :
        \E r \in deletePartialRoute(u.st, n, a) :
          c = [st |-> r.st, removed |-> u.err = "ok",
               err |-> IF u.err = "ok" THEN r.err ELSE u.err]
  BY DEF cleanupPeerAfterFailedAdd
<1>2. /\ PeerStep(s, u.st, n, k) /\ u.st \in States
      /\ u.err = "ok" => <<n, k>> \notin u.st.kpeers
  BY RemovePeerOnlyStep DEF PeerStep
<1>3. PICK r \in deletePartialRoute(u.st, n, a) :
          c = [st |-> r.st, removed |-> u.err = "ok",
               err |-> IF u.err = "ok" THEN r.err ELSE u.err]
  BY <1>1
<1>4. PICK v \in peerRouteExists(u.st, n) :
        r \in IF v.err = "ok"
                THEN IF v.st.routes[a] = n THEN deletePeerRoute(v.st, n, a) ELSE {Done(v.st)}
                ELSE {v}
  BY DEF deletePartialRoute, Then
<1>5. PeerStep(u.st, v.st, n, k) /\ v.st.kpeers = u.st.kpeers /\ v.st \in States
  <2>1. Outcomes(u.st, v, u.st)
    BY Zenon DEF Outcomes, peerRouteExists, Command, Done, Outcome
  <2>2. v.st = u.st \/ v.st = Faulted(u.st)
    BY <2>1 DEF Outcomes
  <2> QED BY <1>2, <2>2, PeerStepRefl DEF PeerStep
<1>6. PeerStep(v.st, r.st, n, k) /\ r.st.kpeers = v.st.kpeers
  <2>1. CASE r \in deletePeerRoute(v.st, n, a)
    BY <1>5, <2>1, DeleteRouteStep
  <2>2. CASE r = v
    BY <1>5, <2>2, PeerStepRefl
  <2>3. CASE r = Done(v.st)
    <3>1. r.st = v.st
      BY <2>3 DEF Done, Outcome
    <3> QED BY <1>5, <3>1, PeerStepRefl
  <2> QED BY <1>4, <2>1, <2>2, <2>3
<1> QED BY <1>2, <1>3, <1>5, <1>6, PeerStepTrans

-----------------------------------------------------------------------------
(***************************************************************************)
(* Soundness of the books.                                                 *)
(***************************************************************************)
\* A tracked name is the name of a link.
LEMMA TrackedName ==
  ASSUME NEW s, NEW p \in Tracked(s), s \in States
  PROVE  p \in Profiles /\ s.ifaces[p].name \in Nat /\ s.ifaces[p] \in Iface
BY DEF States, Iface, Tracked, NoName

\* Deleting links leaves a state and touches only what hangs on them.
LEMMA UnlinkedFields ==
  ASSUME NEW s \in States, NEW gone
  PROVE  LET t == Unlinked(s, gone)
         IN /\ t \in States
            /\ t.ifaces = s.ifaces /\ t.orphans = s.orphans /\ t.usedPorts = s.usedPorts
            /\ t.nextIndex = s.nextIndex /\ t.masqAdded = s.masqAdded /\ t.masq = s.masq
            /\ t.links = s.links \ gone
            /\ t.listen = {l \in s.listen : l[1] \notin gone}
            /\ t.kpeers = {x \in s.kpeers : x[1] \notin gone}
BY DEF Unlinked, States, NoName

\* MASQUERADE rules that this pool does not know of.
Unruled(s) == s.masq - (IF s.masqAdded THEN 1 ELSE 0)

\* What the code keeps true of every entry of p.ifaces.
GoodIface(i) ==
  /\ IsFiniteSet(i.peers) /\ i.count = Cardinality(i.peers)
  /\ i.name = NoName => i = NoIface
  /\ i.name # NoName => i.port # 0

\* The books are in order, whatever is on the host.
Sound(s) ==
  /\ s \in States
  /\ \A p \in Profiles : GoodIface(s.ifaces[p])
  /\ IsFiniteSet(Tracked(s)) /\ IsFiniteSet(s.orphans)
  /\ Unruled(s) >= 0

SameBooks(s, t) ==
  /\ t \in States
  /\ t.ifaces = s.ifaces /\ t.orphans = s.orphans
  /\ Unruled(t) = Unruled(s)

\* The books of profile p may differ, those of the others do not.
Touches(s, t, p) ==
  /\ Sound(t)
  /\ Unruled(t) = Unruled(s)
  /\ \A q \in Profiles : q # p => t.ifaces[q] = s.ifaces[q]

\* A failed command changes no book.
LEMMA SameBooksRefl ==
  ASSUME NEW s \in States
  PROVE  SameBooks(s, s) /\ SameBooks(s, Faulted(s))
<1>1. /\ Faulted(s) \in States /\ Faulted(s).ifaces = s.ifaces
      /\ Faulted(s).orphans = s.orphans /\ Faulted(s).masq = s.masq
      /\ Faulted(s).masqAdded = s.masqAdded
  BY DEF Faulted, States
<1> QED BY <1>1 DEF SameBooks, Unruled

\* Commands that change no book may follow each other.
LEMMA SameBooksTrans ==
  ASSUME NEW s, NEW t, NEW u, SameBooks(s, t), SameBooks(t, u)
  PROVE  SameBooks(s, u)
BY DEF SameBooks

\* Commands on peers and routes change no book.
LEMMA PeerStepSame ==
  ASSUME NEW s, NEW t, NEW n, NEW k, PeerStep(s, t, n, k)
  PROVE  SameBooks(s, t)
BY DEF PeerStep, SameBooks, Unruled

\* Books that did not change are still in order.
LEMMA SameSound ==
  ASSUME NEW s, NEW t, Sound(s), SameBooks(s, t)
  PROVE  Sound(t) /\ Tracked(t) = Tracked(s)
<1>1. Tracked(t) = Tracked(s)
  BY DEF SameBooks, Tracked
<1> QED BY <1>1 DEF Sound, SameBooks

\* ... and no profile was touched.
LEMMA SameTouches ==
  ASSUME NEW s, NEW t, NEW p, Sound(s), SameBooks(s, t)
  PROVE  Touches(s, t, p)
BY SameSound DEF Touches, SameBooks

\* Operations on one profile may follow each other.
LEMMA TouchesTrans ==
  ASSUME NEW s, NEW t, NEW u, NEW p, Touches(s, t, p), Touches(t, u, p)
  PROVE  Touches(s, u, p)
BY DEF Touches

\* It is enough to look at the profile an operation worked on.
LEMMA SoundAt ==
  ASSUME NEW s, NEW t, NEW p \in Profiles, Sound(s), t \in States,
         \A q \in Profiles : q # p => t.ifaces[q] = s.ifaces[q],
         GoodIface(t.ifaces[p]), IsFiniteSet(t.orphans), Unruled(t) = Unruled(s)
  PROVE  Touches(s, t, p)
<1>1. Tracked(t) \subseteq Tracked(s) \cup {p}
  BY DEF Tracked
<1>2. IsFiniteSet(Tracked(s) \cup {p})
  BY FS_AddElement DEF Sound
<1>3. IsFiniteSet(Tracked(t))
  BY <1>1, <1>2, FS_Subset
<1>4. \A q \in Profiles : GoodIface(t.ifaces[q])
  BY DEF Sound
<1>5. Unruled(t) >= 0
  BY DEF Sound
<1> QED BY <1>3, <1>4, <1>5 DEF Sound, Touches

\* No interface is a good one; peerCount is zero exactly without peers.
LEMMA GoodIfaceFacts ==
  /\ GoodIface(NoIface) /\ NoIface \in Iface
  /\ \A i \in Iface : GoodIface(i) => (i.count = 0 <=> i.peers = {})
<1>1. GoodIface(NoIface) /\ NoIface \in Iface
  BY FS_EmptySet DEF GoodIface, NoIface, Iface
<1>2. ASSUME NEW i \in Iface, GoodIface(i) PROVE i.count = 0 <=> i.peers = {}
  BY <1>2, FS_EmptySet DEF GoodIface
<1> QED BY <1>1, <1>2

\* trackPeer adds one peer to one profile.
LEMMA TrackEffect ==
  ASSUME NEW s, NEW p \in Tracked(s), NEW k \in Keys, Sound(s)
  PROVE  LET t == trackPeer(s, p, k)
         IN /\ Touches(s, t, p) /\ t.orphans = s.orphans /\ Tracked(t) = Tracked(s)
            /\ t.ifaces[p].peers = s.ifaces[p].peers \cup {k}
            /\ t.ifaces[p].port = s.ifaces[p].port
            /\ t.ifaces[p].name = s.ifaces[p].name
            /\ k \in s.ifaces[p].peers => t.ifaces[p] = s.ifaces[p]
            /\ t.kpeers = s.kpeers /\ t.routes = s.routes /\ t.links = s.links
            /\ t.listen = s.listen
<1> DEFINE t == trackPeer(s, p, k)
           i == s.ifaces[p]
           c == IF k \in i.peers THEN i.count ELSE i.count + 1
           j == [i EXCEPT !.count = c, !.peers = i.peers \cup {k}]
<1>1. s \in States /\ p \in Profiles /\ i \in Iface /\ GoodIface(i) /\ i.name # NoName
  BY TrackedName DEF Sound, Tracked
<1>2. i.count \in Nat /\ c \in Nat
  BY <1>1 DEF Iface
<1>3. j \in Iface /\ j.name = i.name /\ j.port = i.port /\ j.count = c /\ j.peers = i.peers \cup {k}
  BY <1>1, <1>2 DEF Iface
<1>4. GoodIface(j)
  <2>1. IsFiniteSet(i.peers) /\ i.count = Cardinality(i.peers)
    BY <1>1 DEF GoodIface
  <2>2. IsFiniteSet(i.peers \cup {k}) /\ c = Cardinality(i.peers \cup {k})
    BY <2>1, FS_AddElement
  <2> QED BY <1>1, <1>3, <2>2 DEF GoodIface
<1>5. t = [s EXCEPT !.ifaces[p] = j]
  BY DEF trackPeer
<1>a. k \in i.peers => j = i
  BY <1>1, <1>2 DEF Iface
<1> HIDE DEF j, i, t
<1>6. /\ t \in States /\ t.orphans = s.orphans /\ t.masq = s.masq /\ t.masqAdded = s.masqAdded
      /\ t.ifaces = [s.ifaces EXCEPT ![p] = j]
      /\ t.kpeers = s.kpeers /\ t.routes = s.routes /\ t.links = s.links
      /\ t.listen = s.listen
  BY <1>1, <1>3, <1>5 DEF States
<1>7. t.ifaces[p] = j /\ \A q \in Profiles : q # p => t.ifaces[q] = s.ifaces[q]
  BY <1>1, <1>6 DEF States
<1>8. Touches(s, t, p)
  BY <1>1, <1>4, <1>6, <1>7, SoundAt DEF Sound, Unruled
<1>9. Tracked(t) = Tracked(s)
  BY <1>1, <1>3, <1>7 DEF Tracked, i
<1> QED BY <1>3, <1>6, <1>7, <1>8, <1>9, <1>a DEF t, i

\* untrackPeer takes one peer from one profile.
LEMMA UntrackEffect ==
  ASSUME NEW s, NEW p \in Tracked(s), NEW k \in Keys, Sound(s)
  PROVE  LET t == untrackPeer(s, p, k)
         IN /\ Touches(s, t, p) /\ t.orphans = s.orphans /\ Tracked(t) = Tracked(s)
            /\ t.ifaces[p].peers = s.ifaces[p].peers \ {k}
            /\ t.ifaces[p].port = s.ifaces[p].port
            /\ t.ifaces[p].name = s.ifaces[p].name
            /\ t.kpeers = s.kpeers /\ t.routes = s.routes /\ t.links = s.links
            /\ t.listen = s.listen
<1> DEFINE t == untrackPeer(s, p, k)
           i == s.ifaces[p]
           c == IF k \in i.peers /\ i.count > 0 THEN i.count - 1 ELSE i.count
           j == [i EXCEPT !.count = c, !.peers = i.peers \ {k}]
<1>1. s \in States /\ p \in Profiles /\ i \in Iface /\ GoodIface(i) /\ i.name # NoName
  BY TrackedName DEF Sound, Tracked
<1>2. i.count \in Nat /\ c \in Nat
  BY <1>1 DEF Iface
<1>3. j \in Iface /\ j.name = i.name /\ j.port = i.port /\ j.count = c /\ j.peers = i.peers \ {k}
  BY <1>1, <1>2 DEF Iface
<1>4. GoodIface(j)
  <2>1. k \in i.peers => i.count > 0
    BY <1>1, <1>2, GoodIfaceFacts
  <2>3. IsFiniteSet(i.peers) /\ i.count = Cardinality(i.peers)
    BY <1>1 DEF GoodIface
  <2>2. IsFiniteSet(i.peers \ {k}) /\ c = Cardinality(i.peers \ {k})
    BY <1>2, <2>1, <2>3, FS_RemoveElement
  <2> QED BY <1>1, <1>3, <2>2 DEF GoodIface
<1>5. t = [s EXCEPT !.ifaces[p] = j]
  BY DEF untrackPeer
<1> HIDE DEF j, i, t
<1>6. /\ t \in States /\ t.orphans = s.orphans /\ t.masq = s.masq /\ t.masqAdded = s.masqAdded
      /\ t.ifaces = [s.ifaces EXCEPT ![p] = j]
      /\ t.kpeers = s.kpeers /\ t.routes = s.routes /\ t.links = s.links
      /\ t.listen = s.listen
  BY <1>1, <1>3, <1>5 DEF States
<1>7. t.ifaces[p] = j /\ \A q \in Profiles : q # p => t.ifaces[q] = s.ifaces[q]
  BY <1>1, <1>6 DEF States
<1>8. Touches(s, t, p)
  BY <1>1, <1>4, <1>6, <1>7, SoundAt DEF Sound, Unruled
<1>9. Tracked(t) = Tracked(s)
  BY <1>1, <1>3, <1>7 DEF Tracked, i
<1> QED BY <1>3, <1>6, <1>7, <1>8, <1>9 DEF t, i

-----------------------------------------------------------------------------
(***************************************************************************)
(* Interfaces.                                                             *)
(***************************************************************************)
\* A command whose effect changes no book changes none.
LEMMA CommandSame ==
  ASSUME NEW s \in States, NEW e, SameBooks(s, e), NEW o, Outcomes(s, o, e)
  PROVE  SameBooks(s, o.st) /\ o.err \in {"ok", "failed"}
BY SameBooksRefl DEF Outcomes

\* destroyTrackedInterface forgets the interface, or fails and changes nothing.
LEMMA DestroyEffect ==
  ASSUME NEW s, NEW p \in Profiles, Sound(s), NEW o \in destroyTrackedInterface(s, p)
  PROVE  /\ o.err \in {"ok", "failed"}
         /\ o.err = "ok" => /\ Touches(s, o.st, p) /\ o.st.ifaces[p] = NoIface
                            /\ o.st.orphans = s.orphans
         /\ o.err # "ok" => SameBooks(s, o.st)
<1> DEFINE n == s.ifaces[p].name
           port == s.ifaces[p].port
           v == Unlinked(s, {n})
           t == [v EXCEPT !.usedPorts = @ \ {port}, !.ifaces[p] = NoIface]
<1>1. s \in States
  BY DEF Sound
<1>2. PICK u \in destroyInterface(s, n) :
        o \in IF u.err = "ok"
                THEN {Done([u.st EXCEPT !.usedPorts = @ \ {port}, !.ifaces[p] = NoIface])}
                ELSE {u}
  BY DEF destroyTrackedInterface, Then
<1>3. Outcomes(s, u, v)
  BY Zenon DEF Outcomes, destroyInterface, Command, Done, Outcome
<1>4. CASE u.err # "ok"
  BY <1>1, <1>2, <1>3, <1>4, SameBooksRefl DEF Outcomes
<1>5. CASE u.err = "ok"
  <2>1. o.st = t /\ o.err = "ok"
    <3>1. u.st = v
      BY <1>3, <1>5 DEF Outcomes
    <3> QED BY <1>2, <1>5, <3>1 DEF Done, Outcome
  <2>2. v \in States /\ v.ifaces = s.ifaces /\ v.orphans = s.orphans
        /\ v.masq = s.masq /\ v.masqAdded = s.masqAdded
    BY <1>1, UnlinkedFields
  <2> HIDE DEF v
  <2>3. /\ t \in States /\ t.orphans = s.orphans
        /\ t.masq = s.masq /\ t.masqAdded = s.masqAdded
        /\ t.ifaces = [s.ifaces EXCEPT ![p] = NoIface]
    BY <2>2, GoodIfaceFacts DEF States
  <2> HIDE DEF t
  <2>4. t.ifaces[p] = NoIface /\ \A q \in Profiles : q # p => t.ifaces[q] = s.ifaces[q]
    BY <1>1, <2>3 DEF States
  <2>5. Touches(s, t, p)
    BY <2>3, <2>4, GoodIfaceFacts, SoundAt DEF Sound, Unruled
  <2> QED BY <2>1, <2>3, <2>4, <2>5
<1> QED BY <1>4, <1>5

\* Bringing a link up touches the host only; a NAT rule it adds is known.
LEMMA BringUpSame ==
  ASSUME NEW s \in States, NEW n \in Nat, NEW port \in Nat, NEW o \in bringUp(s, n, port)
  PROVE  SameBooks(s, o.st) /\ o.err \in {"ok", "failed"}
<1>1. PICK u \in configureDevice(s, n, port) :
        o \in IF u.err = "ok"
                THEN Then(configureInterfaceNetwork(u.st, n),
                          LAMBDA x : IF x.masqAdded THEN {Done(x)} ELSE addMasquerade(x))
                ELSE {u}
  BY DEF bringUp, Then
<1>2. SameBooks(s, u.st) /\ u.err \in {"ok", "failed"}
  <2> DEFINE e == [s EXCEPT !.listen = @ \cup {<<n, port>>}]
  <2>1. Outcomes(s, u, e)
    BY Zenon DEF Outcomes, configureDevice, Command, Done, Outcome
  <2>2. /\ e \in States /\ e.ifaces = s.ifaces /\ e.orphans = s.orphans
        /\ e.masq = s.masq /\ e.masqAdded = s.masqAdded
    BY DEF States
  <2>3. SameBooks(s, e)
    BY <2>2 DEF SameBooks, Unruled
  <2> HIDE DEF e
  <2> QED BY <2>1, <2>3, CommandSame
<1>3. CASE u.err = "ok"
  <2>1. PICK v \in configureInterfaceNetwork(u.st, n) :
          o \in IF v.err = "ok"
                  THEN IF v.st.masqAdded THEN {Done(v.st)} ELSE addMasquerade(v.st)
                  ELSE {v}
    BY <1>1, <1>3 DEF Then
  <2>2. u.st \in States
    BY <1>2 DEF SameBooks
  <2>3. SameBooks(u.st, v.st) /\ v.err \in {"ok", "failed"} /\ v.st \in States
    <3>1. Outcomes(u.st, v, u.st)
      BY Zenon DEF Outcomes, configureInterfaceNetwork, Command, Done, Outcome
    <3> QED BY <2>2, <3>1, SameBooksRefl, CommandSame DEF SameBooks
  <2>4. SameBooks(s, v.st)
    BY <1>2, <2>3, SameBooksTrans
  <2>5. CASE v.err # "ok"
    BY <2>1, <2>3, <2>4, <2>5
  <2>6. CASE v.err = "ok" /\ v.st.masqAdded
    <3>1. o = Done(v.st)
      BY <2>1, <2>6
    <3>2. o.st = v.st /\ o.err = "ok"
      BY <3>1 DEF Done, Outcome
    <3> QED BY <2>4, <3>2
  <2>7. CASE v.err = "ok" /\ ~v.st.masqAdded
    <3> DEFINE w == v.st
               f == [w EXCEPT !.masq = @ + 1]
               e == [w EXCEPT !.masq = @ + 1, !.masqAdded = TRUE]
    <3>1. Outcomes(w, o, e)
      <4>1. o \in addMasquerade(w)
        BY <2>1, <2>7
      <4> QED BY <4>1, Zenon DEF Outcomes, addMasquerade, Command, Done, Outcome
    <3>2. w \in States /\ ~w.masqAdded
      BY <2>3, <2>7
    <3> HIDE DEF w
    <3>3. f \in States /\ f.ifaces = w.ifaces /\ f.orphans = w.orphans /\ f.masq = w.masq + 1
      BY <3>2 DEF States
    <3>4. e = [f EXCEPT !.masqAdded = TRUE]
      OBVIOUS
    <3> HIDE DEF f, e
    <3>5. /\ e \in States /\ e.ifaces = w.ifaces /\ e.orphans = w.orphans
          /\ e.masq = w.masq + 1
      BY <3>3, <3>4 DEF States
    <3>6. e.masqAdded
      BY <3>3, <3>4 DEF States
    <3>7. w.masq \in Nat
      BY <3>2 DEF States
    <3>8. SameBooks(w, e)
      BY <3>2, <3>5, <3>6, <3>7 DEF SameBooks, Unruled
    <3>9. SameBooks(w, o.st) /\ o.err \in {"ok", "failed"}
      BY <3>1, <3>2, <3>8, CommandSame
    <3> QED BY <2>4, <3>9, SameBooksTrans DEF w
  <2> QED BY <2>3, <2>5, <2>6, <2>7
<1> QED BY <1>1, <1>2, <1>3

\* A link that was not brought up leaves no trace in the books but an orphan.
LEMMA AbandonEffect ==
  ASSUME NEW s, NEW p \in Profiles, NEW n \in Nat, NEW port \in Nat, Sound(s),
         NEW o \in abandonInterface(s, n, port)
  PROVE  /\ o.err \in {"failed", "rollbackFailed"}
         /\ Touches(s, o.st, p)
         /\ o.err = "failed" => SameBooks(s, o.st)
         /\ o.st.ifaces = s.ifaces
<1>1. s \in States
  BY DEF Sound
<1>2. PICK d \in destroyInterface(s, n) :
        o = IF d.err = "ok" THEN Outcome(d.st, "failed")
            ELSE Outcome(trackOrphanInterface(d.st, n, port), "rollbackFailed")
  BY DEF abandonInterface
<1>3. SameBooks(s, d.st) /\ d.err \in {"ok", "failed"}
  <2> DEFINE v == Unlinked(s, {n})
  <2>1. Outcomes(s, d, v)
    BY Zenon DEF Outcomes, destroyInterface, Command, Done, Outcome
  <2>2. SameBooks(s, v)
    BY <1>1, UnlinkedFields DEF SameBooks, Unruled
  <2> HIDE DEF v
  <2> QED BY <1>1, <2>1, <2>2, CommandSame
<1>4. CASE d.err = "ok"
  BY <1>2, <1>3, <1>4, SameTouches DEF Outcome, SameBooks
<1>5. CASE d.err # "ok"
  <2> DEFINE u == d.st
             t == trackOrphanInterface(u, n, port)
  <2>1. o.st = t /\ o.err = "rollbackFailed"
    BY <1>2, <1>5 DEF Outcome
  <2>2. u \in States /\ Sound(u)
    BY <1>3, SameSound DEF SameBooks
  <2>3. /\ t \in States /\ t.ifaces = u.ifaces
        /\ t.orphans = u.orphans \cup {[name |-> n, port |-> port]}
        /\ t.masq = u.masq /\ t.masqAdded = u.masqAdded
    <3> DEFINE r == [name |-> n, port |-> port]
    <3>1. r \in [name: Nat, port: Nat]
      OBVIOUS
    <3>2. t = [u EXCEPT !.orphans = @ \cup {r}, !.usedPorts = @ \cup {port}]
      BY DEF trackOrphanInterface
    <3> HIDE DEF r, t, u
    <3>3. t \in States /\ t.ifaces = u.ifaces /\ t.orphans = u.orphans \cup {r}
          /\ t.masq = u.masq /\ t.masqAdded = u.masqAdded
      BY <2>2, <3>1, <3>2 DEF States
    <3> QED BY <3>3 DEF r
  <2> HIDE DEF t
  <2>4. IsFiniteSet(t.orphans)
    BY <2>2, <2>3, FS_AddElement DEF Sound
  <2>5. /\ t.ifaces = s.ifaces /\ GoodIface(t.ifaces[p])
        /\ Unruled(t) = Unruled(s) /\ t \in States
    BY <1>3, <2>2, <2>3 DEF SameBooks, Sound, Unruled
  <2>6. Touches(s, t, p)
    BY <2>4, <2>5, SoundAt
  <2> QED BY <2>1, <2>5, <2>6
<1> QED BY <1>4, <1>5

\* newInterface registers an empty interface on a free profile, or fails and
\* leaves the books alone, or an orphan.
LEMMA NewInterfaceEffect ==
  ASSUME NEW s, NEW p \in Profiles, NEW port \in Nat, port # 0, Sound(s),
         NEW o \in newInterface(s, p, port)
  PROVE  /\ o.err \in {"ok", "failed", "rollbackFailed"}
         /\ Touches(s, o.st, p)
         /\ o.err = "ok" => /\ o.st.orphans = s.orphans
                            /\ o.st.ifaces[p] = [name |-> s.nextIndex, port |-> port,
                                                 count |-> 0, peers |-> {}]
                            /\ p \in Tracked(o.st)
         /\ o.err = "failed" => SameBooks(s, o.st)
<1> DEFINE n == s.nextIndex
           r == [s EXCEPT !.nextIndex = n + 1]
           c == [r EXCEPT !.links = @ \cup {n}]
<1>1. s \in States /\ n \in Nat
  BY DEF Sound, States
<1>2. SameBooks(s, r) /\ r \in States
  BY <1>1 DEF SameBooks, Unruled, States
<1>3. SameBooks(r, c)
  <2> HIDE DEF r
  <2> QED BY <1>1, <1>2 DEF SameBooks, Unruled, States
<1>4. PICK t \in createInterface(r, n) :
        o \in IF t.err = "ok"
                THEN Then(Catch(bringUp(t.st, n, port), LAMBDA x : abandonInterface(x.st, n, port)),
                          LAMBDA u : {Done(registerInterface(u, p, n, port))})
                ELSE {t}
  BY DEF newInterface, Then
<1>5. SameBooks(s, t.st) /\ t.err \in {"ok", "failed"} /\ t.st \in States /\ Sound(t.st)
  <2>1. Outcomes(r, t, c)
    BY Zenon DEF Outcomes, createInterface, Command, Done, Outcome
  <2> HIDE DEF c, r
  <2>2. SameBooks(r, t.st) /\ t.err \in {"ok", "failed"}
    BY <1>2, <1>3, <2>1, CommandSame
  <2> QED BY <1>2, <2>2, SameBooksTrans, SameSound DEF SameBooks
<1> HIDE DEF c, r
<1>6. CASE t.err # "ok"
  BY <1>4, <1>5, <1>6, SameTouches
<1>7. CASE t.err = "ok"
  <2>1. PICK u \in Catch(bringUp(t.st, n, port), LAMBDA x : abandonInterface(x.st, n, port)) :
          o \in IF u.err = "ok" THEN {Done(registerInterface(u.st, p, n, port))} ELSE {u}
    BY <1>4, <1>7 DEF Then
  <2>2. PICK b \in bringUp(t.st, n, port) :
          u \in IF b.err = "ok" THEN {b} ELSE abandonInterface(b.st, n, port)
    BY <2>1 DEF Catch
  <2>3. SameBooks(s, b.st) /\ b.err \in {"ok", "failed"}
    BY <1>1, <1>5, BringUpSame, SameBooksTrans
  <2>4. Sound(b.st)
    BY <2>3, SameSound
  <2>5. CASE b.err # "ok"
    <3>1. u \in abandonInterface(b.st, n, port)
      BY <2>2, <2>5
    <3>2. /\ u.err \in {"failed", "rollbackFailed"} /\ Touches(b.st, u.st, p)
          /\ u.err = "failed" => SameBooks(b.st, u.st)
      BY <1>1, <2>4, <3>1, AbandonEffect
    <3>3. o = u
      BY <2>1, <3>2
    <3>4. Touches(s, u.st, p)
      BY <2>3, <3>2, SameTouches, TouchesTrans
    <3> QED BY <2>3, <3>2, <3>3, <3>4, SameBooksTrans
  <2>6. CASE b.err = "ok"
    <3> DEFINE v == b.st
               i == [name |-> n, port |-> port, count |-> 0, peers |-> {}]
               w == registerInterface(v, p, n, port)
    <3>1. o.st = w /\ o.err = "ok"
      BY <2>1, <2>2, <2>6 DEF Done, Outcome
    <3>2. i \in Iface /\ GoodIface(i) /\ i.name # NoName
      BY <1>1, FS_EmptySet DEF Iface, GoodIface, NoName
    <3>3. v \in States /\ v.orphans = s.orphans /\ Unruled(v) = Unruled(s) /\ v.ifaces = s.ifaces
      BY <2>3 DEF SameBooks
    <3> HIDE DEF v, i
    <3>4. /\ w \in States /\ w.orphans = v.orphans /\ w.masq = v.masq
          /\ w.masqAdded = v.masqAdded /\ w.ifaces = [v.ifaces EXCEPT ![p] = i]
      <4> DEFINE x == [v EXCEPT !.ifaces[p] = i]
      <4>1. w = [x EXCEPT !.usedPorts = @ \cup {port}]
        BY DEF registerInterface, i
      <4>2. /\ x \in States /\ x.orphans = v.orphans /\ x.masq = v.masq
            /\ x.masqAdded = v.masqAdded /\ x.ifaces = [v.ifaces EXCEPT ![p] = i]
        BY <3>2, <3>3 DEF States
      <4> HIDE DEF x, w
      <4> QED BY <4>1, <4>2 DEF States
    <3> HIDE DEF w
    <3>5. w.ifaces[p] = i /\ \A q \in Profiles : q # p => w.ifaces[q] = s.ifaces[q]
      BY <3>3, <3>4 DEF States
    <3>6. Touches(s, w, p)
      BY <3>2, <3>3, <3>4, <3>5, SoundAt DEF Sound, Unruled
    <3>7. p \in Tracked(w)
      BY <3>2, <3>5 DEF Tracked
    <3> QED BY <3>1, <3>3, <3>4, <3>5, <3>6, <3>7 DEF i
  <2> QED BY <2>3, <2>5, <2>6
<1> QED BY <1>5, <1>6, <1>7

\* Only ports that are not 0 are handed out.
LEMMA ResolvedPort ==
  ASSUME NEW s \in States, NEW req \in Nat, NEW port \in resolvePort(s, req)
  PROVE  port \in Nat /\ port # 0 /\ (req # 0 => port = req)
BY PortAssumption DEF resolvePort

\* getOrCreateInterface leaves the peers alone; without an error the profile has
\* an interface on the requested port, after a plain error nothing has changed.
LEMMA GetOrCreateEffect ==
  ASSUME NEW s, NEW p \in Profiles, NEW req \in Nat, Sound(s),
         NEW o \in getOrCreateInterface(s, p, req)
  PROVE  /\ o.err \in Errors
         /\ Touches(s, o.st, p)
         /\ o.err = "ok" => /\ p \in Tracked(o.st) /\ o.st.orphans = s.orphans
                            /\ o.st.ifaces[p].peers = s.ifaces[p].peers
                            /\ req # 0 => o.st.ifaces[p].port = req
                            /\ p \in Tracked(s) => o.st = s
         /\ o.err \notin {"ok", "rollbackFailed"} => SameBooks(s, o.st)
<1>1. s \in States /\ SameBooks(s, s) /\ Touches(s, s, p)
  BY SameBooksRefl, SameTouches DEF Sound
<1>2. CASE o = Outcome(s, IF PortConflicts(s, p, req) THEN "portConflict" ELSE "ok")
           /\ p \in Tracked(s)
  BY <1>1, <1>2 DEF Outcome, Errors, PortConflicts
<1>3. CASE o \in {Outcome(s, "portInUse"), Outcome(s, "maxInterfaces"), Outcome(s, "refused")}
  BY <1>1, <1>3 DEF Outcome, Errors
<1>4. CASE p \notin Tracked(s) /\ \E port \in resolvePort(s, req) : o \in newInterface(s, p, port)
  <2>1. PICK port \in resolvePort(s, req) : o \in newInterface(s, p, port)
    BY <1>4
  <2>2. port \in Nat /\ port # 0 /\ (req # 0 => port = req)
    BY <1>1, ResolvedPort
  <2>3. s.ifaces[p] = NoIface
    BY <1>4 DEF Sound, GoodIface, Tracked
  <2>4. s.ifaces[p].peers = {}
    BY <2>3 DEF NoIface
  <2>5. /\ o.err \in {"ok", "failed", "rollbackFailed"}
        /\ Touches(s, o.st, p)
        /\ o.err = "ok" => /\ o.st.orphans = s.orphans
                           /\ o.st.ifaces[p] = [name |-> s.nextIndex, port |-> port,
                                                count |-> 0, peers |-> {}]
                           /\ p \in Tracked(o.st)
        /\ o.err = "failed" => SameBooks(s, o.st)
    BY <2>1, <2>2, NewInterfaceEffect
  <2> QED BY <1>4, <2>2, <2>4, <2>5 DEF Errors
<1>5. \/ o = Outcome(s, IF PortConflicts(s, p, req) THEN "portConflict" ELSE "ok")
         /\ p \in Tracked(s)
      \/ o \in {Outcome(s, "portInUse"), Outcome(s, "maxInterfaces"), Outcome(s, "refused")}
      \/ p \notin Tracked(s) /\ \E port \in resolvePort(s, req) : o \in newInterface(s, p, port)
  BY Zenon DEF getOrCreateInterface
<1> QED BY <1>2, <1>3, <1>4, <1>5

-----------------------------------------------------------------------------
(***************************************************************************)
(* Adding and removing a peer.                                             *)
(***************************************************************************)
\* Nothing a caller was told of is lost: the same orphans and, on each profile,
\* the same peers, on the same port if there are any.
Kept(s, t) ==
  /\ t.orphans = s.orphans
  /\ \A p \in Profiles : /\ t.ifaces[p].peers = s.ifaces[p].peers
                         /\ s.ifaces[p].peers # {} => t.ifaces[p].port = s.ifaces[p].port

\* An error other than a failed rollback.
Plain(err) == err \notin {"ok", "rollbackFailed"}

\* Operations that keep the peers may follow each other.
LEMMA KeptTrans ==
  ASSUME NEW s, NEW t, NEW u, Kept(s, t), Kept(t, u)
  PROVE  Kept(s, u)
BY DEF Kept

\* Books that did not change keep the peers.
LEMMA SameKept ==
  ASSUME NEW s, NEW t, SameBooks(s, t)
  PROVE  Kept(s, t)
BY DEF Kept, SameBooks

\* An interface that had no peers may go.
LEMMA EmptyKept ==
  ASSUME NEW s, NEW t, NEW p \in Profiles, Touches(s, t, p), t.orphans = s.orphans,
         s.ifaces[p].peers = {}, t.ifaces[p].peers = {}
  PROVE  Kept(s, t)
BY DEF Kept, Touches

\* undoFailedAdd forgets the peer of the failed add and nothing else, or reports
\* a failed rollback.
LEMMA UndoEffect ==
  ASSUME NEW s, NEW p \in Tracked(s), NEW k \in Keys, NEW a \in Addrs, Sound(s),
         NEW o \in undoFailedAdd(s, p, k, a)
  PROVE  /\ o.err \in {"failed", "rollbackFailed"}
         /\ Touches(s, o.st, p)
         /\ o.err = "failed" => Kept(s, o.st)
<1> DEFINE i == s.ifaces[p]
<1>1. s \in States /\ p \in Profiles /\ i.name \in Nat /\ i \in Iface /\ GoodIface(i)
  BY TrackedName DEF Sound
<1>2. PICK c \in cleanupPeerAfterFailedAdd(s, i.name, k, a) :
        o \in IF i.count = 0
                THEN {IF d.err = "ok" THEN Outcome(d.st, "failed")
                      ELSE Outcome(IF c.removed THEN d.st ELSE trackPeer(d.st, p, k),
                                   "rollbackFailed") :
                        d \in destroyTrackedInterface(c.st, p)}
                ELSE {Outcome(IF c.removed THEN c.st ELSE trackPeer(c.st, p, k),
                              rollbackFailure("failed", c.err))}
  BY DEF undoFailedAdd
<1>3. /\ SameBooks(s, c.st) /\ (c.err = "ok" => c.removed)
      /\ Sound(c.st) /\ Tracked(c.st) = Tracked(s)
  <2>1. PeerStep(s, c.st, i.name, k) /\ (c.err = "ok" => c.removed)
    BY <1>1, CleanupStep
  <2> QED BY <2>1, PeerStepSame, SameSound
<1>4. Touches(s, c.st, p) /\ Kept(s, c.st) /\ c.st.ifaces[p] = i
  BY <1>3, SameTouches, SameKept DEF SameBooks
<1>5. CASE i.count # 0
  <2>1. o = Outcome(IF c.removed THEN c.st ELSE trackPeer(c.st, p, k),
                    rollbackFailure("failed", c.err))
    BY <1>2, <1>5
  <2>2. CASE c.removed
    BY <1>4, <2>1, <2>2 DEF Outcome, rollbackFailure
  <2>3. CASE ~c.removed
    <3>1. o.st = trackPeer(c.st, p, k) /\ o.err = "rollbackFailed"
      BY <1>3, <2>1, <2>3 DEF Outcome, rollbackFailure
    <3>2. Touches(c.st, o.st, p)
      BY <1>3, <3>1, TrackEffect
    <3> QED BY <1>4, <3>1, <3>2, TouchesTrans
  <2> QED BY <2>2, <2>3
<1>6. CASE i.count = 0
  <2>1. PICK d \in destroyTrackedInterface(c.st, p) :
          o = IF d.err = "ok" THEN Outcome(d.st, "failed")
              ELSE Outcome(IF c.removed THEN d.st ELSE trackPeer(d.st, p, k), "rollbackFailed")
    BY <1>2, <1>6
  <2>2. /\ d.err = "ok" => /\ Touches(c.st, d.st, p) /\ d.st.ifaces[p] = NoIface
                           /\ d.st.orphans = c.st.orphans
        /\ d.err # "ok" => SameBooks(c.st, d.st)
    BY <1>1, <1>3, DestroyEffect
  <2>3. CASE d.err = "ok"
    <3>1. o.st = d.st /\ o.err = "failed"
      BY <2>1, <2>3 DEF Outcome
    <3>2. i.peers = {} /\ d.st.ifaces[p].peers = {}
      BY <1>1, <1>6, <2>2, <2>3, GoodIfaceFacts DEF NoIface
    <3>3. Kept(c.st, d.st)
      BY <1>1, <1>4, <2>2, <2>3, <3>2, EmptyKept
    <3> QED BY <1>4, <2>2, <2>3, <3>1, <3>3, TouchesTrans, KeptTrans
  <2>4. CASE d.err # "ok"
    <3>1. /\ o.st = IF c.removed THEN d.st ELSE trackPeer(d.st, p, k)
          /\ o.err = "rollbackFailed"
      BY <2>1, <2>4 DEF Outcome
    <3>2. Sound(d.st) /\ Tracked(d.st) = Tracked(s) /\ Touches(s, d.st, p)
      BY <1>3, <1>4, <2>2, <2>4, SameSound, SameTouches, TouchesTrans
    <3>3. Touches(d.st, o.st, p)
      BY <3>1, <3>2, TrackEffect, SameTouches, SameBooksRefl DEF Sound
    <3> QED BY <3>1, <3>2, <3>3, TouchesTrans
  <2> QED BY <2>3, <2>4
<1> QED BY <1>5, <1>6

\* addPeerLocked adds one peer to one interface, or changes nothing, or reports
\* a failed rollback.
LEMMA AddLockedEffect ==
  ASSUME NEW s, NEW p \in Tracked(s), NEW k \in Keys, NEW a \in Addrs, Sound(s),
         NEW o \in addPeerLocked(s, p, k, a)
  PROVE  /\ o.err \in {"ok", "failed", "rollbackFailed"}
         /\ Touches(s, o.st, p)
         /\ o.err = "ok" => /\ o.st.orphans = s.orphans /\ Tracked(o.st) = Tracked(s)
                            /\ o.st.ifaces[p].peers = s.ifaces[p].peers \cup {k}
                            /\ o.st.ifaces[p].port = s.ifaces[p].port
         /\ o.err = "failed" => Kept(s, o.st)
<1> DEFINE n == s.ifaces[p].name
<1>1. s \in States /\ p \in Profiles /\ n \in Nat
  BY TrackedName DEF Sound
<1>2. PICK x \in Catch(addPeerToInterface(s, n, k, a), LAMBDA y : undoFailedAdd(y.st, p, k, a)) :
        o \in IF x.err = "ok" THEN {Done(trackPeer(x.st, p, k))} ELSE {x}
  BY DEF addPeerLocked, Then
<1>3. PICK y \in addPeerToInterface(s, n, k, a) :
        x \in IF y.err = "ok" THEN {y} ELSE undoFailedAdd(y.st, p, k, a)
  BY <1>2 DEF Catch
<1>4. /\ SameBooks(s, y.st) /\ Sound(y.st) /\ Tracked(y.st) = Tracked(s)
      /\ Touches(s, y.st, p) /\ Kept(s, y.st)
  BY <1>1, AddToInterfaceStep, PeerStepSame, SameSound, SameTouches, SameKept
<1>5. CASE y.err # "ok"
  <2>1. /\ x.err \in {"failed", "rollbackFailed"} /\ Touches(y.st, x.st, p)
        /\ x.err = "failed" => Kept(y.st, x.st)
    BY <1>3, <1>4, <1>5, UndoEffect
  <2>2. o = x
    BY <1>2, <2>1
  <2> QED BY <1>4, <2>1, <2>2, TouchesTrans, KeptTrans
<1>6. CASE y.err = "ok"
  <2>1. o.st = trackPeer(y.st, p, k) /\ o.err = "ok"
    BY <1>2, <1>3, <1>6 DEF Done, Outcome
  <2>2. /\ Touches(y.st, o.st, p) /\ o.st.orphans = y.st.orphans /\ Tracked(o.st) = Tracked(y.st)
        /\ o.st.ifaces[p].peers = y.st.ifaces[p].peers \cup {k}
        /\ o.st.ifaces[p].port = y.st.ifaces[p].port
    BY <1>4, <2>1, TrackEffect
  <2> QED BY <1>4, <2>1, <2>2, TouchesTrans DEF SameBooks
<1> QED BY <1>5, <1>6

\* AddPeer gives the profile one more peer, on the requested port; a plain error
\* keeps every peer.
LEMMA AddPeerEffect ==
  ASSUME NEW s, NEW p \in Profiles, NEW req \in Nat, NEW k \in Keys, NEW a \in Addrs, Sound(s),
         NEW o \in AddPeer(s, p, req, k, a)
  PROVE  /\ o.err \in Errors
         /\ Touches(s, o.st, p)
         /\ o.err = "ok" => /\ o.st.orphans = s.orphans /\ p \in Tracked(o.st)
                            /\ o.st.ifaces[p].peers = s.ifaces[p].peers \cup {k}
                            /\ req # 0 => o.st.ifaces[p].port = req
         /\ Plain(o.err) => Kept(s, o.st)
<1>1. PICK t \in getOrCreateInterface(s, p, req) :
        o \in IF t.err = "ok" THEN addPeerLocked(t.st, p, k, a) ELSE {t}
  BY DEF AddPeer, Then
<1>2. /\ t.err \in Errors
      /\ Touches(s, t.st, p)
      /\ t.err = "ok" => /\ p \in Tracked(t.st) /\ t.st.orphans = s.orphans
                         /\ t.st.ifaces[p].peers = s.ifaces[p].peers
                         /\ req # 0 => t.st.ifaces[p].port = req
                         /\ p \in Tracked(s) => t.st = s
      /\ Plain(t.err) => SameBooks(s, t.st)
  BY GetOrCreateEffect DEF Plain
<1>3. CASE t.err # "ok"
  BY <1>1, <1>2, <1>3, SameKept
<1>4. CASE t.err = "ok"
  <2>1. o \in addPeerLocked(t.st, p, k, a) /\ Sound(t.st)
    BY <1>1, <1>2, <1>4 DEF Touches
  <2>2. /\ o.err \in {"ok", "failed", "rollbackFailed"}
        /\ Touches(t.st, o.st, p)
        /\ o.err = "ok" => /\ o.st.orphans = t.st.orphans /\ Tracked(o.st) = Tracked(t.st)
                           /\ o.st.ifaces[p].peers = t.st.ifaces[p].peers \cup {k}
                           /\ o.st.ifaces[p].port = t.st.ifaces[p].port
        /\ o.err = "failed" => Kept(t.st, o.st)
    BY <1>2, <1>4, <2>1, AddLockedEffect
  <2>3. Kept(s, t.st)
    <3>1. CASE p \in Tracked(s)
      BY <1>2, <1>4, <3>1, SameBooksRefl, SameKept DEF Sound
    <3>2. CASE p \notin Tracked(s)
      <4>1. s.ifaces[p] = NoIface
        BY <3>2 DEF Sound, GoodIface, Tracked
      <4>2. s.ifaces[p].peers = {}
        BY <4>1 DEF NoIface
      <4> QED BY <1>2, <1>4, <4>2, EmptyKept
    <3> QED BY <3>1, <3>2
  <2> QED BY <1>2, <1>4, <2>2, <2>3, TouchesTrans, KeptTrans DEF Errors, Plain
<1> QED BY <1>3, <1>4

\* destroyOrRestore, called when k was the last peer of p, destroys the
\* interface, or puts k back.
LEMMA DestroyOrRestoreEffect ==
  ASSUME NEW s, NEW p \in Tracked(s), NEW k \in Keys, NEW a \in Addrs, Sound(s),
         NEW o \in destroyOrRestore(s, p, k, a)
  PROVE  /\ o.err \in {"ok", "failed", "rollbackFailed"}
         /\ Touches(s, o.st, p) /\ o.st.orphans = s.orphans
         /\ o.err = "ok" => o.st.ifaces[p] = NoIface
         /\ o.err # "ok" => /\ o.st.ifaces[p].peers = s.ifaces[p].peers \cup {k}
                            /\ o.st.ifaces[p].port = s.ifaces[p].port
<1> DEFINE n == s.ifaces[p].name
<1>1. s \in States /\ p \in Profiles /\ n \in Nat
  BY TrackedName DEF Sound
<1>2. PICK d \in destroyTrackedInterface(s, p) :
        o \in IF d.err = "ok" THEN {d}
              ELSE {Outcome(trackPeer(r.st, p, k), rollbackFailure("failed", r.err)) :
                      r \in restorePeerAndRoute(d.st, n, k, a)}
  BY DEF destroyOrRestore, Catch
<1>3. /\ d.err \in {"ok", "failed"}
      /\ d.err = "ok" => /\ Touches(s, d.st, p) /\ d.st.ifaces[p] = NoIface
                         /\ d.st.orphans = s.orphans
      /\ d.err # "ok" => SameBooks(s, d.st)
  BY <1>1, DestroyEffect
<1>4. CASE d.err = "ok"
  BY <1>2, <1>3, <1>4
<1>5. CASE d.err # "ok"
  <2>1. PICK r \in restorePeerAndRoute(d.st, n, k, a) :
          o = Outcome(trackPeer(r.st, p, k), rollbackFailure("failed", r.err))
    BY <1>2, <1>5
  <2>2. SameBooks(s, d.st) /\ d.st \in States
    BY <1>3, <1>5 DEF SameBooks
  <2>3. PeerStep(d.st, r.st, n, k)
    BY <1>1, <2>2, RestoreStep
  <2>4. /\ SameBooks(s, r.st) /\ Sound(r.st) /\ Tracked(r.st) = Tracked(s)
        /\ Touches(s, r.st, p)
    BY <2>2, <2>3, PeerStepSame, SameBooksTrans, SameSound, SameTouches
  <2>5. o.st = trackPeer(r.st, p, k) /\ o.err \in {"failed", "rollbackFailed"}
    BY <2>1 DEF Outcome, rollbackFailure
  <2>6. /\ Touches(r.st, o.st, p) /\ o.st.orphans = r.st.orphans
        /\ o.st.ifaces[p].peers = r.st.ifaces[p].peers \cup {k}
        /\ o.st.ifaces[p].port = r.st.ifaces[p].port
    BY <2>4, <2>5, TrackEffect
  <2> QED BY <2>4, <2>5, <2>6, TouchesTrans DEF SameBooks
<1> QED BY <1>4, <1>5

\* RemovePeer takes one peer from one profile, or keeps every peer, or reports a
\* failed rollback.
LEMMA RemovePeerEffect ==
  ASSUME NEW s, NEW p \in Profiles, NEW k \in Keys, NEW a \in Addrs, Sound(s),
         NEW o \in RemovePeer(s, p, k, a)
  PROVE  /\ o.err \in Errors
         /\ Touches(s, o.st, p) /\ o.st.orphans = s.orphans
         /\ o.err = "ok" => o.st.ifaces[p].peers = s.ifaces[p].peers \ {k}
         /\ Plain(o.err) => Kept(s, o.st)
<1> DEFINE n == s.ifaces[p].name
<1>0. s \in States /\ SameBooks(s, s) /\ Touches(s, s, p) /\ Kept(s, s)
  BY SameBooksRefl, SameTouches, SameKept DEF Sound
<1>1. CASE ~HasPeer(s, p, k)
  <2>1. o = Outcome(s, "refused")
    BY <1>1 DEF RemovePeer
  <2>2. o.st = s /\ o.err = "refused"
    BY <2>1 DEF Outcome
  <2> QED BY <1>0, <2>2 DEF Errors
<1>2. CASE HasPeer(s, p, k)
  <2>1. p \in Tracked(s) /\ k \in s.ifaces[p].peers /\ n \in Nat
    BY <1>0, <1>2, TrackedName DEF HasPeer
  <2>2. PICK t \in removePeerFromInterface(s, n, k, a) :
          o \in IF t.err = "ok"
                  THEN IF untrackPeer(t.st, p, k).ifaces[p].count = 0
                         THEN destroyOrRestore(untrackPeer(t.st, p, k), p, k, a)
                         ELSE {Done(untrackPeer(t.st, p, k))}
                  ELSE {t}
    BY <1>2 DEF RemovePeer, Then
  <2>3. PeerStep(s, t.st, n, k) /\ t.err \in {"ok", "failed"}
    BY <1>0, <2>1, RemoveFromInterfaceStep
  <2>4. /\ SameBooks(s, t.st) /\ Sound(t.st) /\ Tracked(t.st) = Tracked(s)
        /\ Touches(s, t.st, p) /\ Kept(s, t.st)
    BY <2>3, PeerStepSame, SameSound, SameTouches, SameKept
  <2>5. CASE t.err # "ok"
    BY <2>2, <2>3, <2>4, <2>5 DEF Errors, SameBooks
  <2>6. CASE t.err = "ok"
    <3> DEFINE u == untrackPeer(t.st, p, k)
    <3>1. /\ Touches(t.st, u, p) /\ u.orphans = t.st.orphans /\ Tracked(u) = Tracked(t.st)
          /\ u.ifaces[p].peers = t.st.ifaces[p].peers \ {k}
          /\ u.ifaces[p].port = t.st.ifaces[p].port
      BY <2>1, <2>4, UntrackEffect
    <3>2. /\ Touches(s, u, p) /\ u.orphans = s.orphans /\ p \in Tracked(u) /\ Sound(u)
          /\ u.ifaces[p].peers = s.ifaces[p].peers \ {k}
          /\ u.ifaces[p].port = s.ifaces[p].port
      BY <2>1, <2>4, <3>1, TouchesTrans DEF SameBooks, Touches
    <3>3. o \in IF u.ifaces[p].count = 0 THEN destroyOrRestore(u, p, k, a) ELSE {Done(u)}
      BY <2>2, <2>6
    <3>4. u.ifaces[p].count = 0 <=> u.ifaces[p].peers = {}
      BY <3>2, TrackedName, GoodIfaceFacts DEF Sound
    <3> HIDE DEF u
    <3>5. CASE u.ifaces[p].count # 0
      BY <3>2, <3>3, <3>5 DEF Done, Outcome, Errors, Plain
    <3>6. CASE u.ifaces[p].count = 0
      <4>1. /\ o.err \in {"ok", "failed", "rollbackFailed"}
            /\ Touches(u, o.st, p) /\ o.st.orphans = u.orphans
            /\ o.err = "ok" => o.st.ifaces[p] = NoIface
            /\ o.err # "ok" => /\ o.st.ifaces[p].peers = u.ifaces[p].peers \cup {k}
                               /\ o.st.ifaces[p].port = u.ifaces[p].port
        BY <3>2, <3>3, <3>6, DestroyOrRestoreEffect
      <4>2. Touches(s, o.st, p) /\ o.st.orphans = s.orphans
        BY <3>2, <4>1, TouchesTrans
      <4>3. CASE o.err = "ok"
        <5>1. o.st.ifaces[p].peers = {}
          BY <4>1, <4>3 DEF NoIface
        <5> QED BY <3>2, <3>4, <3>6, <4>2, <4>3, <5>1 DEF Errors, Plain
      <4>4. CASE o.err # "ok"
        <5>1. /\ o.st.ifaces[p].peers = s.ifaces[p].peers
              /\ o.st.ifaces[p].port = s.ifaces[p].port
          BY <2>1, <3>2, <4>1, <4>4
        <5>2. Kept(s, o.st)
          BY <4>2, <5>1 DEF Kept, Touches
        <5> QED BY <4>1, <4>2, <4>4, <5>2 DEF Errors
      <4> QED BY <4>3, <4>4
    <3> QED BY <3>5, <3>6
  <2> QED BY <2>5, <2>6
<1> QED BY <1>1, <1>2

-----------------------------------------------------------------------------
(***************************************************************************)
(* Migrating a peer, and closing the pool.                                 *)
(***************************************************************************)
\* The peers an operation on profiles p and q left alone are still theirs.
Touches2(s, t, p, q) ==
  /\ Sound(t)
  /\ Unruled(t) = Unruled(s)
  /\ \A r \in Profiles \ {p, q} : t.ifaces[r] = s.ifaces[r]

\* Steps on either profile make an operation on both.
LEMMA TouchesBoth ==
  ASSUME NEW s, NEW t, NEW u, NEW p, NEW q, Touches2(s, t, p, q),
         Touches(t, u, p) \/ Touches(t, u, q)
  PROVE  Touches2(s, u, p, q)
BY DEF Touches2, Touches

\* An operation on one profile is one on two.
LEMMA TouchesOne ==
  ASSUME NEW s, NEW t, NEW p, NEW q, Touches(s, t, p) \/ Touches(s, t, q)
  PROVE  Touches2(s, t, p, q)
BY DEF Touches2, Touches

\* The effect of a migration that succeeded: k left p and is on q.
Moved(s, t, p, q, k) ==
  IF p = q THEN t.ifaces[p].peers = s.ifaces[p].peers
  ELSE /\ t.ifaces[p].peers = s.ifaces[p].peers \ {k}
       /\ t.ifaces[q].peers = s.ifaces[q].peers \cup {k}

\* rollbackNewPeer takes the peer off the new interface, or says it could not.
LEMMA RollbackNewEffect ==
  ASSUME NEW s, NEW q \in Tracked(s), NEW k \in Keys, NEW a \in Addrs, Sound(s),
         NEW o \in rollbackNewPeer(s, q, k, a)
  PROVE  /\ o.err \in {"ok", "failed"}
         /\ Touches(s, o.st, q) /\ o.st.orphans = s.orphans
         /\ o.err = "ok" => /\ o.st.ifaces[q].peers = s.ifaces[q].peers \ {k}
                            /\ s.ifaces[q].peers \ {k} # {} =>
                                 o.st.ifaces[q].port = s.ifaces[q].port
<1> DEFINE n == s.ifaces[q].name
<1>0. /\ s \in States /\ q \in Profiles /\ n \in Nat
      /\ SameBooks(s, s) /\ Touches(s, s, q)
  BY TrackedName, SameBooksRefl, SameTouches DEF Sound
<1>1. CASE k \notin s.ifaces[q].peers
  <2>1. o = Outcome(s, "failed")
    BY <1>1 DEF rollbackNewPeer
  <2>2. o.st = s /\ o.err = "failed"
    BY <2>1 DEF Outcome
  <2> QED BY <1>0, <2>2
<1>2. CASE k \in s.ifaces[q].peers
  <2>2. PICK t \in removePeerFromInterface(s, n, k, a) :
          o \in IF t.err = "ok"
                  THEN IF untrackPeer(t.st, q, k).ifaces[q].count = 0
                         THEN destroyTrackedInterface(untrackPeer(t.st, q, k), q)
                         ELSE {Done(untrackPeer(t.st, q, k))}
                  ELSE {t}
    BY <1>2 DEF rollbackNewPeer, Then
  <2>3. PeerStep(s, t.st, n, k) /\ t.err \in {"ok", "failed"}
    BY <1>0, RemoveFromInterfaceStep
  <2>4. /\ SameBooks(s, t.st) /\ Sound(t.st) /\ Tracked(t.st) = Tracked(s)
        /\ Touches(s, t.st, q)
    BY <2>3, PeerStepSame, SameSound, SameTouches
  <2>5. CASE t.err # "ok"
    BY <2>2, <2>3, <2>4, <2>5 DEF SameBooks
  <2>6. CASE t.err = "ok"
    <3> DEFINE u == untrackPeer(t.st, q, k)
    <3>1. /\ Touches(t.st, u, q) /\ u.orphans = t.st.orphans /\ Tracked(u) = Tracked(t.st)
          /\ u.ifaces[q].peers = t.st.ifaces[q].peers \ {k}
          /\ u.ifaces[q].port = t.st.ifaces[q].port
      BY <2>4, UntrackEffect
    <3>2. /\ Touches(s, u, q) /\ u.orphans = s.orphans /\ q \in Tracked(u) /\ Sound(u)
          /\ u.ifaces[q].peers = s.ifaces[q].peers \ {k}
          /\ u.ifaces[q].port = s.ifaces[q].port
      BY <2>4, <3>1, TouchesTrans DEF SameBooks, Touches
    <3>3. o \in IF u.ifaces[q].count = 0 THEN destroyTrackedInterface(u, q) ELSE {Done(u)}
      BY <2>2, <2>6
    <3>4. u.ifaces[q].count = 0 <=> u.ifaces[q].peers = {}
      BY <3>2, TrackedName, GoodIfaceFacts DEF Sound
    <3> HIDE DEF u
    <3>5. CASE u.ifaces[q].count # 0
      BY <3>2, <3>3, <3>5 DEF Done, Outcome
    <3>6. CASE u.ifaces[q].count = 0
      <4>1. /\ o.err \in {"ok", "failed"}
            /\ o.err = "ok" => /\ Touches(u, o.st, q) /\ o.st.ifaces[q] = NoIface
                               /\ o.st.orphans = u.orphans
            /\ o.err # "ok" => SameBooks(u, o.st)
        BY <1>0, <3>2, <3>3, <3>6, DestroyEffect
      <4>2. Touches(u, o.st, q) /\ o.st.orphans = u.orphans
        BY <3>2, <4>1, SameTouches DEF SameBooks
      <4>3. Touches(s, o.st, q) /\ o.st.orphans = s.orphans
        BY <3>2, <4>2, TouchesTrans
      <4>4. o.err = "ok" => o.st.ifaces[q].peers = {}
        BY <4>1 DEF NoIface
      <4> QED BY <3>2, <3>4, <3>6, <4>1, <4>3, <4>4
    <3> QED BY <3>5, <3>6
  <2> QED BY <2>5, <2>6
<1> QED BY <1>1, <1>2

\* rollbackSharedMigration takes the peer off the new interface and touches no
\* other book.
LEMMA RollbackSharedEffect ==
  ASSUME NEW s, NEW p \in Tracked(s), NEW q \in Tracked(s), p # q,
         NEW k \in Keys, NEW a \in Addrs, Sound(s),
         NEW o \in rollbackSharedMigration(s, p, q, k, a)
  PROVE  /\ o.err \in {"ok", "failed"}
         /\ Touches(s, o.st, q) /\ o.st.orphans = s.orphans
         /\ o.err = "ok" => /\ o.st.ifaces[q].peers = s.ifaces[q].peers \ {k}
                            /\ s.ifaces[q].peers \ {k} # {} =>
                                 o.st.ifaces[q].port = s.ifaces[q].port
<1> DEFINE n == s.ifaces[p].name
<1>1. PICK x \in rollbackNewPeer(s, q, k, a) :
        \E r \in restorePeerAndRoute(x.st, n, k, a) :
          o = Outcome(r.st, IF x.err = "ok" THEN r.err ELSE x.err)
  BY DEF rollbackSharedMigration
<1>2. PICK r \in restorePeerAndRoute(x.st, n, k, a) :
        o = Outcome(r.st, IF x.err = "ok" THEN r.err ELSE x.err)
  BY <1>1
<1>3. /\ x.err \in {"ok", "failed"}
      /\ Touches(s, x.st, q) /\ x.st.orphans = s.orphans
      /\ x.err = "ok" => /\ x.st.ifaces[q].peers = s.ifaces[q].peers \ {k}
                         /\ s.ifaces[q].peers \ {k} # {} =>
                              x.st.ifaces[q].port = s.ifaces[q].port
  BY RollbackNewEffect
<1>4. n \in Nat /\ x.st \in States /\ Sound(x.st)
  BY <1>3, TrackedName DEF Sound, Touches
<1>5. PeerStep(x.st, r.st, n, k) /\ r.err \in {"ok", "failed"}
  BY <1>4, RestoreStep
<1>6. SameBooks(x.st, r.st) /\ Touches(x.st, r.st, q)
  BY <1>4, <1>5, PeerStepSame, SameTouches
<1>7. o.st = r.st /\ o.err = (IF x.err = "ok" THEN r.err ELSE x.err)
  BY <1>2 DEF Outcome
<1> QED BY <1>3, <1>5, <1>6, <1>7, TouchesTrans DEF SameBooks

\* Without an error getOrCreateInterface keeps every peer.
LEMMA GetOrCreateKept ==
  ASSUME NEW s, NEW p \in Profiles, NEW req \in Nat, Sound(s),
         NEW o \in getOrCreateInterface(s, p, req), o.err = "ok"
  PROVE  Kept(s, o.st)
<1>1. /\ Touches(s, o.st, p) /\ o.st.orphans = s.orphans
      /\ o.st.ifaces[p].peers = s.ifaces[p].peers
      /\ p \in Tracked(s) => o.st = s
  BY GetOrCreateEffect
<1>2. CASE p \in Tracked(s)
  BY <1>1, <1>2, SameBooksRefl, SameKept DEF Sound
<1>3. CASE p \notin Tracked(s)
  <2>1. s.ifaces[p] = NoIface
    BY <1>3 DEF Sound, GoodIface, Tracked
  <2>2. s.ifaces[p].peers = {}
    BY <2>1 DEF NoIface
  <2> QED BY <1>1, <2>2, EmptyKept
<1> QED BY <1>2, <1>3

\* The errors MigratePeer returns after its rollback.
LEMMA RollbackError ==
  ASSUME NEW err \in Errors, err # "ok", NEW rollbackErr
  PROVE  /\ rollbackFailure(err, rollbackErr) \in Errors \ {"ok"}
         /\ Plain(rollbackFailure(err, rollbackErr)) => Plain(err) /\ rollbackErr = "ok"
BY DEF rollbackFailure, Errors, Plain

\* migrateSolePeer moves the only peer of p to q; a plain error puts it back on
\* the port it had.
LEMMA MigrateSoleEffect ==
  ASSUME NEW s, NEW p \in Profiles, NEW q \in Profiles, NEW req \in Nat,
         NEW k \in Keys, NEW a \in Addrs, Sound(s), HasPeer(s, p, k), s.ifaces[p].count = 1,
         NEW o \in migrateSolePeer(s, p, q, req, k, a)
  PROVE  /\ o.err \in Errors
         /\ Touches2(s, o.st, p, q)
         /\ o.err = "ok" => o.st.orphans = s.orphans /\ Moved(s, o.st, p, q, k)
         /\ Plain(o.err) => Kept(s, o.st)
<1> DEFINE n == s.ifaces[p].name
           oldPort == s.ifaces[p].port
<1>1. /\ s \in States /\ p \in Tracked(s) /\ n \in Nat /\ oldPort \in Nat \ {0}
      /\ s.ifaces[p] \in Iface /\ GoodIface(s.ifaces[p])
  <2>1. s \in States /\ p \in Tracked(s) /\ GoodIface(s.ifaces[p])
    BY DEF Sound, HasPeer
  <2>2. n \in Nat /\ s.ifaces[p] \in Iface
    BY <2>1, TrackedName
  <2> QED BY <2>1, <2>2 DEF Iface, GoodIface, NoName
<1>2. s.ifaces[p].peers = {k}
  <2>1. k \in s.ifaces[p].peers /\ Cardinality(s.ifaces[p].peers) = 1
        /\ IsFiniteSet(s.ifaces[p].peers)
    BY <1>1 DEF HasPeer, GoodIface
  <2>2. \E x : s.ifaces[p].peers = {x}
    BY <2>1, FS_Singleton
  <2> QED BY <2>1, <2>2
<1>3. PICK t \in removePeerFromInterface(s, n, k, a) :
        o \in IF t.err = "ok"
                THEN Then(destroyOrRestore(untrackPeer(t.st, p, k), p, k, a),
                          LAMBDA u : Catch(AddPeer(u, q, req, k, a),
                                       LAMBDA x : {Outcome(r.st, rollbackFailure(x.err, r.err)) :
                                                     r \in AddPeer(x.st, p, oldPort, k, a)}))
                ELSE {t}
  BY DEF migrateSolePeer, Then
<1>4. PeerStep(s, t.st, n, k) /\ t.err \in {"ok", "failed"}
  BY <1>1, RemoveFromInterfaceStep
<1>5. /\ SameBooks(s, t.st) /\ Sound(t.st) /\ Tracked(t.st) = Tracked(s)
      /\ Touches(s, t.st, p) /\ Kept(s, t.st)
  BY <1>4, PeerStepSame, SameSound, SameTouches, SameKept
<1>6. CASE t.err # "ok"
  BY <1>3, <1>4, <1>5, <1>6, TouchesOne DEF Errors
<1>7. CASE t.err = "ok"
  <2> DEFINE u == untrackPeer(t.st, p, k)
  <2>1. /\ Touches(s, u, p) /\ u.orphans = s.orphans /\ p \in Tracked(u) /\ Sound(u)
        /\ u.ifaces[p].peers = {} /\ u.ifaces[p].port = oldPort
    <3>1. /\ Touches(t.st, u, p) /\ u.orphans = t.st.orphans /\ Tracked(u) = Tracked(t.st)
          /\ u.ifaces[p].peers = t.st.ifaces[p].peers \ {k}
          /\ u.ifaces[p].port = t.st.ifaces[p].port
      BY <1>1, <1>5, UntrackEffect
    <3> QED BY <1>1, <1>2, <1>5, <3>1, TouchesTrans DEF SameBooks, Touches
  <2>2. PICK v \in destroyOrRestore(u, p, k, a) :
          o \in IF v.err = "ok"
                  THEN Catch(AddPeer(v.st, q, req, k, a),
                             LAMBDA x : {Outcome(r.st, rollbackFailure(x.err, r.err)) :
                                           r \in AddPeer(x.st, p, oldPort, k, a)})
                  ELSE {v}
    BY <1>3, <1>7 DEF Then
  <2> HIDE DEF u
  <2>3. /\ v.err \in {"ok", "failed", "rollbackFailed"}
        /\ Touches(u, v.st, p) /\ v.st.orphans = u.orphans
        /\ v.err = "ok" => v.st.ifaces[p] = NoIface
        /\ v.err # "ok" => /\ v.st.ifaces[p].peers = u.ifaces[p].peers \cup {k}
                           /\ v.st.ifaces[p].port = u.ifaces[p].port
    BY <2>1, DestroyOrRestoreEffect
  <2>4. Touches(s, v.st, p) /\ Touches2(s, v.st, p, q) /\ v.st.orphans = s.orphans /\ Sound(v.st)
    BY <2>1, <2>3, TouchesTrans, TouchesOne DEF Touches
  <2>5. CASE v.err # "ok"
    <3>1. Kept(s, v.st)
      BY <1>2, <2>1, <2>3, <2>4, <2>5 DEF Kept, Touches
    <3> QED BY <2>2, <2>3, <2>4, <2>5, <3>1 DEF Errors
  <2>6. CASE v.err = "ok"
    <3>1. v.st.ifaces[p].peers = {}
      BY <2>3, <2>6 DEF NoIface
    <3>2. PICK x \in AddPeer(v.st, q, req, k, a) :
            o \in IF x.err = "ok" THEN {x}
                  ELSE {Outcome(r.st, rollbackFailure(x.err, r.err)) :
                          r \in AddPeer(x.st, p, oldPort, k, a)}
      BY <2>2, <2>6 DEF Catch
    <3>3. /\ x.err \in Errors
          /\ Touches(v.st, x.st, q)
          /\ x.err = "ok" => /\ x.st.orphans = v.st.orphans
                             /\ x.st.ifaces[q].peers = v.st.ifaces[q].peers \cup {k}
          /\ Plain(x.err) => Kept(v.st, x.st)
      BY <2>4, AddPeerEffect
    <3>4. Touches2(s, x.st, p, q) /\ Sound(x.st)
      BY <2>4, <3>3, TouchesBoth DEF Touches
    <3>5. CASE x.err = "ok"
      <4>1. Moved(s, x.st, p, q, k)
        BY <1>2, <2>4, <3>1, <3>3, <3>5 DEF Moved, Touches
      <4> QED BY <2>4, <3>2, <3>3, <3>4, <3>5, <4>1 DEF Plain
    <3>6. CASE x.err # "ok"
      <4>1. PICK r \in AddPeer(x.st, p, oldPort, k, a) :
              o = Outcome(r.st, rollbackFailure(x.err, r.err))
        BY <3>2, <3>6
      <4>2. /\ Touches(x.st, r.st, p)
            /\ r.err = "ok" => /\ r.st.orphans = x.st.orphans
                               /\ r.st.ifaces[p].peers = x.st.ifaces[p].peers \cup {k}
                               /\ oldPort # 0 => r.st.ifaces[p].port = oldPort
        BY <1>1, <3>4, AddPeerEffect
      <4>3. Touches2(s, r.st, p, q)
        BY <3>4, <4>2, TouchesBoth
      <4>4. o.st = r.st /\ o.err = rollbackFailure(x.err, r.err)
        BY <4>1 DEF Outcome
      <4>5. o.err \in Errors \ {"ok"} /\ (Plain(o.err) => Plain(x.err) /\ r.err = "ok")
        BY <3>3, <3>6, <4>4, RollbackError
      <4>6. ASSUME Plain(o.err) PROVE Kept(s, r.st)
        <5>1. Kept(v.st, x.st) /\ r.err = "ok"
          BY <3>3, <4>5, <4>6
        <5>2. r.st.orphans = s.orphans
          BY <2>4, <4>2, <5>1 DEF Kept
        <5>3. r.st.ifaces[p].peers = s.ifaces[p].peers /\ r.st.ifaces[p].port = oldPort
          BY <1>1, <1>2, <3>1, <4>2, <5>1 DEF Kept
        <5>4. ASSUME NEW z \in Profiles, z # p
              PROVE  /\ r.st.ifaces[z].peers = s.ifaces[z].peers
                     /\ s.ifaces[z].peers # {} => r.st.ifaces[z].port = s.ifaces[z].port
          BY <2>4, <4>2, <5>1, <5>4 DEF Kept, Touches
        <5> QED BY <5>2, <5>3, <5>4 DEF Kept
      <4> QED BY <4>3, <4>4, <4>5, <4>6
    <3> QED BY <3>5, <3>6
  <2> QED BY <2>5, <2>6
<1> QED BY <1>6, <1>7

\* migrateSharedPeer moves one of several peers of p to q; a plain error keeps
\* every peer, unless k was on q before.
LEMMA MigrateSharedEffect ==
  ASSUME NEW s, NEW p \in Profiles, NEW q \in Profiles, p # q, NEW req \in Nat,
         NEW k \in Keys, NEW a \in Addrs, Sound(s), p \in Tracked(s),
         NEW o \in migrateSharedPeer(s, p, q, req, k, a)
  PROVE  /\ o.err \in Errors
         /\ Touches2(s, o.st, p, q)
         /\ o.err = "ok" => o.st.orphans = s.orphans /\ Moved(s, o.st, p, q, k)
         /\ Plain(o.err) => /\ o.st.orphans = s.orphans
                            /\ k \notin s.ifaces[q].peers => Kept(s, o.st)
<1> DEFINE n == s.ifaces[p].name
<1>1. s \in States /\ n \in Nat
  BY TrackedName DEF Sound
<1>2. PICK t \in getOrCreateInterface(s, q, req) :
        o \in IF t.err = "ok"
                THEN Then(Catch(addPeerLocked(t.st, q, k, a),
                                LAMBDA e : {Outcome(b.st, rollbackFailure(e.err, b.err)) :
                                              b \in replacePeerRoute(e.st, n, a)}),
                     LAMBDA u : Then(Catch(removePeerOnlyFromInterface(u, n, k),
                                LAMBDA e : {Outcome(b.st, rollbackFailure(e.err, b.err)) :
                                              b \in rollbackSharedMigration(e.st, p, q, k, a)}),
                     LAMBDA v : {Done(untrackPeer(v, p, k))}))
                ELSE {t}
  BY DEF migrateSharedPeer, Then
<1>3. /\ t.err \in Errors
      /\ Touches(s, t.st, q) /\ Sound(t.st) /\ t.st \in States
      /\ t.err = "ok" => /\ q \in Tracked(t.st) /\ t.st.orphans = s.orphans
                         /\ t.st.ifaces[q].peers = s.ifaces[q].peers
      /\ Plain(t.err) => SameBooks(s, t.st)
  BY GetOrCreateEffect DEF Plain, Touches, Sound
<1>4. CASE t.err # "ok"
  BY <1>2, <1>3, <1>4, SameKept, TouchesOne DEF SameBooks
<1>5. CASE t.err = "ok"
  <2>0. Kept(s, t.st) /\ Touches2(s, t.st, p, q) /\ p \in Tracked(t.st) /\ t.st.ifaces[p] = s.ifaces[p]
    BY <1>3, <1>5, GetOrCreateKept, TouchesOne DEF Touches, Tracked
  <2>1. \E u \in Catch(addPeerLocked(t.st, q, k, a),
                         LAMBDA e : {Outcome(b.st, rollbackFailure(e.err, b.err)) :
                                       b \in replacePeerRoute(e.st, n, a)}) :
          o \in IF u.err = "ok"
                  THEN Then(Catch(removePeerOnlyFromInterface(u.st, n, k),
                                  LAMBDA e : {Outcome(b.st, rollbackFailure(e.err, b.err)) :
                                                b \in rollbackSharedMigration(e.st, p, q, k, a)}),
                            LAMBDA v : {Done(untrackPeer(v, p, k))})
                  ELSE {u}
    BY <1>2, <1>5 DEF Then
  <2>2. PICK u, y :
          /\ y \in addPeerLocked(t.st, q, k, a)
          /\ u \in IF y.err = "ok" THEN {y}
                   ELSE {Outcome(r.st, rollbackFailure(y.err, r.err)) :
                           r \in replacePeerRoute(y.st, n, a)}
          /\ o \in IF u.err = "ok"
                     THEN Then(Catch(removePeerOnlyFromInterface(u.st, n, k),
                                     LAMBDA e : {Outcome(b.st, rollbackFailure(e.err, b.err)) :
                                                   b \in rollbackSharedMigration(e.st, p, q, k, a)}),
                               LAMBDA v : {Done(untrackPeer(v, p, k))})
                     ELSE {u}
    BY <2>1 DEF Catch
  <2>3. /\ y.err \in {"ok", "failed", "rollbackFailed"} /\ y.err \in Errors
        /\ Touches(t.st, y.st, q) /\ Sound(y.st) /\ y.st \in States
        /\ y.err = "ok" => /\ y.st.orphans = t.st.orphans /\ Tracked(y.st) = Tracked(t.st)
                           /\ y.st.ifaces[q].peers = t.st.ifaces[q].peers \cup {k}
                           /\ y.st.ifaces[q].port = t.st.ifaces[q].port
        /\ y.err = "failed" => Kept(t.st, y.st)
    <3>1. y \in addPeerLocked(t.st, q, k, a)
      BY <2>2
    <3> QED BY <1>3, <1>5, <3>1, AddLockedEffect DEF Touches, Sound, Errors
  <2>4. Touches2(s, y.st, p, q) /\ y.st.ifaces[p] = s.ifaces[p]
    BY <2>0, <2>3, TouchesBoth DEF Touches
  <2>5. CASE y.err # "ok"
    <3>1. PICK r \in replacePeerRoute(y.st, n, a) :
            u = Outcome(r.st, rollbackFailure(y.err, r.err))
      BY <2>2, <2>5
    <3>2. u.st = r.st /\ u.err = rollbackFailure(y.err, r.err)
      BY <3>1 DEF Outcome
    <3>3. PeerStep(y.st, r.st, n, k)
      BY <1>1, <2>3, ReplaceRouteStep
    <3>4. SameBooks(y.st, r.st) /\ Kept(y.st, r.st) /\ Touches(y.st, r.st, q)
      BY <2>3, <3>3, PeerStepSame, SameKept, SameTouches
    <3>5. u.err \in Errors \ {"ok"} /\ (Plain(u.err) => Plain(y.err))
      BY <2>3, <2>5, <3>2, RollbackError
    <3>6. o = u
      BY <2>2, <3>5
    <3>7. Plain(u.err) => Kept(s, r.st)
      BY <2>0, <2>3, <2>5, <3>4, <3>5, KeptTrans DEF Plain
    <3>8. Touches2(s, r.st, p, q)
      BY <2>4, <3>4, TouchesBoth
    <3> QED BY <3>2, <3>5, <3>6, <3>7, <3>8 DEF Kept
  <2>6. CASE y.err = "ok"
    <3>1. \E v \in Catch(removePeerOnlyFromInterface(y.st, n, k),
                           LAMBDA e : {Outcome(b.st, rollbackFailure(e.err, b.err)) :
                                         b \in rollbackSharedMigration(e.st, p, q, k, a)}) :
            o \in IF v.err = "ok" THEN {Done(untrackPeer(v.st, p, k))} ELSE {v}
      BY <2>2, <2>6 DEF Then
    <3>2. PICK v, z :
            /\ z \in removePeerOnlyFromInterface(y.st, n, k)
            /\ v \in IF z.err = "ok" THEN {z}
                     ELSE {Outcome(r.st, rollbackFailure(z.err, r.err)) :
                             r \in rollbackSharedMigration(z.st, p, q, k, a)}
            /\ o \in IF v.err = "ok" THEN {Done(untrackPeer(v.st, p, k))} ELSE {v}
      BY <3>1 DEF Catch
    <3>3. PeerStep(y.st, z.st, n, k) /\ z.err \in {"ok", "failed"}
      BY <1>1, <2>3, <3>2, RemovePeerOnlyStep
    <3>4. /\ SameBooks(y.st, z.st) /\ Touches(y.st, z.st, q) /\ Sound(z.st)
          /\ Tracked(z.st) = Tracked(y.st)
      BY <2>3, <3>3, PeerStepSame, SameTouches, SameSound
    <3>5. /\ Touches2(s, z.st, p, q) /\ z.st.orphans = s.orphans
          /\ p \in Tracked(z.st) /\ q \in Tracked(z.st)
          /\ z.st.ifaces[p] = s.ifaces[p]
          /\ z.st.ifaces[q].peers = s.ifaces[q].peers \cup {k}
          /\ z.st.ifaces[q].port = t.st.ifaces[q].port
      BY <1>3, <1>5, <2>0, <2>3, <2>4, <2>6, <3>4, TouchesBoth DEF SameBooks
    <3>6. CASE z.err = "ok"
      <4>1. o.st = untrackPeer(z.st, p, k) /\ o.err = "ok"
        BY <3>2, <3>6 DEF Done, Outcome
      <4>2. /\ Touches(z.st, o.st, p) /\ o.st.orphans = z.st.orphans
            /\ o.st.ifaces[p].peers = z.st.ifaces[p].peers \ {k}
        BY <3>4, <3>5, <4>1, UntrackEffect
      <4>3. Touches2(s, o.st, p, q)
        BY <3>5, <4>2, TouchesBoth
      <4>4. Moved(s, o.st, p, q, k)
        BY <3>5, <4>2 DEF Moved, Touches
      <4> QED BY <3>5, <4>1, <4>2, <4>3, <4>4 DEF Errors, Plain
    <3>7. CASE z.err # "ok"
      <4>1. PICK r \in rollbackSharedMigration(z.st, p, q, k, a) :
              v = Outcome(r.st, rollbackFailure(z.err, r.err))
        BY <3>2, <3>7
      <4>2. v.st = r.st /\ v.err = rollbackFailure(z.err, r.err)
        BY <4>1 DEF Outcome
      <4>3. z.err \in Errors
        BY <3>3 DEF Errors
      <4>4. v.err \in Errors \ {"ok"} /\ (Plain(v.err) => r.err = "ok")
        BY <3>7, <4>2, <4>3, RollbackError
      <4>5. o = v
        BY <3>2, <4>4
      <4>6. /\ Touches(z.st, r.st, q) /\ r.st.orphans = z.st.orphans
            /\ r.err = "ok" => /\ r.st.ifaces[q].peers = z.st.ifaces[q].peers \ {k}
                               /\ z.st.ifaces[q].peers \ {k} # {} =>
                                    r.st.ifaces[q].port = z.st.ifaces[q].port
        BY <3>4, <3>5, RollbackSharedEffect
      <4>7. Touches2(s, r.st, p, q)
        BY <3>5, <4>6, TouchesBoth
      <4>8. ASSUME Plain(v.err), k \notin s.ifaces[q].peers PROVE Kept(s, r.st)
        <5>1. r.st.ifaces[q].peers = s.ifaces[q].peers
          BY <3>5, <4>4, <4>6, <4>8
        <5>2. s.ifaces[q].peers # {} => r.st.ifaces[q].port = s.ifaces[q].port
          BY <2>0, <3>5, <4>4, <4>6, <4>8 DEF Kept
        <5>3. \A x \in Profiles : x # q => r.st.ifaces[x] = s.ifaces[x]
          BY <3>5, <4>6, <4>7 DEF Touches2, Touches
        <5> QED BY <3>5, <4>6, <5>1, <5>2, <5>3 DEF Kept
      <4> QED BY <3>5, <4>2, <4>4, <4>5, <4>6, <4>7, <4>8
    <3> QED BY <3>6, <3>7
  <2> QED BY <2>5, <2>6
<1> QED BY <1>4, <1>5

\* MigratePeer moves one peer; a plain error keeps every peer, unless the key was
\* on the new profile as well.
LEMMA MigrateEffect ==
  ASSUME NEW s, NEW p \in Profiles, NEW oldReq, NEW q \in Profiles, NEW req \in Nat,
         NEW k \in Keys, NEW a \in Addrs, Sound(s),
         NEW o \in MigratePeer(s, p, oldReq, q, req, k, a)
  PROVE  /\ o.err \in Errors
         /\ Touches2(s, o.st, p, q)
         /\ o.err = "ok" => o.st.orphans = s.orphans /\ Moved(s, o.st, p, q, k)
         /\ Plain(o.err) => /\ o.st.orphans = s.orphans
                            /\ (p # q => k \notin s.ifaces[q].peers) => Kept(s, o.st)
<1>0. s \in States /\ SameBooks(s, s) /\ Touches2(s, s, p, q) /\ Kept(s, s)
  BY SameBooksRefl, SameTouches, TouchesOne, SameKept DEF Sound
<1>1. CASE \E err \in {"refused", "portShared", "portConflict"} : o = Outcome(s, err)
  <2>1. o.st = s /\ o.err \in {"refused", "portShared", "portConflict"}
    BY <1>1 DEF Outcome
  <2> QED BY <1>0, <2>1 DEF Errors
<1>2. CASE p = q /\ o = Done(s)
  <2>1. o.st = s /\ o.err = "ok"
    BY <1>2 DEF Done, Outcome
  <2> QED BY <1>0, <1>2, <2>1 DEF Errors, Moved, Plain
<1>3. CASE /\ HasPeer(s, p, k) /\ s.ifaces[p].count = 1
           /\ o \in migrateSolePeer(s, p, q, req, k, a)
  <2>1. /\ o.err \in Errors /\ Touches2(s, o.st, p, q)
        /\ o.err = "ok" => o.st.orphans = s.orphans /\ Moved(s, o.st, p, q, k)
        /\ Plain(o.err) => Kept(s, o.st)
    BY <1>3, MigrateSoleEffect
  <2> QED BY <2>1 DEF Kept
<1>4. CASE HasPeer(s, p, k) /\ p # q /\ o \in migrateSharedPeer(s, p, q, req, k, a)
  <2>1. p \in Tracked(s)
    BY <1>4 DEF HasPeer
  <2> QED BY <1>4, <2>1, MigrateSharedEffect
<1>5. CASE HasPeer(s, p, k) /\ p = q /\ s.ifaces[p].count # 1 /\ ~(s.ifaces[p].count > 1)
  <2>1. s.ifaces[p].count \in Nat
    BY <1>0 DEF States, Iface
  <2> QED BY <1>5, <2>1 DEF HasPeer
<1>6. \/ \E err \in {"refused", "portShared", "portConflict"} : o = Outcome(s, err)
      \/ p = q /\ o = Done(s)
      \/ /\ HasPeer(s, p, k) /\ s.ifaces[p].count = 1
         /\ o \in migrateSolePeer(s, p, q, req, k, a)
      \/ HasPeer(s, p, k) /\ p # q /\ o \in migrateSharedPeer(s, p, q, req, k, a)
      \/ HasPeer(s, p, k) /\ p = q /\ s.ifaces[p].count # 1 /\ ~(s.ifaces[p].count > 1)
  BY DEF MigratePeer
<1> QED BY <1>1, <1>2, <1>3, <1>4, <1>5, <1>6

\* Close keeps the books in order.  When none of its commands fails it leaves
\* neither an interface nor the rule it knows of.
LEMMA CloseEffect ==
  ASSUME NEW s, Sound(s), NEW o \in Close(s)
  PROVE  /\ o.err = "ok" /\ Sound(o.st)
         /\ Unruled(o.st) = Unruled(s)
         /\ o.st.faults >= s.faults
         /\ o.st.faults = 0 => ~o.st.masqAdded
         /\ o.st.kpeers \subseteq s.kpeers
<1>1. PICK stuck \in (SUBSET Tracked(s)) \X (SUBSET s.orphans) :
        o \in closeMasquerade(closeInterfaces(s, stuck[1], stuck[2]))
  BY DEF Close
<1> DEFINE stuckP == stuck[1]
           stuckO == stuck[2]
           goneP == Tracked(s) \ stuckP
           goneO == s.orphans \ stuckO
           ports == {s.ifaces[p].port : p \in goneP} \cup {x.port : x \in goneO}
           names == {s.ifaces[p].name : p \in goneP} \cup {x.name : x \in goneO}
           t == Unlinked(s, names)
           c == closeInterfaces(s, stuckP, stuckO)
           fs == [p \in Profiles |-> IF p \in goneP THEN NoIface ELSE s.ifaces[p]]
           more == Cardinality(stuckP) + Cardinality(stuckO)
<1>2. /\ s \in States /\ stuckP \subseteq Tracked(s) /\ stuckO \subseteq s.orphans
      /\ IsFiniteSet(stuckP) /\ IsFiniteSet(stuckO)
      /\ Cardinality(stuckP) \in Nat /\ Cardinality(stuckO) \in Nat
  <2>1. s \in States /\ stuckP \subseteq Tracked(s) /\ stuckO \subseteq s.orphans
    BY DEF Sound
  <2>2. IsFiniteSet(stuckP) /\ IsFiniteSet(stuckO)
    BY <2>1, FS_Subset DEF Sound
  <2> QED BY <2>1, <2>2, FS_CardinalityType
<1>3. /\ t \in States /\ t.ifaces = s.ifaces /\ t.orphans = s.orphans
      /\ t.masqAdded = s.masqAdded /\ t.masq = s.masq /\ t.kpeers \subseteq s.kpeers
      /\ t.faults = s.faults
  <2>1. t.faults = s.faults
    BY <1>2 DEF Unlinked, States
  <2> QED BY <1>2, <2>1, UnlinkedFields
<1>4. fs \in [Profiles -> Iface] /\ \A p \in Profiles : GoodIface(fs[p])
  BY <1>2, GoodIfaceFacts DEF States, Sound
<1>5. c = [t EXCEPT !.ifaces = fs, !.orphans = stuckO, !.usedPorts = @ \ ports,
                    !.faults = @ + Cardinality(stuckP) + Cardinality(stuckO)]
  BY DEF closeInterfaces
<1> HIDE DEF t, fs, c, ports, names
<1>6. /\ c \in States /\ c.ifaces = fs /\ c.orphans = stuckO
      /\ c.masqAdded = s.masqAdded /\ c.masq = s.masq
      /\ c.kpeers \subseteq s.kpeers
      /\ c.faults = s.faults + more
  <2> DEFINE d == [t EXCEPT !.ifaces = fs, !.orphans = stuckO]
             e == [d EXCEPT !.usedPorts = @ \ ports]
  <2>1. c = [e EXCEPT !.faults = @ + Cardinality(stuckP) + Cardinality(stuckO)]
    BY <1>5
  <2>2. /\ d \in States /\ d.ifaces = fs /\ d.orphans = stuckO /\ d.masqAdded = s.masqAdded
        /\ d.masq = s.masq /\ d.kpeers = t.kpeers /\ d.faults = s.faults
    BY <1>2, <1>3, <1>4 DEF States
  <2> HIDE DEF d
  <2>3. /\ e \in States /\ e.ifaces = fs /\ e.orphans = stuckO /\ e.masqAdded = s.masqAdded
        /\ e.masq = s.masq /\ e.kpeers = t.kpeers /\ e.faults = s.faults
    BY <2>2 DEF States
  <2> HIDE DEF e
  <2>4. /\ c \in States /\ c.ifaces = fs /\ c.orphans = stuckO /\ c.masqAdded = s.masqAdded
        /\ c.masq = s.masq /\ c.kpeers = t.kpeers /\ c.faults = s.faults + more
    BY <1>2, <2>1, <2>3 DEF States
  <2> QED BY <1>3, <2>4
<1>7. Tracked(c) = stuckP
  BY <1>2, <1>6 DEF Tracked, fs, NoIface
<1>8. Sound(c) /\ Unruled(c) = Unruled(s)
  <2>1. \A p \in Profiles : GoodIface(c.ifaces[p])
    BY <1>4, <1>6
  <2>2. Unruled(c) = Unruled(s)
    BY <1>6 DEF Unruled
  <2>3. IsFiniteSet(Tracked(c)) /\ IsFiniteSet(c.orphans)
    BY <1>2, <1>6, <1>7
  <2> QED BY <1>6, <2>1, <2>2, <2>3 DEF Sound
<1>9. c.faults = 0 => Tracked(c) = {} /\ c.orphans = {}
  <2>1. s.faults \in Nat
    BY <1>2 DEF States
  <2>2. c.faults = 0 => Cardinality(stuckP) = 0 /\ Cardinality(stuckO) = 0
    BY <1>2, <1>6, <2>1
  <2> QED BY <1>2, <1>6, <1>7, <2>2, FS_EmptySet
<1>10. c.faults >= s.faults /\ c.faults \in Nat /\ s.faults \in Nat /\ c.masq \in Nat
       /\ c.masqAdded \in BOOLEAN
  BY <1>2, <1>6 DEF States
<1>11. CASE ~(c.masqAdded /\ Tracked(c) = {} /\ c.orphans = {})
  <2>1. o = Done(c)
    BY <1>1, <1>11 DEF closeMasquerade, c
  <2>2. o.st = c /\ o.err = "ok"
    BY <2>1 DEF Done, Outcome
  <2> QED BY <1>6, <1>8, <1>9, <1>10, <1>11, <2>2
<1>12. CASE c.masqAdded /\ Tracked(c) = {} /\ c.orphans = {}
  <2> DEFINE g == [c EXCEPT !.masq = @ - 1, !.masqAdded = FALSE]
  <2>1. PICK x \in Command(c, c.masq > 0, g) : o \in IF x.err = "ok" THEN {x} ELSE {Done(x.st)}
    BY <1>1, <1>12 DEF closeMasquerade, Catch, c
  <2>2. c.masq > 0
    BY <1>8, <1>10, <1>12 DEF Sound, Unruled
  <2>3. o.err = "ok" /\ (o.st = g \/ o.st = Faulted(c))
    <3>1. x = Done(g) \/ x = Outcome(Faulted(c), "failed")
      BY <2>1, <2>2, Zenon DEF Command
    <3>2. CASE x = Done(g)
      <4>1. x.st = g /\ x.err = "ok"
        BY <3>2 DEF Done, Outcome
      <4> QED BY <2>1, <4>1
    <3>3. CASE x = Outcome(Faulted(c), "failed")
      <4>1. x.st = Faulted(c) /\ x.err = "failed"
        BY <3>3 DEF Outcome
      <4> QED BY <2>1, <4>1 DEF Done, Outcome
    <3> QED BY <3>1, <3>2, <3>3
  <2>4. CASE o.st = Faulted(c)
    <3>1. SameBooks(c, o.st)
      BY <1>6, <2>4, SameBooksRefl
    <3>2. o.st.faults = c.faults + 1 /\ o.st.kpeers = c.kpeers
      BY <1>6, <2>4 DEF Faulted, States
    <3>3. Sound(o.st) /\ Unruled(o.st) = Unruled(s)
      BY <1>8, <3>1, SameSound DEF SameBooks
    <3> QED BY <1>6, <1>10, <2>3, <3>2, <3>3
  <2>5. CASE o.st = g
    <3> DEFINE f == [c EXCEPT !.masq = @ - 1]
    <3>1. /\ f \in States /\ f.ifaces = c.ifaces /\ f.orphans = c.orphans /\ f.masq = c.masq - 1
          /\ f.kpeers = c.kpeers /\ f.faults = c.faults
      BY <1>6, <2>2, <1>10 DEF States
    <3>2. g = [f EXCEPT !.masqAdded = FALSE]
      OBVIOUS
    <3> HIDE DEF f, g
    <3>3. /\ g \in States /\ g.ifaces = c.ifaces /\ g.orphans = c.orphans /\ g.masq = c.masq - 1
          /\ g.kpeers = c.kpeers /\ g.faults = c.faults
      BY <3>1, <3>2 DEF States
    <3>4. ~g.masqAdded
      BY <3>1, <3>2 DEF States
    <3>5. SameBooks(c, g)
      BY <1>10, <1>12, <3>3, <3>4 DEF SameBooks, Unruled
    <3>6. Sound(g) /\ Unruled(g) = Unruled(s)
      BY <1>8, <3>5, SameSound DEF SameBooks
    <3> QED BY <1>6, <1>10, <2>3, <2>5, <3>3, <3>4, <3>6
  <2> QED BY <2>3, <2>4, <2>5
<1> QED BY <1>11, <1>12

\* A pool that knows nothing is in order, whatever an earlier one left behind.
LEMMA EmptySound ==
  /\ Sound(EmptyPool) /\ EmptyPool.kpeers = {} /\ Unruled(EmptyPool) = 0
  /\ \A t \in States :
       /\ t.ifaces = EmptyPool.ifaces /\ t.orphans = {} /\ ~t.masqAdded
       => Sound(t) /\ Unruled(t) = t.masq
<1>1. EmptyPool \in States
  BY GoodIfaceFacts DEF EmptyPool, States, NoName
<1>2. EmptyPool.ifaces = [p \in Profiles |-> NoIface] /\ EmptyPool.orphans = {}
      /\ EmptyPool.kpeers = {} /\ ~EmptyPool.masqAdded /\ EmptyPool.masq = 0
  BY DEF EmptyPool
<1>3. ASSUME NEW t \in States, t.ifaces = EmptyPool.ifaces, t.orphans = {}, ~t.masqAdded
      PROVE  Sound(t) /\ Unruled(t) = t.masq
  <2>1. t.masq \in Nat
    BY DEF States
  <2>2. Tracked(t) = {}
    BY <1>2, <1>3 DEF Tracked, NoIface
  <2>3. \A p \in Profiles : GoodIface(t.ifaces[p])
    BY <1>2, <1>3, GoodIfaceFacts
  <2>4. IsFiniteSet({})
    BY FS_EmptySet
  <2> QED BY <1>3, <2>1, <2>2, <2>3, <2>4 DEF Sound, Unruled
<1> QED BY <1>1, <1>2, <1>3

=============================================================================
