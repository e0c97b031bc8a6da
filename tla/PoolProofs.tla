----------------------------- MODULE PoolProofs -----------------------------
(***************************************************************************)
(* Proofs about module Pool, for every set of profiles, keys and ports,    *)
(* every limit and any number of failing commands.                         *)
(*                                                                         *)
(* The argument: the commands that touch peers and routes leave the books  *)
(* alone (PeerStep), so only four things change the books: registering an  *)
(* interface, keeping an orphan, destroying an interface and tracking or   *)
(* untracking a peer.  Each preserves Books, the inductive invariant.      *)
(***************************************************************************)
EXTENDS Pool, PoolEffects

\* What the invariants need beyond themselves: names are never reused, and the
\* sets that are counted are finite.
NamesAndSizes(s) ==
  /\ \A p \in Tracked(s) : s.ifaces[p].name < s.nextIndex
  /\ \A o \in s.orphans : o.name < s.nextIndex
  /\ \A p \in Profiles : IsFiniteSet(s.ifaces[p].peers)
  /\ IsFiniteSet(Tracked(s)) /\ IsFiniteSet(s.orphans)

\* The part of the inductive invariant that does not look at kernel peers.
Books(s) ==
  /\ s \in States
  /\ HostAccountedIn(s)
  /\ CountsPeersIn(s)
  /\ WithinLimitIn(s)
  /\ MasqueradedIn(s)
  /\ NamesAndSizes(s)

\* Kernel peers are tracked, with the possible exception of k on profile p.
LiveBut(s, p, k) ==
  \A x \in s.kpeers :
    \/ x = <<s.ifaces[p].name, k>>
    \/ \E q \in Tracked(s) : s.ifaces[q].name = x[1] /\ x[2] \in s.ifaces[q].peers

Inv(s) == Books(s) /\ LivePeersTrackedIn(s)

-----------------------------------------------------------------------------
(***************************************************************************)
(* Changes of the books.                                                   *)
(***************************************************************************)
\* Peer commands keep the books and disturb no other kernel peer.
LEMMA PeerStepBooks ==
  ASSUME NEW s, NEW t, NEW p \in Profiles, NEW k \in Keys, Books(s), LiveBut(s, p, k),
         PeerStep(s, t, s.ifaces[p].name, k)
  PROVE  /\ Books(t) /\ LiveBut(t, p, k) /\ Tracked(t) = Tracked(s)
         /\ <<s.ifaces[p].name, k>> \notin t.kpeers => LivePeersTrackedIn(t)
<1>1. Tracked(t) = Tracked(s)
  BY DEF PeerStep, Tracked
<1>2. HostAccountedIn(t)
  BY <1>1 DEF Books, HostAccountedIn, PeerStep
<1>3. CountsPeersIn(t) /\ WithinLimitIn(t) /\ NamesAndSizes(t)
  BY <1>1 DEF Books, CountsPeersIn, WithinLimitIn, NamesAndSizes, PeerStep
<1>4. MasqueradedIn(t)
  BY <1>1 DEF Books, MasqueradedIn, PeerStep
<1>5. LiveBut(t, p, k)
  BY <1>1 DEF LiveBut, PeerStep
<1>6. <<s.ifaces[p].name, k>> \notin t.kpeers => LivePeersTrackedIn(t)
  BY <1>1, <1>5 DEF LiveBut, LivePeersTrackedIn, PeerStep
<1> QED BY <1>1, <1>2, <1>3, <1>4, <1>5, <1>6 DEF Books, PeerStep

\* When every live peer is tracked, so is every one but k on p.
LEMMA LiveIsLiveBut ==
  ASSUME NEW s, NEW p, NEW k, LivePeersTrackedIn(s)
  PROVE  LiveBut(s, p, k)
BY DEF LiveBut, LivePeersTrackedIn

\* t is s with other peers on profile p.
SamePool(s, t, p) ==
  /\ t \in States
  /\ t.orphans = s.orphans /\ t.usedPorts = s.usedPorts /\ t.nextIndex = s.nextIndex
  /\ t.masqAdded = s.masqAdded /\ t.links = s.links /\ t.listen = s.listen
  /\ t.masq = s.masq /\ t.kpeers = s.kpeers
  /\ \A q \in Profiles : /\ t.ifaces[q].name = s.ifaces[q].name
                         /\ t.ifaces[q].port = s.ifaces[q].port
                         /\ q # p => t.ifaces[q] = s.ifaces[q]

\* A change confined to the peers of one interface keeps the books.
LEMMA SamePoolBooks ==
  ASSUME NEW s, NEW t, NEW p \in Profiles, Books(s), SamePool(s, t, p),
         IsFiniteSet(t.ifaces[p].peers),
         t.ifaces[p].count = Cardinality(t.ifaces[p].peers)
  PROVE  Books(t) /\ Tracked(t) = Tracked(s)
<1>1. Tracked(t) = Tracked(s)
  BY DEF SamePool, Tracked
<1>2. HostAccountedIn(t)
  <2>1. \A q \in Tracked(s) : q \in Profiles
    BY DEF Tracked
  <2>2. \A q \in Tracked(s) : /\ t.ifaces[q].name = s.ifaces[q].name
                              /\ t.ifaces[q].port = s.ifaces[q].port
    BY <2>1 DEF SamePool
  <2> QED BY <1>1, <2>2 DEF Books, HostAccountedIn, SamePool
<1>3. CountsPeersIn(t) /\ WithinLimitIn(t)
  BY <1>1 DEF Books, CountsPeersIn, WithinLimitIn, SamePool
<1>4. NamesAndSizes(t)
  BY <1>1 DEF Books, NamesAndSizes, SamePool, Tracked
<1>5. MasqueradedIn(t)
  BY <1>1 DEF Books, MasqueradedIn, SamePool
<1> QED BY <1>1, <1>2, <1>3, <1>4, <1>5 DEF Books, SamePool

\* Tracking a peer that may be live keeps the invariant.
LEMMA TrackInv ==
  ASSUME NEW s, NEW p \in Tracked(s), NEW k \in Keys, Books(s), LiveBut(s, p, k)
  PROVE  LET t == trackPeer(s, p, k)
         IN /\ Inv(t) /\ Tracked(t) = Tracked(s)
            /\ k \in t.ifaces[p].peers
            /\ \A q \in Profiles : q # p => t.ifaces[q] = s.ifaces[q]
<1> DEFINE t == trackPeer(s, p, k)
           i == s.ifaces[p]
           c == IF k \in i.peers THEN i.count ELSE i.count + 1
<1>1. p \in Profiles /\ s \in States /\ i \in Iface /\ IsFiniteSet(i.peers)
      /\ i.count = Cardinality(i.peers)
  BY TrackedName DEF Books, NamesAndSizes, CountsPeersIn
<1>2. i.count \in Nat /\ c \in Nat
  BY <1>1 DEF Iface
<1>3. t.ifaces[p].peers = i.peers \cup {k} /\ t.ifaces[p].count = c
  BY <1>1 DEF trackPeer, States, Iface
<1>4. SamePool(s, t, p)
  BY <1>1, <1>2, ZenonT(40) DEF trackPeer, SamePool, States, Iface
<1>5. IsFiniteSet(i.peers \cup {k}) /\ c = Cardinality(i.peers \cup {k})
  BY <1>1, FS_AddElement
<1>6. Books(t) /\ Tracked(t) = Tracked(s)
  BY <1>1, <1>3, <1>4, <1>5, SamePoolBooks
<1>7. LivePeersTrackedIn(t)
  <2> SUFFICES ASSUME NEW x \in t.kpeers
               PROVE  \E q \in Tracked(t) : t.ifaces[q].name = x[1] /\ x[2] \in t.ifaces[q].peers
    BY DEF LivePeersTrackedIn
  <2>1. x \in s.kpeers /\ t.ifaces[p].name = i.name
    BY <1>1, <1>4 DEF SamePool
  <2>2. CASE x = <<i.name, k>>
    BY <1>3, <1>6, <2>1, <2>2
  <2>3. ASSUME NEW q \in Tracked(s), s.ifaces[q].name = x[1], x[2] \in s.ifaces[q].peers
        PROVE  t.ifaces[q].name = x[1] /\ x[2] \in t.ifaces[q].peers
    <3>1. q \in Profiles
      BY DEF Tracked
    <3> QED BY <1>3, <1>4, <2>3, <3>1 DEF SamePool
  <2> QED BY <1>6, <2>1, <2>2, <2>3 DEF LiveBut
<1> QED BY <1>3, <1>4, <1>6, <1>7 DEF Inv, SamePool

\* Untracking a peer that is not live keeps the invariant.
LEMMA UntrackInv ==
  ASSUME NEW s, NEW p \in Tracked(s), NEW k \in Keys, Inv(s),
         <<s.ifaces[p].name, k>> \notin s.kpeers
  PROVE  LET t == untrackPeer(s, p, k)
         IN /\ Inv(t) /\ Tracked(t) = Tracked(s)
            /\ t.ifaces[p].name = s.ifaces[p].name
            /\ t.ifaces[p].port = s.ifaces[p].port
            /\ \A q \in Profiles : q # p => t.ifaces[q] = s.ifaces[q]
<1> DEFINE t == untrackPeer(s, p, k)
           i == s.ifaces[p]
           c == IF k \in i.peers /\ i.count > 0 THEN i.count - 1 ELSE i.count
<1>1. p \in Profiles /\ s \in States /\ i \in Iface /\ IsFiniteSet(i.peers)
      /\ i.count = Cardinality(i.peers)
  BY TrackedName DEF Inv, Books, NamesAndSizes, CountsPeersIn
<1>2. i.count \in Nat /\ c \in Nat
  BY <1>1 DEF Iface
<1>3. t.ifaces[p].peers = i.peers \ {k} /\ t.ifaces[p].count = c
  BY <1>1 DEF untrackPeer, States, Iface
<1>4. SamePool(s, t, p)
  BY <1>1, <1>2 DEF untrackPeer, SamePool, States, Iface
<1>5. IsFiniteSet(i.peers \ {k}) /\ c = Cardinality(i.peers \ {k})
  <2>1. i.count \in Nat
    BY <1>1 DEF Iface
  <2>2. IsFiniteSet(i.peers \ {k})
        /\ Cardinality(i.peers \ {k}) =
             IF k \in i.peers THEN Cardinality(i.peers) - 1 ELSE Cardinality(i.peers)
    BY <1>1, FS_RemoveElement
  <2>3. k \in i.peers => i.count > 0
    <3>1. i.count = 0 => i.peers = {}
      BY <1>1, FS_EmptySet
    <3> QED BY <2>1, <3>1
  <2> QED BY <1>1, <2>1, <2>2, <2>3
<1>6. Books(t) /\ Tracked(t) = Tracked(s)
  BY <1>1, <1>3, <1>4, <1>5, SamePoolBooks DEF Inv
<1>7. LivePeersTrackedIn(t)
  <2> SUFFICES ASSUME NEW x \in t.kpeers
               PROVE  \E q \in Tracked(t) : t.ifaces[q].name = x[1] /\ x[2] \in t.ifaces[q].peers
    BY DEF LivePeersTrackedIn
  <2>1. x \in s.kpeers /\ t.ifaces[p].name = i.name /\ x \in Nat \X Keys
    BY <1>1, <1>4 DEF SamePool, States
  <2>2. PICK q \in Tracked(s) : s.ifaces[q].name = x[1] /\ x[2] \in s.ifaces[q].peers
    BY <2>1 DEF Inv, LivePeersTrackedIn
  <2>3. q \in Profiles
    BY DEF Tracked
  <2>4. CASE q = p
    <3>1. x[2] # k
      BY <2>1, <2>2, <2>4
    <3> QED BY <1>3, <1>6, <2>1, <2>2, <2>4, <3>1
  <2>5. CASE q # p
    BY <1>4, <1>6, <2>2, <2>3, <2>5 DEF SamePool
  <2> QED BY <2>4, <2>5
<1> QED BY <1>1, <1>4, <1>6, <1>7 DEF Inv, SamePool

\* destroyTrackedInterface removes the interface with all that hangs on it, or
\* fails and changes nothing.
LEMMA DestroyTracked ==
  ASSUME NEW s, NEW p \in Tracked(s), NEW k \in Keys, Books(s), LiveBut(s, p, k),
         NEW o \in destroyTrackedInterface(s, p)
  PROVE  /\ o.err \in {"ok", "failed"}
         /\ o.err = "ok" => /\ Inv(o.st)
                            /\ Tracked(o.st) = Tracked(s) \ {p}
                            /\ \A q \in Profiles : q # p => o.st.ifaces[q] = s.ifaces[q]
         /\ o.err # "ok" => /\ PeerStep(s, o.st, s.ifaces[p].name, k)
                            /\ o.st.kpeers = s.kpeers
<1> DEFINE n == s.ifaces[p].name
           port == s.ifaces[p].port
           v == Unlinked(s, {n})
           t == [v EXCEPT !.usedPorts = @ \ {port}, !.ifaces[p] = NoIface]
<1>1. s \in States /\ p \in Profiles /\ n \in Nat /\ port \in Nat
  BY TrackedName DEF Books, Iface
<1>2. PICK u \in destroyInterface(s, n) :
        o \in IF u.err = "ok"
                THEN {Done([u.st EXCEPT !.usedPorts = @ \ {port}, !.ifaces[p] = NoIface])}
                ELSE {u}
  BY DEF destroyTrackedInterface, Then
<1>3. Outcomes(s, u, v)
  BY Zenon DEF Outcomes, destroyInterface, Command, Done, Outcome
<1>4. CASE u.err # "ok"
  BY <1>1, <1>2, <1>3, <1>4, PeerStepRefl DEF Outcomes
<1>5. CASE u.err = "ok"
  <2>1. o.st = t /\ o.err = "ok"
    <3>1. u.st = v
      BY <1>3, <1>5 DEF Outcomes
    <3> QED BY <1>2, <1>5, <3>1 DEF Done, Outcome
  <2>2. /\ t \in States
        /\ t.ifaces = [s.ifaces EXCEPT ![p] = NoIface]
        /\ t.usedPorts = s.usedPorts \ {port}
        /\ t.orphans = s.orphans
        /\ t.nextIndex = s.nextIndex /\ t.masqAdded = s.masqAdded /\ t.masq = s.masq
        /\ t.links = s.links \ {n}
        /\ t.listen = {l \in s.listen : l[1] # n}
        /\ t.kpeers = {x \in s.kpeers : x[1] # n}
    <3>1. v \in States /\ NoIface \in Iface
      BY <1>1, UnlinkedFields DEF NoIface, Iface
    <3>2. /\ v.ifaces = s.ifaces /\ v.orphans = s.orphans /\ v.usedPorts = s.usedPorts
          /\ v.nextIndex = s.nextIndex /\ v.masqAdded = s.masqAdded /\ v.masq = s.masq
          /\ v.links = s.links \ {n}
          /\ v.listen = {l \in s.listen : l[1] # n}
          /\ v.kpeers = {x \in s.kpeers : x[1] # n}
      BY <1>1, UnlinkedFields
    <3> HIDE DEF v
    <3> QED BY <1>1, <3>1, <3>2 DEF States
  <2> HIDE DEF t
  <2>3. Tracked(t) = Tracked(s) \ {p} /\ \A q \in Profiles : q # p => t.ifaces[q] = s.ifaces[q]
    BY <1>1, <2>2 DEF Tracked, NoIface, NoName, States
  <2>4. t.ifaces[p] = NoIface
    BY <1>1, <2>2 DEF States
  <2>5. \A q \in Tracked(t) : q \in Tracked(s) /\ q # p /\ q \in Profiles /\ t.ifaces[q] = s.ifaces[q]
    BY <2>3 DEF Tracked
  <2>6. HostAccountedIn(t)
    <3>1. t.links = {t.ifaces[q].name : q \in Tracked(t)} \cup {r.name : r \in t.orphans}
      BY <2>2, <2>3, <2>5 DEF Books, HostAccountedIn
    <3>2. t.usedPorts = {t.ifaces[q].port : q \in Tracked(t)} \cup {r.port : r \in t.orphans}
      BY <2>2, <2>3, <2>5 DEF Books, HostAccountedIn
    <3>3. \A l \in t.listen : \/ \E q \in Tracked(t) : l = <<t.ifaces[q].name, t.ifaces[q].port>>
                              \/ \E r \in t.orphans : l = <<r.name, r.port>>
      BY <2>2, <2>3, <2>5 DEF Books, HostAccountedIn
    <3>4. \A q, r \in Tracked(t) :
            q # r => t.ifaces[q].name # t.ifaces[r].name /\ t.ifaces[q].port # t.ifaces[r].port
      BY <2>5 DEF Books, HostAccountedIn
    <3>5. \A q \in Tracked(t), r \in t.orphans :
            t.ifaces[q].name # r.name /\ t.ifaces[q].port # r.port
      BY <2>2, <2>5 DEF Books, HostAccountedIn
    <3>6. \A q, r \in t.orphans : q # r => q.name # r.name /\ q.port # r.port
      BY <2>2 DEF Books, HostAccountedIn
    <3> QED BY <3>1, <3>2, <3>3, <3>4, <3>5, <3>6 DEF HostAccountedIn
  <2>7. CountsPeersIn(t)
    BY <2>3, <2>4, FS_EmptySet DEF Books, CountsPeersIn, NoIface
  <2>8. WithinLimitIn(t) /\ NamesAndSizes(t)
    <3>1. IsFiniteSet(Tracked(t)) /\ Cardinality(Tracked(t)) = Cardinality(Tracked(s)) - 1
          /\ Cardinality(Tracked(s)) \in Nat /\ Cardinality(s.orphans) \in Nat
      BY <2>3, FS_RemoveElement, FS_CardinalityType DEF Books, NamesAndSizes
    <3>2. WithinLimitIn(t)
      BY <2>2, <3>1, LimitAssumption DEF Books, WithinLimitIn
    <3>3. \A q \in Profiles : IsFiniteSet(t.ifaces[q].peers)
      BY <2>3, <2>4, FS_EmptySet, SMTT(30) DEF Books, NamesAndSizes, NoIface
    <3>4. \A q \in Tracked(t) : t.ifaces[q].name < t.nextIndex
      BY <2>2, <2>5 DEF Books, NamesAndSizes
    <3>5. \A r \in t.orphans : r.name < t.nextIndex
      BY <2>2 DEF Books, NamesAndSizes
    <3>6. IsFiniteSet(t.orphans)
      BY <2>2 DEF Books, NamesAndSizes
    <3> QED BY <3>1, <3>2, <3>3, <3>4, <3>5, <3>6 DEF NamesAndSizes
  <2>9. MasqueradedIn(t)
    BY <2>2, <2>5 DEF Books, MasqueradedIn
  <2>10. LivePeersTrackedIn(t)
    <3> SUFFICES ASSUME NEW x \in t.kpeers
                 PROVE  \E q \in Tracked(t) : t.ifaces[q].name = x[1] /\ x[2] \in t.ifaces[q].peers
      BY DEF LivePeersTrackedIn
    <3>1. x \in s.kpeers /\ x[1] # n /\ x # <<n, k>>
      BY <2>2
    <3>2. PICK q \in Tracked(s) : s.ifaces[q].name = x[1] /\ x[2] \in s.ifaces[q].peers
      BY <3>1 DEF LiveBut
    <3>3. q # p /\ q \in Profiles
      BY <3>1, <3>2 DEF Tracked
    <3> QED BY <2>3, <3>2, <3>3
  <2> QED BY <2>1, <2>2, <2>3, <2>6, <2>7, <2>8, <2>9, <2>10 DEF Inv, Books
<1> QED BY <1>4, <1>5

-----------------------------------------------------------------------------
(***************************************************************************)
(* Creating an interface.                                                  *)
(***************************************************************************)
\* t is s with a link n that is neither tracked nor an orphan yet.
Raw(s, t, n, port) ==
  /\ t \in States
  /\ t.ifaces = s.ifaces /\ t.orphans = s.orphans /\ t.usedPorts = s.usedPorts
  /\ t.kpeers = s.kpeers
  /\ t.nextIndex = n + 1
  /\ t.links = s.links \cup {n}
  /\ \A l \in t.listen : l \in s.listen \/ l = <<n, port>>
  /\ t.masq = (IF t.masqAdded THEN 1 ELSE 0)
  /\ s.masqAdded => t.masqAdded

\* A command that changes none of these leaves the link as raw as it was.
LEMMA RawFaulted ==
  ASSUME NEW s, NEW t, NEW n, NEW port, Raw(s, t, n, port)
  PROVE  Raw(s, Faulted(t), n, port)
<1> DEFINE u == Faulted(t)
<1>1. /\ u \in States /\ u.ifaces = t.ifaces /\ u.orphans = t.orphans
      /\ u.usedPorts = t.usedPorts /\ u.kpeers = t.kpeers /\ u.nextIndex = t.nextIndex
      /\ u.links = t.links /\ u.listen = t.listen /\ u.masq = t.masq
      /\ u.masqAdded = t.masqAdded
  BY DEF Raw, Faulted, States
<1> HIDE DEF u
<1>2. Raw(s, u, n, port)
  BY <1>1 DEF Raw
<1> QED BY <1>2 DEF u

\* Bringing a link up leaves the rest of the host alone; success has the NAT rule.
LEMMA RawBringUp ==
  ASSUME NEW s, NEW t, NEW n \in Nat, NEW port \in Nat, Raw(s, t, n, port),
         NEW o \in bringUp(t, n, port)
  PROVE  /\ Raw(s, o.st, n, port)
         /\ o.err \in {"ok", "failed"}
         /\ o.err = "ok" => o.st.masqAdded
<1>1. PICK u \in configureDevice(t, n, port) :
        o \in IF u.err = "ok"
                THEN Then(configureInterfaceNetwork(u.st, n),
                          LAMBDA x : IF x.masqAdded THEN {Done(x)} ELSE addMasquerade(x))
                ELSE {u}
  BY DEF bringUp, Then
<1>2. Raw(s, u.st, n, port) /\ u.err \in {"ok", "failed"}
  <2> DEFINE e == [t EXCEPT !.listen = @ \cup {<<n, port>>}]
  <2>1. Outcomes(t, u, e)
    BY Zenon DEF Outcomes, configureDevice, Command, Done, Outcome
  <2>2. /\ e \in States /\ e.ifaces = t.ifaces /\ e.orphans = t.orphans
        /\ e.usedPorts = t.usedPorts /\ e.kpeers = t.kpeers /\ e.nextIndex = t.nextIndex
        /\ e.links = t.links /\ e.listen = t.listen \cup {<<n, port>>} /\ e.masq = t.masq
        /\ e.masqAdded = t.masqAdded
    BY DEF Raw, States
  <2> HIDE DEF e
  <2>3. Raw(s, e, n, port)
    BY <2>2 DEF Raw
  <2> QED BY <2>1, <2>3, RawFaulted DEF Outcomes
<1>3. CASE u.err = "ok"
  <2>1. PICK v \in configureInterfaceNetwork(u.st, n) :
          o \in IF v.err = "ok"
                  THEN IF v.st.masqAdded THEN {Done(v.st)} ELSE addMasquerade(v.st)
                  ELSE {v}
    BY <1>1, <1>3 DEF Then
  <2>2. Raw(s, v.st, n, port) /\ v.err \in {"ok", "failed"}
    <3>1. Outcomes(u.st, v, u.st)
      BY Zenon DEF Outcomes, configureInterfaceNetwork, Command, Done, Outcome
    <3> QED BY <1>2, <3>1, RawFaulted DEF Outcomes
  <2>3. CASE v.err # "ok"
    BY <2>1, <2>2, <2>3
  <2>4. CASE v.err = "ok" /\ v.st.masqAdded
    <3>1. o = Done(v.st)
      BY <2>1, <2>4
    <3>2. o.st = v.st /\ o.err = "ok"
      BY <3>1 DEF Done, Outcome
    <3> QED BY <2>2, <2>4, <3>2
  <2>5. CASE v.err = "ok" /\ ~v.st.masqAdded
    <3> DEFINE w == v.st
               e == [w EXCEPT !.masq = @ + 1, !.masqAdded = TRUE]
    <3>1. o \in addMasquerade(w)
      BY <2>1, <2>5
    <3>2. Outcomes(w, o, e)
      BY <3>1, Zenon DEF Outcomes, addMasquerade, Command, Done, Outcome
    <3>3. /\ e \in States /\ e.ifaces = w.ifaces /\ e.orphans = w.orphans
          /\ e.usedPorts = w.usedPorts /\ e.kpeers = w.kpeers /\ e.nextIndex = w.nextIndex
          /\ e.links = w.links /\ e.listen = w.listen /\ e.masq = w.masq + 1
          /\ e.masqAdded
      <4>1. w \in States
        BY <2>2 DEF Raw
      <4> HIDE DEF w
      <4>2. e \in States
        <5> DEFINE f == [w EXCEPT !.masq = @ + 1]
        <5>1. f \in States
          BY <4>1 DEF States
        <5>2. e = [f EXCEPT !.masqAdded = TRUE]
          OBVIOUS
        <5> HIDE DEF f, e
        <5> QED BY <5>1, <5>2 DEF States
      <4>3. /\ e.ifaces = w.ifaces /\ e.orphans = w.orphans
            /\ e.usedPorts = w.usedPorts /\ e.kpeers = w.kpeers /\ e.nextIndex = w.nextIndex
            /\ e.links = w.links /\ e.listen = w.listen /\ e.masq = w.masq + 1
        BY <4>1 DEF States
      <4>4. e.masqAdded
        BY <4>1 DEF States
      <4> QED BY <4>2, <4>3, <4>4
    <3>4. w.masq = 0
      BY <2>2, <2>5 DEF Raw
    <3> HIDE DEF e
    <3>5. Raw(s, e, n, port)
      BY <2>2, <3>3, <3>4 DEF Raw
    <3> QED BY <2>2, <3>2, <3>3, <3>5, RawFaulted DEF Outcomes
  <2> QED BY <2>2, <2>3, <2>4, <2>5
<1> QED BY <1>1, <1>2, <1>3

\* A fresh name and an unused port.
Free(s, n, port) == n = s.nextIndex /\ port \in Nat /\ port \notin s.usedPorts

\* A free name and port belong to no tracked and no orphan interface.
LEMMA FreeIsFresh ==
  ASSUME NEW s, NEW n, NEW port, Books(s), Free(s, n, port)
  PROVE  /\ n \in Nat /\ n \notin s.links
         /\ \A p \in Tracked(s) : s.ifaces[p].name # n /\ s.ifaces[p].port # port
         /\ \A r \in s.orphans : r.name # n /\ r.port # port
<1>1. n \in Nat /\ s \in States
  BY DEF Books, Free, States
<1>2. \A p \in Tracked(s) : s.ifaces[p].name \in Nat /\ s.ifaces[p].name < n
  BY <1>1, TrackedName DEF Books, NamesAndSizes, Free
<1>3. \A r \in s.orphans : r.name \in Nat /\ r.name < n
  BY <1>1 DEF Books, NamesAndSizes, Free, States
<1>4. \A p \in Tracked(s) : s.ifaces[p].name # n /\ s.ifaces[p].port # port
  BY <1>1, <1>2 DEF Books, HostAccountedIn, Free
<1>5. \A r \in s.orphans : r.name # n /\ r.port # port
  BY <1>1, <1>3 DEF Books, HostAccountedIn, Free
<1>6. n \notin s.links
  BY <1>4, <1>5 DEF Books, HostAccountedIn
<1> QED BY <1>1, <1>4, <1>5, <1>6

\* Registering a link that was brought up keeps the invariant.
LEMMA RawRegister ==
  ASSUME NEW s, NEW t, NEW n, NEW port, NEW p \in Profiles, Inv(s), Free(s, n, port),
         p \notin Tracked(s), ~LimitReached(s), Raw(s, t, n, port), t.masqAdded
  PROVE  LET u == registerInterface(t, p, n, port)
         IN /\ Inv(u) /\ Tracked(u) = Tracked(s) \cup {p}
            /\ u.ifaces[p].peers = {}
            /\ \A q \in Profiles : q # p => u.ifaces[q] = s.ifaces[q]
<1> DEFINE i == [name |-> n, port |-> port, count |-> 0, peers |-> {}]
           u == registerInterface(t, p, n, port)
<1>1. s \in States /\ n \in Nat /\ port \in Nat /\ i \in Iface
  BY FreeIsFresh DEF Inv, Books, Iface, Free
<1>2. /\ u \in States
      /\ u.ifaces = [s.ifaces EXCEPT ![p] = i]
      /\ u.usedPorts = s.usedPorts \cup {port}
      /\ u.orphans = s.orphans /\ u.kpeers = s.kpeers /\ u.nextIndex = n + 1
      /\ u.links = s.links \cup {n} /\ u.listen = t.listen
      /\ u.masq = t.masq /\ u.masqAdded = t.masqAdded
  BY <1>1 DEF registerInterface, Raw, States
<1> HIDE DEF u
<1>3. u.ifaces[p] = i /\ \A q \in Profiles : q # p => u.ifaces[q] = s.ifaces[q]
  BY <1>1, <1>2 DEF States
<1>4. Tracked(u) = Tracked(s) \cup {p}
  BY <1>1, <1>3 DEF Tracked, NoName
<1>5. \A q \in Tracked(s) : q \in Profiles /\ q # p /\ u.ifaces[q] = s.ifaces[q]
  BY <1>3 DEF Tracked
<1>6. i.name = n /\ i.port = port /\ i.count = 0 /\ i.peers = {}
  OBVIOUS
<1> HIDE DEF i
<1>7. HostAccountedIn(u)
  <2> USE FreeIsFresh
  <2>1. u.links = {u.ifaces[q].name : q \in Tracked(u)} \cup {r.name : r \in u.orphans}
    BY <1>2, <1>3, <1>4, <1>5, <1>6 DEF Inv, Books, HostAccountedIn
  <2>2. u.usedPorts = {u.ifaces[q].port : q \in Tracked(u)} \cup {r.port : r \in u.orphans}
    BY <1>2, <1>3, <1>4, <1>5, <1>6 DEF Inv, Books, HostAccountedIn
  <2>3. \A l \in u.listen : \/ \E q \in Tracked(u) : l = <<u.ifaces[q].name, u.ifaces[q].port>>
                            \/ \E r \in u.orphans : l = <<r.name, r.port>>
    BY <1>2, <1>3, <1>4, <1>5, <1>6 DEF Inv, Books, HostAccountedIn, Raw
  <2>4. \A q, r \in Tracked(u) :
          q # r => u.ifaces[q].name # u.ifaces[r].name /\ u.ifaces[q].port # u.ifaces[r].port
    BY <1>3, <1>4, <1>5, <1>6 DEF Inv, Books, HostAccountedIn
  <2>5. \A q \in Tracked(u), r \in u.orphans :
          u.ifaces[q].name # r.name /\ u.ifaces[q].port # r.port
    BY <1>2, <1>3, <1>4, <1>5, <1>6 DEF Inv, Books, HostAccountedIn
  <2>6. \A q, r \in u.orphans : q # r => q.name # r.name /\ q.port # r.port
    BY <1>2 DEF Inv, Books, HostAccountedIn
  <2> QED BY <2>1, <2>2, <2>3, <2>4, <2>5, <2>6 DEF HostAccountedIn
<1>8. CountsPeersIn(u)
  BY <1>3, <1>6, FS_EmptySet DEF Inv, Books, CountsPeersIn
<1>9. /\ IsFiniteSet(Tracked(u)) /\ Cardinality(Tracked(u)) = Cardinality(Tracked(s)) + 1
      /\ Cardinality(Tracked(s)) \in Nat /\ Cardinality(s.orphans) \in Nat
  BY <1>4, FS_AddElement, FS_CardinalityType DEF Inv, Books, NamesAndSizes
<1>10. WithinLimitIn(u)
  BY <1>2, <1>9, LimitAssumption DEF Inv, Books, WithinLimitIn, LimitReached
<1>11. NamesAndSizes(u)
  <2>1. \A q \in Profiles : IsFiniteSet(u.ifaces[q].peers)
    BY <1>3, <1>6, FS_EmptySet DEF Inv, Books, NamesAndSizes
  <2>2. \A q \in Tracked(u) : u.ifaces[q].name < u.nextIndex
    <3>1. \A q \in Tracked(s) : s.ifaces[q].name \in Nat /\ s.ifaces[q].name < n
      BY <1>1, TrackedName DEF Inv, Books, NamesAndSizes, Free
    <3> QED BY <1>1, <1>2, <1>3, <1>4, <1>5, <1>6, <3>1
  <2>3. \A r \in u.orphans : r.name < u.nextIndex
    <3>1. \A r \in s.orphans : r.name \in Nat /\ r.name < n
      BY <1>1 DEF Inv, Books, NamesAndSizes, Free, States
    <3> QED BY <1>1, <1>2, <3>1
  <2>4. IsFiniteSet(u.orphans)
    BY <1>2 DEF Inv, Books, NamesAndSizes
  <2> QED BY <1>9, <2>1, <2>2, <2>3, <2>4 DEF NamesAndSizes
<1>12. MasqueradedIn(u)
  BY <1>2 DEF MasqueradedIn, Raw
<1>13. LivePeersTrackedIn(u)
  BY <1>2, <1>4, <1>5 DEF Inv, LivePeersTrackedIn
<1> QED BY <1>2, <1>3, <1>4, <1>6, <1>7, <1>8, <1>10, <1>11, <1>12, <1>13
        DEF Inv, Books, u

\* A link that could not be brought up is gone, or an orphan.
LEMMA RawAbandon ==
  ASSUME NEW s, NEW t, NEW n, NEW port, Inv(s), Free(s, n, port), ~LimitReached(s),
         Raw(s, t, n, port), NEW o \in abandonInterface(t, n, port)
  PROVE  /\ Inv(o.st) /\ o.st.ifaces = s.ifaces
         /\ o.err \in {"failed", "rollbackFailed"}
<1> DEFINE v == Unlinked(t, {n})
<1>1. s \in States /\ t \in States /\ n \in Nat /\ port \in Nat
  BY FreeIsFresh DEF Inv, Books, Free, Raw
<1>2. PICK d \in destroyInterface(t, n) :
        o = IF d.err = "ok" THEN Outcome(d.st, "failed")
                            ELSE Outcome(trackOrphanInterface(d.st, n, port), "rollbackFailed")
  BY DEF abandonInterface
<1>3. Outcomes(t, d, v)
  BY Zenon DEF Outcomes, destroyInterface, Command, Done, Outcome
<1>4. MasqueradedIn(s) /\ (Tracked(s) # {} => t.masqAdded)
  BY DEF Inv, Books, MasqueradedIn, Raw
<1>5. CASE d.err = "ok"
  <2>1. o.st = v /\ o.err = "failed"
    <3>1. d.st = v
      BY <1>3, <1>5 DEF Outcomes
    <3> QED BY <1>2, <1>5, <3>1 DEF Outcome
  <2>2. /\ v \in States
        /\ v.ifaces = s.ifaces /\ v.orphans = s.orphans /\ v.usedPorts = s.usedPorts
        /\ v.nextIndex = n + 1 /\ v.masqAdded = t.masqAdded /\ v.masq = t.masq
        /\ v.links = (s.links \cup {n}) \ {n}
        /\ v.listen = {l \in t.listen : l[1] # n}
        /\ v.kpeers = {x \in s.kpeers : x[1] # n}
    BY <1>1, UnlinkedFields DEF Raw
  <2> HIDE DEF v
  <2>3. Tracked(v) = Tracked(s)
    BY <2>2 DEF Tracked
  <2>4. v.links = s.links
    BY <2>2, FreeIsFresh DEF Inv
  <2>5. \A l \in v.listen : l \in s.listen
    BY <1>1, <2>2 DEF Raw
  <2>6. HostAccountedIn(v)
    BY <2>2, <2>3, <2>4, <2>5 DEF Inv, Books, HostAccountedIn
  <2>7. CountsPeersIn(v) /\ WithinLimitIn(v)
    BY <2>2, <2>3 DEF Inv, Books, CountsPeersIn, WithinLimitIn
  <2>8. NamesAndSizes(v)
    <3>1. \A q \in Tracked(s) : s.ifaces[q].name \in Nat /\ s.ifaces[q].name < n
      BY <1>1, TrackedName DEF Inv, Books, NamesAndSizes, Free
    <3>2. \A r \in s.orphans : r.name \in Nat /\ r.name < n
      BY <1>1 DEF Inv, Books, NamesAndSizes, Free, States
    <3>3. /\ \A q \in Tracked(v) : v.ifaces[q].name < v.nextIndex
          /\ \A r \in v.orphans : r.name < v.nextIndex
      BY <1>1, <2>2, <2>3, <3>1, <3>2
    <3> QED BY <2>2, <2>3, <3>3 DEF Inv, Books, NamesAndSizes
  <2>9. MasqueradedIn(v)
    BY <1>4, <2>2, <2>3 DEF MasqueradedIn, Raw
  <2>10. LivePeersTrackedIn(v)
    BY <2>2, <2>3 DEF Inv, LivePeersTrackedIn
  <2> QED BY <2>1, <2>2, <2>6, <2>7, <2>8, <2>9, <2>10 DEF Inv, Books
<1>6. CASE d.err # "ok"
  <2> DEFINE r == [name |-> n, port |-> port]
             u == trackOrphanInterface(d.st, n, port)
  <2>1. o.st = u /\ o.err = "rollbackFailed" /\ Raw(s, d.st, n, port)
    <3>1. d.st = t \/ d.st = Faulted(t)
      BY <1>3, <1>6 DEF Outcomes
    <3>2. o.st = u /\ o.err = "rollbackFailed"
      BY <1>2, <1>6 DEF Outcome
    <3> QED BY <3>1, <3>2, RawFaulted
  <2>2. /\ u \in States
        /\ u.ifaces = s.ifaces /\ u.orphans = s.orphans \cup {r}
        /\ u.usedPorts = s.usedPorts \cup {port}
        /\ u.kpeers = s.kpeers /\ u.nextIndex = n + 1
        /\ u.links = s.links \cup {n} /\ u.listen = d.st.listen
        /\ u.masq = d.st.masq /\ u.masqAdded = d.st.masqAdded
    <3>1. d.st \in States
      BY <2>1 DEF Raw
    <3>2. r \in [name: Nat, port: Nat]
      BY <1>1
    <3>3. u = [d.st EXCEPT !.orphans = @ \cup {r}, !.usedPorts = @ \cup {port}]
      BY DEF trackOrphanInterface
    <3> HIDE DEF r, u
    <3>4. /\ u \in States
          /\ u.ifaces = d.st.ifaces /\ u.orphans = d.st.orphans \cup {r}
          /\ u.usedPorts = d.st.usedPorts \cup {port}
          /\ u.kpeers = d.st.kpeers /\ u.nextIndex = d.st.nextIndex
          /\ u.links = d.st.links /\ u.listen = d.st.listen
          /\ u.masq = d.st.masq /\ u.masqAdded = d.st.masqAdded
      BY <1>1, <3>1, <3>2, <3>3 DEF States
    <3> QED BY <2>1, <3>4 DEF Raw
  <2>3. Tracked(u) = Tracked(s)
    BY <2>2 DEF Tracked
  <2>4. r.name = n /\ r.port = port
    OBVIOUS
  <2> HIDE DEF u, r
  <2>5. HostAccountedIn(u)
    <3> USE FreeIsFresh
    <3>1. u.links = {u.ifaces[q].name : q \in Tracked(u)} \cup {x.name : x \in u.orphans}
      BY <2>2, <2>3, <2>4 DEF Inv, Books, HostAccountedIn
    <3>2. u.usedPorts = {u.ifaces[q].port : q \in Tracked(u)} \cup {x.port : x \in u.orphans}
      BY <2>2, <2>3, <2>4 DEF Inv, Books, HostAccountedIn
    <3>3. \A l \in u.listen : \/ \E q \in Tracked(u) : l = <<u.ifaces[q].name, u.ifaces[q].port>>
                              \/ \E x \in u.orphans : l = <<x.name, x.port>>
      BY <2>1, <2>2, <2>3, <2>4 DEF Inv, Books, HostAccountedIn, Raw
    <3>4. \A q, x \in Tracked(u) :
            q # x => u.ifaces[q].name # u.ifaces[x].name /\ u.ifaces[q].port # u.ifaces[x].port
      BY <2>2, <2>3 DEF Inv, Books, HostAccountedIn
    <3>5. \A q \in Tracked(u), x \in u.orphans :
            u.ifaces[q].name # x.name /\ u.ifaces[q].port # x.port
      BY <2>2, <2>3, <2>4 DEF Inv, Books, HostAccountedIn
    <3>6. \A q, x \in u.orphans : q # x => q.name # x.name /\ q.port # x.port
      BY <2>2, <2>4 DEF Inv, Books, HostAccountedIn
    <3> QED BY <3>1, <3>2, <3>3, <3>4, <3>5, <3>6 DEF HostAccountedIn
  <2>6. CountsPeersIn(u)
    BY <2>2 DEF Inv, Books, CountsPeersIn
  <2>7. WithinLimitIn(u) /\ IsFiniteSet(u.orphans)
    <3>1. r \notin s.orphans
      BY <2>4, FreeIsFresh DEF Inv
    <3>2. /\ IsFiniteSet(u.orphans) /\ Cardinality(u.orphans) = Cardinality(s.orphans) + 1
          /\ Cardinality(Tracked(s)) \in Nat /\ Cardinality(s.orphans) \in Nat
      BY <2>2, <3>1, FS_AddElement, FS_CardinalityType DEF Inv, Books, NamesAndSizes
    <3> QED BY <2>3, <3>2, LimitAssumption DEF WithinLimitIn, LimitReached
  <2>8. NamesAndSizes(u)
    <3>1. \A q \in Tracked(s) : s.ifaces[q].name \in Nat /\ s.ifaces[q].name < n
      BY <1>1, TrackedName DEF Inv, Books, NamesAndSizes, Free
    <3>2. \A x \in s.orphans : x.name \in Nat /\ x.name < n
      BY <1>1 DEF Inv, Books, NamesAndSizes, Free, States
    <3>3. /\ \A q \in Tracked(u) : u.ifaces[q].name < u.nextIndex
          /\ \A x \in u.orphans : x.name < u.nextIndex
      BY <1>1, <2>2, <2>3, <2>4, <3>1, <3>2
    <3> QED BY <2>2, <2>3, <2>7, <3>3 DEF Inv, Books, NamesAndSizes
  <2>9. MasqueradedIn(u)
    BY <1>4, <2>1, <2>2, <2>3 DEF MasqueradedIn, Raw
  <2>10. LivePeersTrackedIn(u)
    BY <2>2, <2>3 DEF Inv, LivePeersTrackedIn
  <2> QED BY <2>1, <2>2, <2>5, <2>6, <2>7, <2>8, <2>9, <2>10 DEF Inv, Books
<1> QED BY <1>5, <1>6

\* What a step on profile p may do to the others: nothing.
OthersKept(s, t, p) == \A q \in Profiles : q # p => t.ifaces[q] = s.ifaces[q]

\* Creating an interface keeps the invariant, if it fails half-way too.
LEMMA NewInterfaceInv ==
  ASSUME NEW s, NEW port, NEW p \in Profiles, Inv(s), Free(s, s.nextIndex, port),
         p \notin Tracked(s), ~LimitReached(s), NEW o \in newInterface(s, p, port)
  PROVE  /\ Inv(o.st) /\ OthersKept(s, o.st, p) /\ o.err \in Errors
         /\ o.err = "ok" => p \in Tracked(o.st)
         /\ o.err # "ok" => o.st.ifaces = s.ifaces
<1> DEFINE n == s.nextIndex
           b == [s EXCEPT !.nextIndex = n + 1]
           e == [b EXCEPT !.links = @ \cup {n}]
<1>1. s \in States /\ n \in Nat /\ port \in Nat /\ b \in States
  BY DEF Inv, Books, States, Free
<1>2. PICK c \in createInterface(b, n) :
        o \in IF c.err = "ok"
                THEN Then(Catch(bringUp(c.st, n, port),
                                LAMBDA x : abandonInterface(x.st, n, port)),
                          LAMBDA x : {Done(registerInterface(x, p, n, port))})
                ELSE {c}
  BY DEF newInterface, Then
<1>3. Outcomes(b, c, e)
  BY Zenon DEF Outcomes, createInterface, Command, Done, Outcome
<1>4. CASE c.err # "ok"
  <2>1. /\ o = c /\ o.err = "failed"
        /\ o.st = b \/ o.st = Faulted(b)
    <3> HIDE DEF b, e
    <3>1. o = c
      BY <1>2, <1>4
    <3> QED BY <1>3, <1>4, <3>1 DEF Outcomes
  <2> DEFINE t == o.st
  <2>2. /\ t \in States /\ t.ifaces = s.ifaces /\ t.orphans = s.orphans
        /\ t.usedPorts = s.usedPorts /\ t.kpeers = s.kpeers /\ t.nextIndex = n + 1
        /\ t.links = s.links /\ t.listen = s.listen /\ t.masq = s.masq
        /\ t.masqAdded = s.masqAdded
    <3>1. /\ b.ifaces = s.ifaces /\ b.orphans = s.orphans
          /\ b.usedPorts = s.usedPorts /\ b.kpeers = s.kpeers /\ b.nextIndex = n + 1
          /\ b.links = s.links /\ b.listen = s.listen /\ b.masq = s.masq
          /\ b.masqAdded = s.masqAdded
      BY <1>1 DEF States
    <3> HIDE DEF b
    <3>2. PeerStep(b, b, 0, 0) /\ PeerStep(b, Faulted(b), 0, 0)
          /\ Faulted(b).kpeers = b.kpeers
      BY <1>1, PeerStepRefl
    <3>3. PeerStep(b, t, 0, 0) /\ t.kpeers = b.kpeers
      BY <2>1, <3>2
    <3> HIDE DEF t
    <3> QED BY <3>1, <3>3 DEF PeerStep
  <2> HIDE DEF t
  <2>3. Tracked(t) = Tracked(s)
    BY <2>2 DEF Tracked
  <2>4. HostAccountedIn(t)
    BY <2>2, <2>3 DEF Inv, Books, HostAccountedIn
  <2>5. CountsPeersIn(t) /\ WithinLimitIn(t)
    BY <2>2, <2>3 DEF Inv, Books, CountsPeersIn, WithinLimitIn
  <2>9. MasqueradedIn(t)
    BY <2>2, <2>3 DEF Inv, Books, MasqueradedIn
  <2>6. NamesAndSizes(t)
    <3>1. \A q \in Tracked(s) : s.ifaces[q].name \in Nat /\ s.ifaces[q].name < n
      BY <1>1, TrackedName DEF Inv, Books, NamesAndSizes
    <3>2. \A x \in s.orphans : x.name \in Nat /\ x.name < n
      BY <1>1 DEF Inv, Books, NamesAndSizes, States
    <3>3. /\ \A q \in Tracked(t) : t.ifaces[q].name < t.nextIndex
          /\ \A x \in t.orphans : x.name < t.nextIndex
      BY <1>1, <2>2, <2>3, <3>1, <3>2
    <3> QED BY <2>2, <2>3, <3>3 DEF Inv, Books, NamesAndSizes
  <2>7. LivePeersTrackedIn(t)
    BY <2>2, <2>3 DEF Inv, LivePeersTrackedIn
  <2>8. Inv(t) /\ OthersKept(s, t, p) /\ t.ifaces = s.ifaces
    BY <2>2, <2>4, <2>5, <2>9, <2>6, <2>7 DEF Inv, Books, OthersKept
  <2> QED BY <2>1, <2>8 DEF t, Errors
<1>5. CASE c.err = "ok"
  <2>1. Raw(s, c.st, n, port)
    <3>1. c.st = e
      BY <1>3, <1>5 DEF Outcomes
    <3>2. /\ e \in States /\ e.ifaces = s.ifaces /\ e.orphans = s.orphans
          /\ e.usedPorts = s.usedPorts /\ e.kpeers = s.kpeers /\ e.nextIndex = n + 1
          /\ e.links = s.links \cup {n} /\ e.listen = s.listen /\ e.masq = s.masq
          /\ e.masqAdded = s.masqAdded
      BY <1>1 DEF States
    <3> HIDE DEF e
    <3>3. s.masq = (IF s.masqAdded THEN 1 ELSE 0)
      BY DEF Inv, Books, MasqueradedIn
    <3> QED BY <3>1, <3>2, <3>3 DEF Raw
  <2>2. PICK x \in Catch(bringUp(c.st, n, port), LAMBDA y : abandonInterface(y.st, n, port)) :
          o \in IF x.err = "ok" THEN {Done(registerInterface(x.st, p, n, port))} ELSE {x}
    BY <1>2, <1>5 DEF Then
  <2>3. PICK y \in bringUp(c.st, n, port) :
          x \in IF y.err = "ok" THEN {y} ELSE abandonInterface(y.st, n, port)
    BY DEF Catch
  <2>4. /\ Raw(s, y.st, n, port) /\ y.err \in {"ok", "failed"}
        /\ y.err = "ok" => y.st.masqAdded
    BY <1>1, <2>1, RawBringUp
  <2>5. CASE y.err = "ok"
    <3>1. o = Done(registerInterface(y.st, p, n, port))
      BY <2>2, <2>3, <2>5
    <3>2. o.st = registerInterface(y.st, p, n, port) /\ o.err = "ok"
      BY <3>1 DEF Done, Outcome
    <3>3. /\ Inv(o.st) /\ Tracked(o.st) = Tracked(s) \cup {p}
          /\ \A q \in Profiles : q # p => o.st.ifaces[q] = s.ifaces[q]
      BY <2>4, <2>5, <3>2, RawRegister
    <3> QED BY <3>2, <3>3 DEF OthersKept, Errors
  <2>6. CASE y.err # "ok"
    <3>1. /\ Inv(x.st) /\ x.st.ifaces = s.ifaces
          /\ x.err \in {"failed", "rollbackFailed"}
      BY <2>3, <2>4, <2>6, RawAbandon
    <3>2. o = x
      BY <2>2, <3>1
    <3> QED BY <3>1, <3>2 DEF OthersKept, Errors
  <2> QED BY <2>5, <2>6
<1> QED BY <1>4, <1>5

\* getOrCreateInterface keeps the invariant.
LEMMA GetOrCreateInv ==
  ASSUME NEW s, NEW req \in Nat, NEW p \in Profiles, Inv(s),
         NEW o \in getOrCreateInterface(s, p, req)
  PROVE  /\ Inv(o.st) /\ OthersKept(s, o.st, p) /\ o.err \in Errors
         /\ o.err = "ok" => p \in Tracked(o.st)
         /\ o.err # "ok" => o.st.ifaces = s.ifaces
<1>1. \/ o.st = s /\ o.err \in Errors /\ (o.err = "ok" => p \in Tracked(s))
      \/ /\ p \notin Tracked(s) /\ ~LimitReached(s)
         /\ \E port \in resolvePort(s, req) : o \in newInterface(s, p, port)
  <2>1. CASE p \in Tracked(s)
    BY <2>1 DEF getOrCreateInterface, Outcome, Done, Errors
  <2>2. CASE p \notin Tracked(s) /\ req # 0 /\ req \in s.usedPorts
    BY <2>2 DEF getOrCreateInterface, Outcome, Done, Errors
  <2>3. CASE p \notin Tracked(s) /\ (req = 0 \/ req \notin s.usedPorts)
    BY <2>3 DEF getOrCreateInterface, Outcome, Done, Errors
  <2> QED BY <2>1, <2>2, <2>3
<1>2. ASSUME NEW port \in resolvePort(s, req)
      PROVE  Free(s, s.nextIndex, port)
  BY PortAssumption DEF resolvePort, Free
<1> QED BY <1>1, <1>2, NewInterfaceInv DEF OthersKept

-----------------------------------------------------------------------------
(***************************************************************************)
(* The public methods, from the inside out.                                *)
(***************************************************************************)
\* o is an outcome of an operation on profile p from s that keeps the invariant.
Keeps(s, o, p) == Inv(o.st) /\ OthersKept(s, o.st, p) /\ o.err \in Errors

\* A peer command on a peer that its interface tracks keeps the invariant.
LEMMA TrackedPeerStep ==
  ASSUME NEW s, NEW t, NEW p \in Tracked(s), NEW k \in Keys, Inv(s),
         PeerStep(s, t, s.ifaces[p].name, k),
         k \in s.ifaces[p].peers \/ t.kpeers = s.kpeers
  PROVE  Inv(t) /\ Tracked(t) = Tracked(s) /\ t.ifaces = s.ifaces
<1>1. p \in Profiles /\ Books(s) /\ LiveBut(s, p, k) /\ t.ifaces = s.ifaces
  BY LiveIsLiveBut DEF Tracked, Inv, PeerStep
<1>2. Books(t) /\ LiveBut(t, p, k) /\ Tracked(t) = Tracked(s)
  BY <1>1, PeerStepBooks
<1>3. CASE k \in s.ifaces[p].peers
  <2>1. LivePeersTrackedIn(t)
    BY <1>1, <1>2, <1>3 DEF LiveBut, LivePeersTrackedIn
  <2> QED BY <1>1, <1>2, <2>1 DEF Inv
<1>4. CASE t.kpeers = s.kpeers
  <2>1. LivePeersTrackedIn(t)
    BY <1>1, <1>2, <1>4 DEF Inv, LivePeersTrackedIn
  <2> QED BY <1>1, <1>2, <2>1 DEF Inv
<1> QED BY <1>3, <1>4

\* The cleanup of a failed add ends with the peer gone or tracked.
LEMMA UndoFailedAddInv ==
  ASSUME NEW s, NEW p \in Tracked(s), NEW k \in Keys, NEW a \in Addrs,
         Books(s), LiveBut(s, p, k), NEW o \in undoFailedAdd(s, p, k, a)
  PROVE  Keeps(s, o, p) /\ o.err # "ok"
<1> DEFINE n == s.ifaces[p].name
           kept(c, t) == IF c.removed THEN t ELSE trackPeer(t, p, k)
<1>1. PICK c \in cleanupPeerAfterFailedAdd(s, n, k, a) :
        o \in IF s.ifaces[p].count = 0
                THEN {IF d.err = "ok" THEN Outcome(d.st, "failed")
                                      ELSE Outcome(kept(c, d.st), "rollbackFailed") :
                        d \in destroyTrackedInterface(c.st, p)}
                ELSE {Outcome(kept(c, c.st), rollbackFailure("failed", c.err))}
  BY DEF undoFailedAdd
<1>2. p \in Profiles /\ n \in Nat /\ s \in States
  BY TrackedName DEF Books
<1>3. /\ PeerStep(s, c.st, n, k)
      /\ c.removed => <<n, k>> \notin c.st.kpeers
  BY <1>2, CleanupStep
<1>4. ASSUME NEW t, PeerStep(s, t, n, k), t.kpeers = c.st.kpeers
      PROVE  Inv(kept(c, t)) /\ OthersKept(s, kept(c, t), p)
  <2>1. /\ Books(t) /\ LiveBut(t, p, k) /\ Tracked(t) = Tracked(s)
        /\ <<n, k>> \notin t.kpeers => LivePeersTrackedIn(t)
        /\ t.ifaces = s.ifaces
    BY <1>2, <1>4, PeerStepBooks DEF PeerStep
  <2>2. CASE c.removed
    BY <1>3, <1>4, <2>1, <2>2 DEF Inv, OthersKept
  <2>3. CASE ~c.removed
    BY <2>1, <2>3, TrackInv DEF OthersKept
  <2> QED BY <2>2, <2>3
<1>5. CASE s.ifaces[p].count = 0
  <2>1. PICK d \in destroyTrackedInterface(c.st, p) :
          o = IF d.err = "ok" THEN Outcome(d.st, "failed")
                              ELSE Outcome(kept(c, d.st), "rollbackFailed")
    BY <1>1, <1>5
  <2>2. /\ Books(c.st) /\ LiveBut(c.st, p, k) /\ Tracked(c.st) = Tracked(s)
        /\ c.st.ifaces = s.ifaces
    BY <1>2, <1>3, PeerStepBooks DEF PeerStep
  <2>3. /\ d.err = "ok" => /\ Inv(d.st)
                           /\ \A q \in Profiles : q # p => d.st.ifaces[q] = s.ifaces[q]
        /\ d.err # "ok" => PeerStep(c.st, d.st, n, k) /\ d.st.kpeers = c.st.kpeers
    BY <2>2, DestroyTracked
  <2>4. CASE d.err = "ok"
    <3>1. o.st = d.st /\ o.err = "failed"
      BY <2>1, <2>4 DEF Outcome
    <3> QED BY <2>3, <2>4, <3>1 DEF Keeps, OthersKept, Errors
  <2>5. CASE d.err # "ok"
    <3>1. PeerStep(s, d.st, n, k) /\ d.st.kpeers = c.st.kpeers
      BY <1>3, <2>3, <2>5, PeerStepTrans
    <3>2. Inv(kept(c, d.st)) /\ OthersKept(s, kept(c, d.st), p)
      BY <1>4, <3>1
    <3> HIDE DEF kept
    <3>3. o.st = kept(c, d.st) /\ o.err = "rollbackFailed"
      BY <2>1, <2>5 DEF Outcome
    <3> QED BY <3>2, <3>3 DEF Keeps, Errors
  <2> QED BY <2>4, <2>5
<1>6. CASE s.ifaces[p].count # 0
  <2>1. Inv(kept(c, c.st)) /\ OthersKept(s, kept(c, c.st), p)
    BY <1>3, <1>4
  <2> HIDE DEF kept
  <2>2. o.st = kept(c, c.st) /\ o.err = rollbackFailure("failed", c.err)
    BY <1>1, <1>6 DEF Outcome
  <2> QED BY <2>1, <2>2 DEF Keeps, Errors, rollbackFailure
<1> QED BY <1>5, <1>6

\* addPeerLocked keeps the invariant, its failed cleanups included.
LEMMA AddPeerLockedInv ==
  ASSUME NEW s, NEW p \in Tracked(s), NEW k \in Keys, NEW a \in Addrs,
         Inv(s), NEW o \in addPeerLocked(s, p, k, a)
  PROVE  /\ Keeps(s, o, p)
         /\ o.err = "ok" => p \in Tracked(o.st) /\ k \in o.st.ifaces[p].peers
<1> DEFINE n == s.ifaces[p].name
<1>1. PICK x \in Catch(addPeerToInterface(s, n, k, a),
                       LAMBDA y : undoFailedAdd(y.st, p, k, a)) :
        o \in IF x.err = "ok" THEN {Done(trackPeer(x.st, p, k))} ELSE {x}
  BY DEF addPeerLocked, Then
<1>2. PICK y \in addPeerToInterface(s, n, k, a) :
        x \in IF y.err = "ok" THEN {y} ELSE undoFailedAdd(y.st, p, k, a)
  BY DEF Catch
<1>3. /\ Books(y.st) /\ LiveBut(y.st, p, k) /\ Tracked(y.st) = Tracked(s)
      /\ y.st.ifaces = s.ifaces
  <2>1. p \in Profiles /\ n \in Nat /\ s \in States
    BY TrackedName DEF Inv, Books
  <2>2. PeerStep(s, y.st, n, k)
    BY <2>1, AddToInterfaceStep
  <2> QED BY <2>1, <2>2, PeerStepBooks, LiveIsLiveBut DEF Inv, PeerStep
<1>4. CASE y.err = "ok"
  <2>1. o = Done(trackPeer(y.st, p, k))
    BY <1>1, <1>2, <1>4
  <2>2. o.st = trackPeer(y.st, p, k) /\ o.err = "ok"
    BY <2>1 DEF Done, Outcome
  <2>3. /\ Inv(o.st) /\ Tracked(o.st) = Tracked(s) /\ k \in o.st.ifaces[p].peers
        /\ \A q \in Profiles : q # p => o.st.ifaces[q] = s.ifaces[q]
    BY <1>3, <2>2, TrackInv
  <2> QED BY <2>2, <2>3 DEF Keeps, OthersKept, Errors
<1>5. CASE y.err # "ok"
  <2>1. Keeps(y.st, x, p) /\ x.err # "ok"
    BY <1>2, <1>3, <1>5, UndoFailedAddInv
  <2>2. o = x
    BY <1>1, <2>1
  <2> QED BY <1>3, <2>1, <2>2 DEF Keeps, OthersKept
<1> QED BY <1>4, <1>5

\* Pool.AddPeer keeps the invariant and every other profile.
LEMMA AddPeerInv ==
  ASSUME NEW s, NEW p \in Profiles, NEW req \in Nat, NEW k \in Keys, NEW a \in Addrs,
         Inv(s), NEW o \in AddPeer(s, p, req, k, a)
  PROVE  Keeps(s, o, p)
<1>1. PICK x \in getOrCreateInterface(s, p, req) :
        o \in IF x.err = "ok" THEN addPeerLocked(x.st, p, k, a) ELSE {x}
  BY DEF AddPeer, Then
<1>2. /\ Inv(x.st) /\ OthersKept(s, x.st, p) /\ x.err \in Errors
      /\ x.err = "ok" => p \in Tracked(x.st)
  BY GetOrCreateInv
<1>3. CASE x.err = "ok"
  <2>1. Keeps(x.st, o, p)
    BY <1>1, <1>2, <1>3, AddPeerLockedInv
  <2> QED BY <1>2, <2>1 DEF Keeps, OthersKept
<1>4. CASE x.err # "ok"
  BY <1>1, <1>2, <1>4 DEF Keeps
<1> QED BY <1>3, <1>4

\* Destroying an emptied interface, or restoring its peer, keeps the invariant.
LEMMA DestroyOrRestoreInv ==
  ASSUME NEW s, NEW p \in Tracked(s), NEW k \in Keys, NEW a \in Addrs, Inv(s),
         NEW o \in destroyOrRestore(s, p, k, a)
  PROVE  Keeps(s, o, p)
<1> DEFINE n == s.ifaces[p].name
<1>1. PICK d \in destroyTrackedInterface(s, p) :
        o \in IF d.err = "ok" THEN {d}
              ELSE {Outcome(trackPeer(r.st, p, k), rollbackFailure("failed", r.err)) :
                      r \in restorePeerAndRoute(d.st, n, k, a)}
  BY DEF destroyOrRestore, Catch
<1>2. p \in Profiles /\ n \in Nat /\ Books(s) /\ LiveBut(s, p, k)
  BY TrackedName, LiveIsLiveBut DEF Inv, Books
<1>3. /\ d.err \in {"ok", "failed"}
      /\ d.err = "ok" => /\ Inv(d.st)
                         /\ \A q \in Profiles : q # p => d.st.ifaces[q] = s.ifaces[q]
      /\ d.err # "ok" => PeerStep(s, d.st, n, k)
  BY <1>2, DestroyTracked
<1>4. CASE d.err = "ok"
  BY <1>1, <1>3, <1>4 DEF Keeps, OthersKept, Errors
<1>5. CASE d.err # "ok"
  <2>1. PICK r \in restorePeerAndRoute(d.st, n, k, a) :
          o = Outcome(trackPeer(r.st, p, k), rollbackFailure("failed", r.err))
    BY <1>1, <1>5
  <2>2. d.st \in States
    BY <1>3, <1>5 DEF PeerStep
  <2>3. PeerStep(s, r.st, n, k)
    BY <1>2, <1>3, <1>5, <2>2, RestoreStep, PeerStepTrans
  <2>4. Books(r.st) /\ LiveBut(r.st, p, k) /\ Tracked(r.st) = Tracked(s) /\ r.st.ifaces = s.ifaces
    BY <1>2, <2>3, PeerStepBooks DEF PeerStep
  <2>5. o.st = trackPeer(r.st, p, k) /\ o.err = rollbackFailure("failed", r.err)
    BY <2>1 DEF Outcome
  <2>6. Inv(o.st) /\ OthersKept(s, o.st, p)
    BY <2>4, <2>5, TrackInv DEF OthersKept
  <2> QED BY <2>5, <2>6 DEF Keeps, Errors, rollbackFailure
<1> QED BY <1>4, <1>5

\* Removing a tracked peer from the kernel keeps the invariant, and so does
\* untracking it once it is removed.
LEMMA RemoveTrackedPeer ==
  ASSUME NEW s, NEW p \in Tracked(s), NEW k \in Keys, NEW a \in Addrs, Inv(s),
         k \in s.ifaces[p].peers,
         NEW x \in removePeerFromInterface(s, s.ifaces[p].name, k, a)
  PROVE  /\ x.err \in {"ok", "failed"}
         /\ Inv(x.st) /\ x.st.ifaces = s.ifaces
         /\ x.err = "ok" => LET u == untrackPeer(x.st, p, k)
                            IN /\ Inv(u) /\ Tracked(u) = Tracked(s)
                               /\ OthersKept(s, u, p)
<1>1. p \in Profiles /\ s.ifaces[p].name \in Nat /\ s \in States
  BY TrackedName DEF Inv, Books
<1>2. /\ PeerStep(s, x.st, s.ifaces[p].name, k)
      /\ x.err \in {"ok", "failed"}
      /\ x.err = "ok" => <<s.ifaces[p].name, k>> \notin x.st.kpeers
  BY <1>1, RemoveFromInterfaceStep
<1>3. Inv(x.st) /\ Tracked(x.st) = Tracked(s) /\ x.st.ifaces = s.ifaces
  BY <1>2, TrackedPeerStep
<1> QED BY <1>2, <1>3, UntrackInv DEF OthersKept

\* Pool.RemovePeer keeps the invariant and every other profile.
LEMMA RemovePeerInv ==
  ASSUME NEW s, NEW p \in Profiles, NEW k \in Keys, NEW a \in Addrs, Inv(s),
         NEW o \in RemovePeer(s, p, k, a)
  PROVE  Keeps(s, o, p)
<1>1. CASE ~HasPeer(s, p, k)
  <2>1. o = Outcome(s, "refused")
    BY <1>1 DEF RemovePeer
  <2> QED BY <2>1 DEF Keeps, OthersKept, Errors, Outcome
<1>2. CASE HasPeer(s, p, k)
  <2>1. PICK x \in removePeerFromInterface(s, s.ifaces[p].name, k, a) :
          o \in IF x.err = "ok"
                  THEN LET u == untrackPeer(x.st, p, k)
                       IN IF u.ifaces[p].count = 0 THEN destroyOrRestore(u, p, k, a)
                                                   ELSE {Done(u)}
                  ELSE {x}
    BY <1>2 DEF RemovePeer, Then
  <2> DEFINE u == untrackPeer(x.st, p, k)
  <2>2. /\ x.err \in {"ok", "failed"} /\ Inv(x.st) /\ x.st.ifaces = s.ifaces
        /\ x.err = "ok" => Inv(u) /\ Tracked(u) = Tracked(s) /\ OthersKept(s, u, p)
        /\ p \in Tracked(s)
    BY <1>2, RemoveTrackedPeer DEF HasPeer
  <2> HIDE DEF u
  <2>3. CASE x.err # "ok"
    BY <2>1, <2>2, <2>3 DEF Keeps, OthersKept, Errors
  <2>4. CASE o \in destroyOrRestore(u, p, k, a) /\ x.err = "ok"
    BY <2>2, <2>4, DestroyOrRestoreInv DEF Keeps, OthersKept
  <2>5. CASE o = Done(u) /\ x.err = "ok"
    <3>1. o.st = u /\ o.err = "ok"
      BY <2>5 DEF Done, Outcome
    <3> QED BY <2>2, <2>5, <3>1 DEF Keeps, Errors
  <2> QED BY <2>1, <2>3, <2>4, <2>5 DEF u
<1> QED BY <1>1, <1>2

\* rollbackNewPeerLocked keeps the invariant.
LEMMA RollbackNewPeerInv ==
  ASSUME NEW s, NEW q \in Tracked(s), NEW k \in Keys, NEW a \in Addrs, Inv(s),
         NEW o \in rollbackNewPeer(s, q, k, a)
  PROVE  Keeps(s, o, q)
<1>1. CASE k \notin s.ifaces[q].peers
  <2>1. o = Outcome(s, "failed")
    BY <1>1 DEF rollbackNewPeer
  <2> QED BY <2>1 DEF Keeps, OthersKept, Errors, Outcome
<1>2. CASE k \in s.ifaces[q].peers
  <2>1. PICK x \in removePeerFromInterface(s, s.ifaces[q].name, k, a) :
          o \in IF x.err = "ok"
                  THEN LET u == untrackPeer(x.st, q, k)
                       IN IF u.ifaces[q].count = 0 THEN destroyTrackedInterface(u, q)
                                                   ELSE {Done(u)}
                  ELSE {x}
    BY <1>2 DEF rollbackNewPeer, Then
  <2> DEFINE u == untrackPeer(x.st, q, k)
  <2>2. /\ x.err \in {"ok", "failed"} /\ Inv(x.st) /\ x.st.ifaces = s.ifaces
        /\ x.err = "ok" => Inv(u) /\ Tracked(u) = Tracked(s) /\ OthersKept(s, u, q)
    BY <1>2, RemoveTrackedPeer
  <2> HIDE DEF u
  <2>3. CASE x.err # "ok"
    BY <2>1, <2>2, <2>3 DEF Keeps, OthersKept, Errors
  <2>4. CASE o \in destroyTrackedInterface(u, q) /\ x.err = "ok"
    <3>1. Books(u) /\ LiveBut(u, q, k) /\ Inv(u) /\ q \in Tracked(u) /\ OthersKept(s, u, q)
      BY <2>2, <2>4, LiveIsLiveBut DEF Inv
    <3>2. /\ o.err \in {"ok", "failed"}
          /\ o.err = "ok" => /\ Inv(o.st)
                             /\ \A r \in Profiles : r # q => o.st.ifaces[r] = u.ifaces[r]
          /\ o.err # "ok" => PeerStep(u, o.st, u.ifaces[q].name, k) /\ o.st.kpeers = u.kpeers
      BY <2>4, <3>1, DestroyTracked
    <3>3. CASE o.err = "ok"
      BY <3>1, <3>2, <3>3 DEF Keeps, OthersKept, Errors
    <3>4. CASE o.err # "ok"
      <4>1. Inv(o.st) /\ o.st.ifaces = u.ifaces
        BY <3>1, <3>2, <3>4, TrackedPeerStep
      <4> QED BY <3>1, <3>2, <4>1 DEF Keeps, OthersKept, Errors
    <3> QED BY <3>3, <3>4
  <2>5. CASE o = Done(u) /\ x.err = "ok"
    <3>1. o.st = u /\ o.err = "ok"
      BY <2>5 DEF Done, Outcome
    <3> QED BY <2>2, <2>5, <3>1 DEF Keeps, Errors
  <2> QED BY <2>1, <2>3, <2>4, <2>5 DEF u
<1> QED BY <1>1, <1>2

\* rollbackSharedMigration keeps the invariant.
LEMMA RollbackSharedInv ==
  ASSUME NEW s, NEW p \in Tracked(s), NEW q \in Tracked(s), p # q,
         NEW k \in Keys, NEW a \in Addrs, Inv(s), k \in s.ifaces[p].peers,
         NEW o \in rollbackSharedMigration(s, p, q, k, a)
  PROVE  Inv(o.st)
<1> DEFINE n == s.ifaces[p].name
<1>1. PICK x \in rollbackNewPeer(s, q, k, a) :
        \E r \in restorePeerAndRoute(x.st, n, k, a) :
          o = Outcome(r.st, IF x.err = "ok" THEN r.err ELSE x.err)
  BY DEF rollbackSharedMigration
<1>2. PICK r \in restorePeerAndRoute(x.st, n, k, a) : o.st = r.st
  BY <1>1 DEF Outcome
<1>3. Inv(x.st) /\ OthersKept(s, x.st, q)
  BY RollbackNewPeerInv DEF Keeps
<1>4. p \in Profiles /\ n \in Nat /\ x.st \in States
  BY <1>3, TrackedName DEF Inv, Books
<1>5. x.st.ifaces[p] = s.ifaces[p] /\ p \in Tracked(x.st)
  BY <1>3, <1>4 DEF OthersKept, Tracked
<1>6. PeerStep(x.st, r.st, n, k)
  BY <1>4, RestoreStep
<1> QED BY <1>2, <1>3, <1>5, <1>6, TrackedPeerStep

\* Migrating the only peer of an interface keeps the invariant.
LEMMA MigrateSoleInv ==
  ASSUME NEW s, NEW p \in Profiles, NEW q \in Profiles, NEW req \in Nat,
         NEW k \in Keys, NEW a \in Addrs, Inv(s), HasPeer(s, p, k),
         NEW o \in migrateSolePeer(s, p, q, req, k, a)
  PROVE  Inv(o.st) /\ o.err \in Errors
<1> DEFINE oldPort == s.ifaces[p].port
           added(u) == Catch(AddPeer(u, q, req, k, a),
                             LAMBDA y : {Outcome(r.st, rollbackFailure(y.err, r.err)) :
                                           r \in AddPeer(y.st, p, oldPort, k, a)})
<1>1. PICK x \in removePeerFromInterface(s, s.ifaces[p].name, k, a) :
        o \in IF x.err = "ok"
                THEN Then(destroyOrRestore(untrackPeer(x.st, p, k), p, k, a), added)
                ELSE {x}
  BY DEF migrateSolePeer, Then
<1>2. /\ x.err \in {"ok", "failed"} /\ Inv(x.st)
      /\ x.err = "ok" => /\ Inv(untrackPeer(x.st, p, k))
                         /\ Tracked(untrackPeer(x.st, p, k)) = Tracked(s)
      /\ p \in Tracked(s) /\ oldPort \in Nat
  BY RemoveTrackedPeer, TrackedName DEF HasPeer, Iface, Inv, Books
<1>3. CASE x.err # "ok"
  BY <1>1, <1>2, <1>3 DEF Errors
<1>4. CASE x.err = "ok"
  <2> HIDE DEF added
  <2>1. PICK d \in destroyOrRestore(untrackPeer(x.st, p, k), p, k, a) :
          o \in IF d.err = "ok" THEN added(d.st) ELSE {d}
    BY <1>1, <1>4 DEF Then
  <2>2. Inv(d.st) /\ d.err \in Errors
    BY <1>2, <1>4, DestroyOrRestoreInv DEF Keeps
  <2>3. CASE d.err # "ok"
    BY <2>1, <2>2, <2>3
  <2>4. CASE d.err = "ok"
    <3>1. PICK y \in AddPeer(d.st, q, req, k, a) :
            o \in IF y.err = "ok" THEN {y}
                  ELSE {Outcome(r.st, rollbackFailure(y.err, r.err)) :
                          r \in AddPeer(y.st, p, oldPort, k, a)}
      BY <2>1, <2>4 DEF added, Catch
    <3>2. Inv(y.st) /\ y.err \in Errors
      BY <2>2, AddPeerInv DEF Keeps
    <3>3. CASE y.err = "ok"
      BY <3>1, <3>2, <3>3
    <3>4. CASE y.err # "ok"
      <4>1. PICK r \in AddPeer(y.st, p, oldPort, k, a) :
              o = Outcome(r.st, rollbackFailure(y.err, r.err))
        BY <3>1, <3>4
      <4>2. Inv(r.st)
        BY <1>2, <3>2, AddPeerInv DEF Keeps
      <4> QED BY <3>2, <4>1, <4>2 DEF Outcome, rollbackFailure, Errors
    <3> QED BY <3>3, <3>4
  <2> QED BY <2>3, <2>4
<1> QED BY <1>3, <1>4

\* Migrating one of several peers keeps the invariant.
LEMMA MigrateSharedInv ==
  ASSUME NEW s, NEW p \in Profiles, NEW q \in Profiles, p # q, NEW req \in Nat,
         NEW k \in Keys, NEW a \in Addrs, Inv(s), HasPeer(s, p, k),
         NEW o \in migrateSharedPeer(s, p, q, req, k, a)
  PROVE  Inv(o.st) /\ o.err \in Errors
<1> DEFINE n == s.ifaces[p].name
           left(u) == Then(Catch(removePeerOnlyFromInterface(u, n, k),
                                 LAMBDA y : {Outcome(r.st, rollbackFailure(y.err, r.err)) :
                                               r \in rollbackSharedMigration(y.st, p, q, k, a)}),
                           LAMBDA v : {Done(untrackPeer(v, p, k))})
           joined(t) == Catch(addPeerLocked(t, q, k, a),
                              LAMBDA y : {Outcome(r.st, rollbackFailure(y.err, r.err)) :
                                            r \in replacePeerRoute(y.st, n, a)})
<1>1. PICK g \in getOrCreateInterface(s, q, req) :
        o \in IF g.err = "ok" THEN Then(joined(g.st), left) ELSE {g}
  BY DEF migrateSharedPeer, Then
<1> HIDE DEF left, joined
<1>2. /\ Inv(g.st) /\ OthersKept(s, g.st, q) /\ g.err \in Errors
      /\ g.err = "ok" => q \in Tracked(g.st)
  BY GetOrCreateInv
<1>3. p \in Tracked(s) /\ n \in Nat /\ k \in s.ifaces[p].peers
  BY TrackedName DEF HasPeer, Inv, Books
\* Whatever happens on q leaves the old interface of the peer alone.
<1>4. ASSUME NEW t, OthersKept(s, t, q)
      PROVE  p \in Tracked(t) /\ t.ifaces[p] = s.ifaces[p]
  BY <1>3, <1>4 DEF OthersKept, Tracked
<1>5. CASE g.err # "ok"
  BY <1>1, <1>2, <1>5
<1>6. CASE g.err = "ok"
  <2>1. PICK j \in joined(g.st) : o \in IF j.err = "ok" THEN left(j.st) ELSE {j}
    BY <1>1, <1>6 DEF Then
  <2>2. PICK y \in addPeerLocked(g.st, q, k, a) :
          j \in IF y.err = "ok" THEN {y}
                ELSE {Outcome(r.st, rollbackFailure(y.err, r.err)) :
                        r \in replacePeerRoute(y.st, n, a)}
    BY DEF joined, Catch
  <2>3. /\ Inv(y.st) /\ OthersKept(g.st, y.st, q) /\ y.err \in Errors
        /\ y.err = "ok" => q \in Tracked(y.st)
    BY <1>2, <1>6, AddPeerLockedInv DEF Keeps
  <2>4. OthersKept(s, y.st, q) /\ y.st \in States
    BY <1>2, <2>3 DEF OthersKept, Inv, Books
  <2>5. p \in Tracked(y.st) /\ y.st.ifaces[p] = s.ifaces[p]
    BY <1>4, <2>4
  <2>6. CASE y.err # "ok"
    <3>1. PICK r \in replacePeerRoute(y.st, n, a) :
            j = Outcome(r.st, rollbackFailure(y.err, r.err))
      BY <2>2, <2>6
    <3>2. PeerStep(y.st, r.st, n, k) /\ r.st.kpeers = y.st.kpeers
      BY <1>3, <2>4, ReplaceRouteStep
    <3>3. Inv(r.st)
      BY <2>3, <2>5, <3>2, TrackedPeerStep
    <3>4. j.st = r.st /\ j.err \in Errors /\ j.err # "ok"
      BY <2>3, <2>6, <3>1 DEF Outcome, rollbackFailure, Errors
    <3> QED BY <2>1, <3>3, <3>4
  <2>7. CASE y.err = "ok"
    <3>1. o \in left(y.st)
      BY <2>1, <2>2, <2>7
    <3>2. PICK w \in Catch(removePeerOnlyFromInterface(y.st, n, k),
                            LAMBDA z : {Outcome(r.st, rollbackFailure(z.err, r.err)) :
                                          r \in rollbackSharedMigration(z.st, p, q, k, a)}) :
            o \in IF w.err = "ok" THEN {Done(untrackPeer(w.st, p, k))} ELSE {w}
      BY <3>1 DEF left, Then
    <3>3. PICK z \in removePeerOnlyFromInterface(y.st, n, k) :
            w \in IF z.err = "ok" THEN {z}
                  ELSE {Outcome(r.st, rollbackFailure(z.err, r.err)) :
                          r \in rollbackSharedMigration(z.st, p, q, k, a)}
      BY DEF Catch
    <3>4. /\ PeerStep(y.st, z.st, n, k) /\ z.err \in {"ok", "failed"}
          /\ z.err = "ok" => <<n, k>> \notin z.st.kpeers
      BY <1>3, <2>4, RemovePeerOnlyStep
    <3>5. Inv(z.st) /\ Tracked(z.st) = Tracked(y.st) /\ z.st.ifaces = y.st.ifaces
      BY <1>3, <2>3, <2>5, <3>4, TrackedPeerStep
    <3>6. CASE z.err = "ok"
      <4>1. o = Done(untrackPeer(z.st, p, k))
        BY <3>2, <3>3, <3>6
      <4>2. o.st = untrackPeer(z.st, p, k) /\ o.err = "ok"
        BY <4>1 DEF Done, Outcome
      <4>3. Inv(o.st)
        <5>1. p \in Tracked(z.st) /\ z.st.ifaces[p].name = n
          BY <2>5, <3>5
        <5>2. <<z.st.ifaces[p].name, k>> \notin z.st.kpeers
          BY <3>4, <3>6, <5>1
        <5>3. Inv(untrackPeer(z.st, p, k))
          BY <3>5, <5>1, <5>2, UntrackInv
        <5> QED BY <4>2, <5>3
      <4> QED BY <4>2, <4>3 DEF Errors
    <3>7. CASE z.err # "ok"
      <4>1. PICK r \in rollbackSharedMigration(z.st, p, q, k, a) :
              w = Outcome(r.st, rollbackFailure(z.err, r.err))
        BY <3>3, <3>7
      <4>2. Inv(r.st)
        BY <1>3, <2>3, <2>5, <2>7, <3>5, RollbackSharedInv
      <4>3. w.st = r.st /\ w.err \in Errors /\ w.err # "ok"
        BY <3>4, <3>7, <4>1 DEF Outcome, rollbackFailure, Errors
      <4> QED BY <3>2, <4>2, <4>3
    <3> QED BY <3>6, <3>7
  <2> QED BY <2>6, <2>7
<1> QED BY <1>5, <1>6

\* Pool.MigratePeer keeps the invariant.
LEMMA MigratePeerInv ==
  ASSUME NEW s, NEW p \in Profiles, NEW q \in Profiles, NEW oldReq, NEW req \in Nat,
         NEW k \in Keys, NEW a \in Addrs, Inv(s),
         NEW o \in MigratePeer(s, p, oldReq, q, req, k, a)
  PROVE  Inv(o.st) /\ o.err \in Errors
<1>1. \/ o.st = s /\ o.err \in Errors
      \/ HasPeer(s, p, k) /\ o \in migrateSolePeer(s, p, q, req, k, a)
      \/ HasPeer(s, p, k) /\ p # q /\ o \in migrateSharedPeer(s, p, q, req, k, a)
  <2>1. CASE HasPeer(s, p, k) /\ p = q /\ s.ifaces[p].count # 1
    <3>1. s.ifaces[p].count \in Nat
      BY <2>1, TrackedName DEF HasPeer, Iface, Inv, Books
    <3>2. s.ifaces[p].count > 1
      BY <2>1, <3>1 DEF HasPeer
    <3> QED BY <2>1, <3>2 DEF MigratePeer, Done, Outcome, Errors
  <2>2. CASE ~(HasPeer(s, p, k) /\ p = q /\ s.ifaces[p].count # 1)
    BY <2>2 DEF MigratePeer, Done, Outcome, Errors
  <2> QED BY <2>1, <2>2
<1> QED BY <1>1, MigrateSoleInv, MigrateSharedInv

\* Counting failures does not matter.
LEMMA FaultsInv ==
  ASSUME NEW s, NEW t, Inv(s), t \in States,
         t.ifaces = s.ifaces, t.orphans = s.orphans, t.usedPorts = s.usedPorts,
         t.nextIndex = s.nextIndex, t.masqAdded = s.masqAdded, t.links = s.links,
         t.listen = s.listen, t.kpeers = s.kpeers, t.masq = s.masq
  PROVE  Inv(t)
<1>1. Tracked(t) = Tracked(s)
  BY DEF Tracked
<1>2. HostAccountedIn(t)
  BY <1>1 DEF Inv, Books, HostAccountedIn
<1>3. CountsPeersIn(t) /\ WithinLimitIn(t) /\ NamesAndSizes(t)
  BY <1>1 DEF Inv, Books, CountsPeersIn, WithinLimitIn, NamesAndSizes
<1>4. MasqueradedIn(t)
  BY <1>1 DEF Inv, Books, MasqueradedIn
<1>5. LivePeersTrackedIn(t)
  BY <1>1 DEF Inv, LivePeersTrackedIn
<1> QED BY <1>2, <1>3, <1>4, <1>5 DEF Inv, Books

\* What Close could not destroy stays tracked, with its ports and peers.
LEMMA CloseInterfacesInv ==
  ASSUME NEW s, Inv(s), NEW stuckP, stuckP \subseteq Tracked(s),
         NEW stuckO, stuckO \subseteq s.orphans
  PROVE  Inv(closeInterfaces(s, stuckP, stuckO))
<1> DEFINE goneP == Tracked(s) \ stuckP
           goneO == s.orphans \ stuckO
           ports == {s.ifaces[p].port : p \in goneP} \cup {o.port : o \in goneO}
           names == {s.ifaces[p].name : p \in goneP} \cup {o.name : o \in goneO}
           v     == Unlinked(s, names)
           f     == [p \in Profiles |-> IF p \in goneP THEN NoIface ELSE s.ifaces[p]]
           cP    == Cardinality(stuckP)
           cO    == Cardinality(stuckO)
           t     == closeInterfaces(s, stuckP, stuckO)
<1>1. s \in States /\ IsFiniteSet(Tracked(s)) /\ IsFiniteSet(s.orphans)
  BY DEF Inv, Books, NamesAndSizes
<1>2. /\ IsFiniteSet(stuckP) /\ IsFiniteSet(stuckO)
      /\ Cardinality(stuckP) <= Cardinality(Tracked(s))
      /\ Cardinality(stuckO) <= Cardinality(s.orphans)
  BY <1>1, FS_Subset
<1>3. /\ Cardinality(stuckP) \in Nat /\ Cardinality(stuckO) \in Nat
      /\ Cardinality(Tracked(s)) \in Nat /\ Cardinality(s.orphans) \in Nat
  BY <1>1, <1>2, FS_CardinalityType
<1>4. f \in [Profiles -> Iface]
  BY <1>1 DEF States, NoIface, Iface
<1>5. /\ v \in States
      /\ v.orphans = s.orphans /\ v.usedPorts = s.usedPorts
      /\ v.nextIndex = s.nextIndex /\ v.masqAdded = s.masqAdded /\ v.masq = s.masq
      /\ v.links = s.links \ names
      /\ v.listen = {l \in s.listen : l[1] \notin names}
      /\ v.kpeers = {x \in s.kpeers : x[1] \notin names}
  BY <1>1, UnlinkedFields
<1>6. /\ t \in States /\ t.ifaces = f /\ t.orphans = stuckO
      /\ t.usedPorts = s.usedPorts \ ports
      /\ t.nextIndex = s.nextIndex /\ t.masqAdded = s.masqAdded /\ t.masq = s.masq
      /\ t.links = s.links \ names
      /\ t.listen = {l \in s.listen : l[1] \notin names}
      /\ t.kpeers = {x \in s.kpeers : x[1] \notin names}
  <2>1. t = [v EXCEPT !.ifaces = f, !.orphans = stuckO, !.usedPorts = @ \ ports,
                      !.faults = @ + cP + cO]
    BY DEF closeInterfaces
  <2>2. stuckO \in SUBSET [name: Nat, port: Nat] /\ cP \in Nat /\ cO \in Nat
    BY <1>1, <1>3 DEF States
  <2> HIDE DEF t, v, f, names, ports, cP, cO
  <2>3. t \in States
    <3> DEFINE w == [v EXCEPT !.ifaces = f, !.orphans = stuckO]
    <3>1. v \in States
      BY <1>5
    <3>2. w \in States
      BY <1>4, <2>2, <3>1 DEF States
    <3>3. t = [w EXCEPT !.usedPorts = @ \ ports, !.faults = @ + cP + cO]
      BY <2>1, <3>1 DEF States
    <3> HIDE DEF w
    <3> DEFINE x == [w EXCEPT !.usedPorts = @ \ ports]
    <3>4. x \in States
      BY <3>2 DEF States
    <3>5. t = [x EXCEPT !.faults = @ + cP + cO]
      BY <3>2, <3>3 DEF States
    <3> HIDE DEF x
    <3>6. x.faults + cP + cO \in Nat
      BY <2>2, <3>4 DEF States
    <3> QED BY <3>4, <3>5, <3>6 DEF States
  <2>4. /\ t.ifaces = f /\ t.orphans = stuckO /\ t.usedPorts = v.usedPorts \ ports
        /\ t.nextIndex = v.nextIndex /\ t.masqAdded = v.masqAdded /\ t.masq = v.masq
        /\ t.links = v.links /\ t.listen = v.listen /\ t.kpeers = v.kpeers
    BY <1>5, <2>1 DEF States
  <2> QED BY <1>5, <2>3, <2>4
<1> HIDE DEF t, v
<1>7. Tracked(t) = stuckP /\ \A p \in stuckP : p \in Profiles /\ t.ifaces[p] = s.ifaces[p]
  BY <1>6 DEF Tracked, NoIface
<1>8. \A p \in Profiles : t.ifaces[p] = s.ifaces[p] \/ t.ifaces[p] = NoIface
  BY <1>6
\* A tracked interface or an orphan is gone exactly when its name, or its
\* port, is among those of the gone ones.
<1>9. /\ \A p \in Tracked(s) : /\ s.ifaces[p].name \in names <=> p \notin stuckP
                               /\ s.ifaces[p].port \in ports <=> p \notin stuckP
      /\ \A o \in s.orphans : /\ o.name \in names <=> o \notin stuckO
                              /\ o.port \in ports <=> o \notin stuckO
  <2>1. ASSUME NEW p \in Tracked(s)
        PROVE  /\ s.ifaces[p].name \in names <=> p \notin stuckP
               /\ s.ifaces[p].port \in ports <=> p \notin stuckP
    BY DEF Inv, Books, HostAccountedIn
  <2>2. ASSUME NEW o \in s.orphans
        PROVE  /\ o.name \in names <=> o \notin stuckO
               /\ o.port \in ports <=> o \notin stuckO
    BY DEF Inv, Books, HostAccountedIn
  <2> QED BY <2>1, <2>2
<1> HIDE DEF names, ports, f
<1>10. HostAccountedIn(t)
  <2>1. t.links = {t.ifaces[q].name : q \in Tracked(t)} \cup {r.name : r \in t.orphans}
    BY <1>6, <1>7, <1>9 DEF Inv, Books, HostAccountedIn
  <2>2. t.usedPorts = {t.ifaces[q].port : q \in Tracked(t)} \cup {r.port : r \in t.orphans}
    BY <1>6, <1>7, <1>9 DEF Inv, Books, HostAccountedIn
  <2>3. \A l \in t.listen : \/ \E q \in Tracked(t) : l = <<t.ifaces[q].name, t.ifaces[q].port>>
                            \/ \E r \in t.orphans : l = <<r.name, r.port>>
    BY <1>6, <1>7, <1>9 DEF Inv, Books, HostAccountedIn
  <2>4. \A q, r \in Tracked(t) :
          q # r => t.ifaces[q].name # t.ifaces[r].name /\ t.ifaces[q].port # t.ifaces[r].port
    BY <1>7 DEF Inv, Books, HostAccountedIn
  <2>5. \A q \in Tracked(t), r \in t.orphans :
          t.ifaces[q].name # r.name /\ t.ifaces[q].port # r.port
    BY <1>6, <1>7 DEF Inv, Books, HostAccountedIn
  <2>6. \A q, r \in t.orphans : q # r => q.name # r.name /\ q.port # r.port
    BY <1>6 DEF Inv, Books, HostAccountedIn
  <2> QED BY <2>1, <2>2, <2>3, <2>4, <2>5, <2>6 DEF HostAccountedIn
<1>11. CountsPeersIn(t) /\ \A p \in Profiles : IsFiniteSet(t.ifaces[p].peers)
  <2>1. NoIface.count = 0 /\ NoIface.peers = {}
    BY DEF NoIface
  <2>2. IsFiniteSet({}) /\ Cardinality({}) = 0
    BY FS_EmptySet
  <2>3. CountsPeersIn(t)
    BY <1>8, <2>1, <2>2 DEF Inv, Books, CountsPeersIn
  <2>4. \A p \in Profiles : IsFiniteSet(t.ifaces[p].peers)
    BY <1>8, <2>1, <2>2 DEF Inv, Books, NamesAndSizes
  <2> QED BY <2>3, <2>4
<1>12. WithinLimitIn(t)
  BY <1>2, <1>3, <1>6, <1>7, LimitAssumption DEF Inv, Books, WithinLimitIn
<1>13. NamesAndSizes(t)
  BY <1>2, <1>6, <1>7, <1>11 DEF Inv, Books, NamesAndSizes
<1>14. MasqueradedIn(t)
  BY <1>6, <1>7 DEF Inv, Books, MasqueradedIn
<1>15. LivePeersTrackedIn(t)
  BY <1>6, <1>7, <1>9 DEF Inv, LivePeersTrackedIn
<1> QED BY <1>6, <1>10, <1>11, <1>12, <1>13, <1>14, <1>15 DEF Inv, Books, t

\* Removing the NAT rule at the end of Close keeps the invariant.
LEMMA CloseMasqueradeInv ==
  ASSUME NEW s, Inv(s), NEW o \in closeMasquerade(s)
  PROVE  Inv(o.st)
<1> DEFINE e == [s EXCEPT !.masq = @ - 1, !.masqAdded = FALSE]
<1>1. CASE ~(s.masqAdded /\ Tracked(s) = {} /\ s.orphans = {})
  <2>1. o = Done(s)
    BY <1>1 DEF closeMasquerade
  <2> QED BY <2>1 DEF Done, Outcome
<1>2. CASE s.masqAdded /\ Tracked(s) = {} /\ s.orphans = {}
  <2>1. PICK c \in Command(s, s.masq > 0, e) :
          o \in IF c.err = "ok" THEN {c} ELSE {Done(c.st)}
    BY <1>2 DEF closeMasquerade, Catch
  <2>2. Outcomes(s, c, e)
    BY Zenon DEF Outcomes, Command, Done, Outcome
  <2>3. o.st = c.st
    BY <2>1 DEF Done, Outcome
  <2>4. s \in States /\ s.masq = 1
    BY <1>2 DEF Inv, Books, MasqueradedIn
  <2>5. Inv(Faulted(s))
    <3>1. /\ Faulted(s) \in States
          /\ Faulted(s).ifaces = s.ifaces /\ Faulted(s).orphans = s.orphans
          /\ Faulted(s).usedPorts = s.usedPorts /\ Faulted(s).nextIndex = s.nextIndex
          /\ Faulted(s).masqAdded = s.masqAdded /\ Faulted(s).links = s.links
          /\ Faulted(s).listen = s.listen /\ Faulted(s).kpeers = s.kpeers
          /\ Faulted(s).masq = s.masq
      BY <2>4, PeerStepRefl DEF PeerStep
    <3> QED BY <3>1, FaultsInv
  <2>6. Inv(e)
    <3>1. e \in States
      <4> DEFINE g == [s EXCEPT !.masq = @ - 1]
      <4>1. g \in States
        BY <2>4 DEF States
      <4>2. e = [g EXCEPT !.masqAdded = FALSE]
        OBVIOUS
      <4> HIDE DEF g, e
      <4> QED BY <4>1, <4>2 DEF States
    <3>2. /\ e.ifaces = s.ifaces /\ e.orphans = s.orphans
          /\ e.usedPorts = s.usedPorts /\ e.nextIndex = s.nextIndex
          /\ e.links = s.links /\ e.listen = s.listen /\ e.kpeers = s.kpeers
          /\ e.masq = 0
      BY <2>4 DEF States
    <3>3. e.masqAdded = FALSE
      BY <2>4 DEF States
    <3> HIDE DEF e
    <3>4. Tracked(e) = Tracked(s)
      BY <3>2 DEF Tracked
    <3>5. HostAccountedIn(e)
      BY <3>2, <3>4 DEF Inv, Books, HostAccountedIn
    <3>6. CountsPeersIn(e) /\ WithinLimitIn(e) /\ NamesAndSizes(e)
      BY <3>2, <3>4 DEF Inv, Books, CountsPeersIn, WithinLimitIn, NamesAndSizes
    <3>7. MasqueradedIn(e)
      BY <1>2, <3>2, <3>3, <3>4 DEF MasqueradedIn
    <3>8. LivePeersTrackedIn(e)
      BY <3>2, <3>4 DEF Inv, LivePeersTrackedIn
    <3> QED BY <3>1, <3>5, <3>6, <3>7, <3>8 DEF Inv, Books
  <2> HIDE DEF e
  <2>7. c.st = e \/ c.st = s \/ c.st = Faulted(s)
    BY <2>2 DEF Outcomes
  <2> QED BY <2>3, <2>5, <2>6, <2>7
<1> QED BY <1>1, <1>2

\* Pool.Close keeps the invariant, whatever it could not destroy.
LEMMA CloseInv ==
  ASSUME NEW s, Inv(s), NEW o \in Close(s)
  PROVE  Inv(o.st)
<1>1. PICK x \in (SUBSET Tracked(s)) \X (SUBSET s.orphans) :
        o \in closeMasquerade(closeInterfaces(s, x[1], x[2]))
  BY DEF Close
<1>2. Inv(closeInterfaces(s, x[1], x[2]))
  BY CloseInterfacesInv
<1> QED BY <1>1, <1>2, CloseMasqueradeInv

-----------------------------------------------------------------------------
(***************************************************************************)
(* The specification.                                                      *)
(***************************************************************************)
\* The inductive invariant of Spec.
PoolInv == Inv(pool) /\ last \in Calls

\* A new pool satisfies the invariant.
LEMMA InitInv == Init => Inv(pool) /\ last \in Calls
<1> SUFFICES ASSUME Init PROVE Inv(pool) /\ last \in Calls
  OBVIOUS
<1>1. pool = EmptyPool /\ last \in Calls
  BY DEF Init, Calls
<1>2. pool \in States
  BY <1>1 DEF EmptyPool, States, NoIface, Iface
<1>3. /\ pool.orphans = {} /\ pool.usedPorts = {} /\ pool.links = {} /\ pool.listen = {}
      /\ pool.kpeers = {} /\ pool.masq = 0
      /\ \A p \in Profiles : pool.ifaces[p] = NoIface
  BY <1>1 DEF EmptyPool
<1>4. pool.masqAdded = FALSE
  BY <1>1 DEF EmptyPool
<1>5. NoIface.name = NoName /\ NoIface.count = 0 /\ NoIface.peers = {}
  BY DEF NoIface
<1>6. Tracked(pool) = {}
  BY <1>3, <1>5 DEF Tracked
<1>7. IsFiniteSet({}) /\ Cardinality({}) = 0
  BY FS_EmptySet
<1>8. HostAccountedIn(pool)
  BY <1>3, <1>6 DEF HostAccountedIn
<1>9. CountsPeersIn(pool)
  BY <1>3, <1>5, <1>7 DEF CountsPeersIn
<1>10. WithinLimitIn(pool)
  BY <1>3, <1>6, <1>7, LimitAssumption DEF WithinLimitIn
<1>11. NamesAndSizes(pool)
  BY <1>3, <1>5, <1>6, <1>7 DEF NamesAndSizes
<1>12. MasqueradedIn(pool)
  BY <1>3, <1>4, <1>6 DEF MasqueradedIn
<1>13. LivePeersTrackedIn(pool)
  BY <1>3 DEF LivePeersTrackedIn
<1> QED BY <1>1, <1>2, <1>8, <1>9, <1>10, <1>11, <1>12, <1>13 DEF Inv, Books

\* Every call of a pool method keeps the invariant.
LEMMA NextInv == Inv(pool) /\ last \in Calls /\ [Next]_vars => Inv(pool') /\ last' \in Calls
<1> SUFFICES ASSUME Inv(pool), last \in Calls, [Next]_vars
             PROVE  Inv(pool') /\ last' \in Calls
  OBVIOUS
<1>1. Inv(Fresh)
  <2>1. pool \in States
    BY DEF Inv, Books
  <2>2. /\ Fresh \in States
        /\ Fresh.ifaces = pool.ifaces /\ Fresh.orphans = pool.orphans
        /\ Fresh.usedPorts = pool.usedPorts /\ Fresh.nextIndex = pool.nextIndex
        /\ Fresh.masqAdded = pool.masqAdded /\ Fresh.links = pool.links
        /\ Fresh.listen = pool.listen /\ Fresh.kpeers = pool.kpeers
        /\ Fresh.masq = pool.masq
    BY <2>1 DEF Fresh, States
  <2> QED BY <2>2, FaultsInv
<1>2. ASSUME NEW p \in Profiles, NEW req \in Requests, NEW k \in Keys, AddPeerCall(p, req, k)
      PROVE  Inv(pool') /\ last' \in Calls
  <2>1. PICK o \in AddPeer(Fresh, p, req, k, AddrOf[k]) :
          /\ pool' = o.st
          /\ last' = [op |-> "AddPeer", key |-> k, to |-> p, req |-> req, err |-> o.err]
    BY <1>2 DEF AddPeerCall
  <2>2. req \in Nat /\ AddrOf[k] \in Addrs
    BY RequestAssumption, AddrAssumption
  <2>3. Keeps(Fresh, o, p)
    BY <1>1, <2>2, AddPeerInv
  <2> QED BY <2>1, <2>2, <2>3 DEF Keeps, Calls
<1>3. ASSUME NEW p \in Profiles, NEW k \in Keys, RemovePeerCall(p, k)
      PROVE  Inv(pool') /\ last' \in Calls
  <2>1. PICK o \in RemovePeer(Fresh, p, k, AddrOf[k]) :
          /\ pool' = o.st
          /\ last' = [op |-> "RemovePeer", key |-> k, from |-> p, err |-> o.err]
    BY <1>3 DEF RemovePeerCall
  <2>2. Keeps(Fresh, o, p)
    BY <1>1, RemovePeerInv, AddrAssumption
  <2> QED BY <2>1, <2>2 DEF Keeps, Calls
<1>4. ASSUME NEW p \in Profiles, NEW q \in Profiles, NEW oldReq \in Requests,
             NEW req \in Requests, NEW k \in Keys, MigratePeerCall(p, oldReq, q, req, k)
      PROVE  Inv(pool') /\ last' \in Calls
  <2>1. PICK o \in MigratePeer(Fresh, p, oldReq, q, req, k, AddrOf[k]) :
          /\ pool' = o.st
          /\ last' = [op |-> "MigratePeer", key |-> k, from |-> p, to |-> q,
                      req |-> req, err |-> o.err]
    BY <1>4 DEF MigratePeerCall
  <2>2. req \in Nat /\ AddrOf[k] \in Addrs
    BY RequestAssumption, AddrAssumption
  <2>3. Inv(o.st) /\ o.err \in Errors
    BY <1>1, <2>2, MigratePeerInv
  <2> QED BY <2>1, <2>2, <2>3 DEF Calls
<1>5. CASE CloseCall
  <2>1. PICK o \in Close(Fresh) : pool' = o.st /\ last' = [op |-> "Close"]
    BY <1>5 DEF CloseCall
  <2>2. Inv(o.st)
    BY <1>1, CloseInv
  <2> QED BY <2>1, <2>2 DEF Calls
<1>6. CASE UNCHANGED vars
  BY <1>6 DEF vars
<1> QED BY <1>2, <1>3, <1>4, <1>5, <1>6 DEF Next

\* The inductive invariant: the books of the pool agree with the host, every
\* kernel peer is tracked, interface numbers are never reused and the counted
\* sets are finite, after any number of operations with any number of failures.
THEOREM Invariance == Spec => []PoolInv
<1>1. Init => PoolInv
  BY InitInv DEF PoolInv
<1>2. PoolInv /\ [Next]_vars => PoolInv'
  BY NextInv DEF PoolInv
<1> QED BY <1>1, <1>2, PTL DEF Spec

\* The pool stays a well-formed structure: no operation drives peerCount below
\* zero or loses a field of the structure.
THEOREM TypeCorrect == Spec => []TypeOK
<1>1. PoolInv => TypeOK
  BY DEF PoolInv, Inv, Books, TypeOK
<1> QED BY <1>1, Invariance, PTL

\* No operation of the pool ever loses sight of a kernel interface or its port.
THEOREM HostStaysAccounted == Spec => []HostAccounted
<1>1. PoolInv => HostAccounted
  BY DEF PoolInv, Inv, Books, HostAccounted
<1> QED BY <1>1, Invariance, PTL

\* A peer live in the kernel is always one the pool can remove.
THEOREM LivePeersStayTracked == Spec => []LivePeersTracked
<1>1. PoolInv => LivePeersTracked
  BY DEF PoolInv, Inv, LivePeersTracked
<1> QED BY <1>1, Invariance, PTL

\* peerCount is the number of tracked peers, whatever failed before.
THEOREM CountsStayExact == Spec => []CountsPeers
<1>1. PoolInv => CountsPeers
  BY DEF PoolInv, Inv, Books, CountsPeers
<1> QED BY <1>1, Invariance, PTL

\* The interface limit holds, orphans and recreated interfaces included.
THEOREM LimitHolds == Spec => []WithinLimit
<1>1. PoolInv => WithinLimit
  BY DEF PoolInv, Inv, Books, WithinLimit
<1> QED BY <1>1, Invariance, PTL

\* Tracked interfaces are masqueraded by exactly one rule.
THEOREM MasqueradeHolds == Spec => []Masqueraded
<1>1. PoolInv => Masqueraded
  BY DEF PoolInv, Inv, Books, Masqueraded
<1> QED BY <1>1, Invariance, PTL

-----------------------------------------------------------------------------
(***************************************************************************)
(* Errors keep the books.                                                  *)
(***************************************************************************)
\* One call keeps the books in order and, if it ends in a plain error, the peers.
CallKeeps ==
  /\ Sound(pool')
  /\ (last'.op # "Close" /\ Plain(last'.err)) =>
       /\ pool'.orphans = pool.orphans
       /\ TrackedOnce(last'.key) => Kept(pool, pool')

\* Every call of a pool method is such a step.
LEMMA NextKeeps == Sound(pool) /\ Next => CallKeeps
<1> SUFFICES ASSUME Sound(pool), Next PROVE CallKeeps
  OBVIOUS
<1>1. SameBooks(pool, Fresh) /\ Sound(Fresh) /\ Kept(pool, Fresh)
  <2>1. pool \in States
    BY DEF Sound
  <2>2. /\ Fresh \in States /\ Fresh.ifaces = pool.ifaces /\ Fresh.orphans = pool.orphans
        /\ Fresh.masqAdded = pool.masqAdded /\ Fresh.masq = pool.masq
    BY <2>1 DEF Fresh, States
  <2>3. SameBooks(pool, Fresh)
    BY <2>2 DEF SameBooks, Unruled
  <2> QED BY <2>3, SameSound, SameKept
<1>2. ASSUME NEW t, Kept(Fresh, t) PROVE Kept(pool, t) /\ t.orphans = pool.orphans
  BY <1>1, <1>2, KeptTrans DEF Kept
<1> HIDE DEF Fresh
<1>3. ASSUME NEW p \in Profiles, NEW req \in Requests, NEW k \in Keys, AddPeerCall(p, req, k)
      PROVE  CallKeeps
  <2>1. PICK o \in AddPeer(Fresh, p, req, k, AddrOf[k]) :
          /\ pool' = o.st
          /\ last' = [op |-> "AddPeer", key |-> k, to |-> p, req |-> req, err |-> o.err]
    BY <1>3 DEF AddPeerCall
  <2>2. req \in Nat /\ AddrOf[k] \in Addrs
    BY RequestAssumption, AddrAssumption
  <2>3. Touches(Fresh, o.st, p) /\ (Plain(o.err) => Kept(Fresh, o.st))
    BY <1>1, <2>2, AddPeerEffect
  <2> QED BY <1>2, <2>1, <2>3 DEF CallKeeps, Touches
<1>4. ASSUME NEW p \in Profiles, NEW k \in Keys, RemovePeerCall(p, k)
      PROVE  CallKeeps
  <2>1. PICK o \in RemovePeer(Fresh, p, k, AddrOf[k]) :
          /\ pool' = o.st
          /\ last' = [op |-> "RemovePeer", key |-> k, from |-> p, err |-> o.err]
    BY <1>4 DEF RemovePeerCall
  <2>2. AddrOf[k] \in Addrs
    BY AddrAssumption
  <2>3. Touches(Fresh, o.st, p) /\ (Plain(o.err) => Kept(Fresh, o.st))
    BY <1>1, <2>2, RemovePeerEffect
  <2> QED BY <1>2, <2>1, <2>3 DEF CallKeeps, Touches
<1>5. ASSUME NEW p \in Profiles, NEW q \in Profiles, NEW oldReq \in Requests,
             NEW req \in Requests, NEW k \in Keys, MigratePeerCall(p, oldReq, q, req, k)
      PROVE  CallKeeps
  <2>1. PICK o \in MigratePeer(Fresh, p, oldReq, q, req, k, AddrOf[k]) :
          /\ pool' = o.st
          /\ last' = [op |-> "MigratePeer", key |-> k, from |-> p, to |-> q,
                      req |-> req, err |-> o.err]
    BY <1>5 DEF MigratePeerCall
  <2>2. req \in Nat /\ AddrOf[k] \in Addrs
    BY RequestAssumption, AddrAssumption
  <2>3. /\ Touches2(Fresh, o.st, p, q)
        /\ Plain(o.err) => /\ o.st.orphans = Fresh.orphans
                           /\ (p # q => k \notin Fresh.ifaces[q].peers) => Kept(Fresh, o.st)
    BY <1>1, <2>2, MigrateEffect
  <2>4. last'.key = k /\ last'.err = o.err
    BY <2>1
  <2>5. ASSUME Plain(o.err), TrackedOnce(k) PROVE Kept(pool, o.st)
    <3>1. CASE p # q => k \notin Fresh.ifaces[q].peers
      BY <1>2, <2>3, <2>5, <3>1
    <3>2. CASE p # q /\ k \in Fresh.ifaces[q].peers
      \* k is on q, so not on p: the migration is refused.
      <4>1. k \notin Fresh.ifaces[p].peers
        BY <1>1, <2>5, <3>2 DEF TrackedOnce, SameBooks
      <4>2. o = Outcome(Fresh, "refused")
        BY <4>1 DEF MigratePeer, HasPeer
      <4>3. o.st = Fresh
        BY <4>2 DEF Outcome
      <4> QED BY <1>1, <4>3
    <3> QED BY <3>1, <3>2
  <2> QED BY <1>1, <2>1, <2>3, <2>4, <2>5 DEF CallKeeps, Touches2, SameBooks
<1>6. CASE CloseCall
  <2>1. PICK o \in Close(Fresh) : pool' = o.st /\ last' = [op |-> "Close"]
    BY <1>6 DEF CloseCall
  <2>2. Sound(o.st)
    BY <1>1, CloseEffect
  <2> QED BY <2>1, <2>2 DEF CallKeeps
<1> QED BY <1>3, <1>4, <1>5, <1>6 DEF Next

\* An error that reports no failed rollback has lost no peer, no port and no
\* interface, however many commands failed on the way.
THEOREM ErrorsKeepBooks == Spec => PlainErrorKeepsBooks
<1>1. Init => Sound(pool)
  BY EmptySound DEF Init
<1>2. Sound(pool) /\ [Next]_vars => Sound(pool)'
  <2>1. CASE Next
    BY <2>1, NextKeeps DEF CallKeeps
  <2>2. CASE UNCHANGED vars
    BY <2>2 DEF vars
  <2> QED BY <2>1, <2>2
<1>3. Sound(pool) /\ [Next]_vars =>
        [(last'.op # "Close" /\ last'.err \notin {"ok", "rollbackFailed"}) =>
           /\ pool'.orphans = pool.orphans
           /\ TrackedOnce(last'.key) =>
                \A p \in Profiles :
                  /\ pool'.ifaces[p].peers = pool.ifaces[p].peers
                  /\ pool.ifaces[p].peers # {} =>
                       pool'.ifaces[p].port = pool.ifaces[p].port]_vars
  BY NextKeeps DEF CallKeeps, Plain, Kept
<1> QED BY <1>1, <1>2, <1>3, PTL DEF Spec, PlainErrorKeepsBooks
=============================================================================
