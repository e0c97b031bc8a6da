--------------------------- MODULE ManagerService ---------------------------
(***************************************************************************)
(* What a server does for its clients when no command fails and no process *)
(* dies, proved for every set of clients, profiles, ports and addresses:   *)
(* the host holds exactly what the file asks for, and every plan that      *)
(* PrepareRestorePlan accepts is restored.                                 *)
(*                                                                         *)
(* The argument: as long as the books of the pool say exactly what the     *)
(* host holds (Tidy), no command is refused; what an operation of the pool *)
(* does is then known to the last route, and an error means that nothing   *)
(* has changed but, after a migration, the name of an interface.           *)
(***************************************************************************)
EXTENDS ManagerProofs, WellFoundedInduction

\* No command fails but one the kernel does not allow.
Reliable == MaxFaults = 0

\* The books of the pool and the host agree, and the limit is kept.
Tidy(s) ==
  /\ Sound(s) /\ s.faults = 0 /\ s.orphans = {}
  /\ \A p \in Tracked(s) : s.ifaces[p].name < s.nextIndex
  /\ \A p, q \in Tracked(s) :
       p # q => s.ifaces[p].name # s.ifaces[q].name /\ s.ifaces[p].port # s.ifaces[q].port
  /\ \A n : n \in s.links <=> \E p \in Tracked(s) : n = s.ifaces[p].name
  /\ \A l : l \in s.listen <=> \E p \in Tracked(s) : l = <<s.ifaces[p].name, s.ifaces[p].port>>
  /\ \A n : n \in s.usedPorts <=> \E p \in Tracked(s) : n = s.ifaces[p].port
  /\ \A x : x \in s.kpeers <=> \E p \in Tracked(s), k \in Keys :
                                 k \in s.ifaces[p].peers /\ x = <<s.ifaces[p].name, k>>
  /\ MaxInterfaces > 0 => Cardinality(Tracked(s)) <= MaxInterfaces

\* Only the entry of profile p differs.
Beside(s, t, p) == \A q \in Profiles : q # p => t.ifaces[q] = s.ifaces[q]

\* The outcomes of a command that the kernel allows.
Allowed(s, effect) ==
  {Done(effect)} \cup {x \in {Outcome(Faulted(s), "failed")} : s.faults < MaxFaults}

\* A command that is allowed has its effect.
LEMMA SureCommand ==
  ASSUME Reliable, NEW s, s.faults = 0, NEW effect,
         NEW o \in Allowed(s, effect)
  PROVE  o.st = effect /\ o.err = "ok"
<1>1. ~(s.faults < MaxFaults)
  BY DEF Reliable
<1>2. o = Done(effect)
  BY <1>1, Zenon DEF Allowed
<1> QED BY <1>2 DEF Done, Outcome

\* The same for a step outside the pool: Storage.Save, iptables-restore.
LEMMA SureAttempt ==
  ASSUME Reliable, NEW s, s.pool.faults = 0, NEW effect, NEW err,
         NEW o \in Attempt(s, effect, err)
  PROVE  o.st = effect /\ o.err = "ok"
<1>1. ~(s.pool.faults < MaxFaults)
  BY DEF Reliable
<1>2. o = Done(effect)
  BY <1>1, Zenon DEF Attempt
<1> QED BY <1>2 DEF Done, Outcome

-----------------------------------------------------------------------------
(***************************************************************************)
(* One peer of one interface.                                              *)
(***************************************************************************)
\* A peer that comes or goes in the books and on the host alike.
LEMMA TidyPeer ==
  ASSUME NEW s, Tidy(s), NEW p \in Tracked(s), NEW k \in Keys, NEW t, Sound(t),
         t.faults = 0, t.orphans = {}, t.nextIndex = s.nextIndex, t.links = s.links,
         t.listen = s.listen, t.usedPorts = s.usedPorts, Beside(s, t, p),
         t.ifaces[p].name = s.ifaces[p].name, t.ifaces[p].port = s.ifaces[p].port,
         t.ifaces[p].peers \ {k} = s.ifaces[p].peers \ {k},
         \A x : x \in t.kpeers <=> IF x = <<s.ifaces[p].name, k>> THEN k \in t.ifaces[p].peers
                                   ELSE x \in s.kpeers
  PROVE  Tidy(t) /\ Tracked(t) = Tracked(s)
<1>1. Tracked(t) = Tracked(s)
  BY DEF Tracked, Beside
<1>2. \A q \in Tracked(s) : t.ifaces[q].name = s.ifaces[q].name /\ t.ifaces[q].port = s.ifaces[q].port
  BY DEF Tracked, Beside
<1>3. /\ \A q \in Tracked(t) : t.ifaces[q].name < t.nextIndex
      /\ \A q, r \in Tracked(t) :
           q # r => t.ifaces[q].name # t.ifaces[r].name /\ t.ifaces[q].port # t.ifaces[r].port
      /\ MaxInterfaces > 0 => Cardinality(Tracked(t)) <= MaxInterfaces
  BY <1>1, <1>2 DEF Tidy
<1>4. \A n : n \in t.links <=> \E q \in Tracked(t) : n = t.ifaces[q].name
  BY <1>1, <1>2 DEF Tidy
<1>5. \A l : l \in t.listen <=> \E q \in Tracked(t) : l = <<t.ifaces[q].name, t.ifaces[q].port>>
  BY <1>1, <1>2 DEF Tidy
<1>6. \A n : n \in t.usedPorts <=> \E q \in Tracked(t) : n = t.ifaces[q].port
  BY <1>1, <1>2 DEF Tidy
<1>7. ASSUME NEW x
      PROVE  x \in t.kpeers <=> \E q \in Tracked(t), j \in Keys :
                                  j \in t.ifaces[q].peers /\ x = <<t.ifaces[q].name, j>>
  <2>1. CASE x = <<s.ifaces[p].name, k>>
    <3>1. \A q \in Tracked(s), j \in Keys : x = <<s.ifaces[q].name, j>> => q = p /\ j = k
      BY <2>1 DEF Tidy
    <3> QED BY <1>1, <1>2, <2>1, <3>1
  <2>2. CASE x # <<s.ifaces[p].name, k>>
    <3>1. \A q \in Tracked(s), j \in Keys :
            x = <<s.ifaces[q].name, j>> =>
              (j \in t.ifaces[q].peers <=> j \in s.ifaces[q].peers)
      BY <2>2 DEF Beside, Tracked
    <3>2. x \in t.kpeers <=> x \in s.kpeers
      BY <2>2
    <3>3. x \in s.kpeers <=> \E q \in Tracked(s), j \in Keys :
                               j \in s.ifaces[q].peers /\ x = <<s.ifaces[q].name, j>>
      BY DEF Tidy
    <3> QED BY <1>1, <1>2, <3>1, <3>2, <3>3
  <2> QED BY <2>1, <2>2
<1> QED BY <1>1, <1>3, <1>4, <1>5, <1>6, <1>7 DEF Tidy

\* trackPeer and untrackPeer change nothing but the entry of the profile.
LEMMA BookFields ==
  ASSUME NEW s \in States, NEW p \in Profiles, NEW k \in Keys
  PROVE  /\ trackPeer(s, p, k).usedPorts = s.usedPorts
         /\ trackPeer(s, p, k).nextIndex = s.nextIndex
         /\ trackPeer(s, p, k).faults = s.faults
         /\ untrackPeer(s, p, k).usedPorts = s.usedPorts
         /\ untrackPeer(s, p, k).nextIndex = s.nextIndex
         /\ untrackPeer(s, p, k).faults = s.faults
BY DEF trackPeer, untrackPeer, States

\* What Tidy says of one tracked profile.
LEMMA TidyFacts ==
  ASSUME NEW s, Tidy(s), NEW p \in Tracked(s)
  PROVE  /\ s \in States /\ Sound(s) /\ s.faults = 0 /\ s.orphans = {} /\ p \in Profiles
         /\ s.ifaces[p].name \in Nat /\ s.ifaces[p].name \in s.links
         /\ s.ifaces[p].name # NoName
         /\ s.ifaces[p].port \in Nat /\ s.ifaces[p].port # 0 /\ s.ifaces[p].port \in s.usedPorts
         /\ s.ifaces[p].peers \subseteq Keys /\ s.ifaces[p].count = Cardinality(s.ifaces[p].peers)
         /\ IsFiniteSet(s.ifaces[p].peers)
<1>1. s \in States /\ Sound(s) /\ s.faults = 0 /\ s.orphans = {}
  BY DEF Tidy, Sound
<1>2. p \in Profiles /\ s.ifaces[p].name \in Nat /\ s.ifaces[p] \in Iface
  BY <1>1, TrackedName
<1>3. s.ifaces[p].name \in s.links /\ s.ifaces[p].port \in s.usedPorts
  BY DEF Tidy
<1>4. s.ifaces[p].name # NoName
  BY DEF Tracked
<1>5. GoodIface(s.ifaces[p])
  BY <1>1, <1>2 DEF Sound
<1> QED BY <1>1, <1>2, <1>3, <1>4, <1>5 DEF GoodIface, Iface

\* addPeerLocked on a tracked interface succeeds: the peer and its route are set.
LEMMA SureAddLocked ==
  ASSUME Reliable, NEW s, Tidy(s), NEW p \in Tracked(s), NEW k \in Keys, NEW a \in Addrs,
         NEW o \in addPeerLocked(s, p, k, a)
  PROVE  /\ o.err = "ok" /\ Tidy(o.st) /\ Tracked(o.st) = Tracked(s) /\ Beside(s, o.st, p)
         /\ o.st.ifaces[p].name = s.ifaces[p].name /\ o.st.ifaces[p].port = s.ifaces[p].port
         /\ o.st.ifaces[p].peers = s.ifaces[p].peers \cup {k}
         /\ o.st.routes = [s.routes EXCEPT ![a] = s.ifaces[p].name]
<1> DEFINE n == s.ifaces[p].name
           u == [s EXCEPT !.kpeers = @ \cup {<<n, k>>}]
           v == [u EXCEPT !.routes[a] = n]
           w == trackPeer(v, p, k)
<1>1. /\ s \in States /\ Sound(s) /\ s.faults = 0 /\ s.orphans = {} /\ p \in Profiles
      /\ n \in Nat /\ n \in s.links
  BY TidyFacts
<1>2. /\ u \in States /\ u.kpeers = s.kpeers \cup {<<n, k>>} /\ u.routes = s.routes
      /\ u.ifaces = s.ifaces /\ u.orphans = s.orphans /\ u.usedPorts = s.usedPorts
      /\ u.nextIndex = s.nextIndex /\ u.masqAdded = s.masqAdded /\ u.links = s.links
      /\ u.listen = s.listen /\ u.masq = s.masq /\ u.faults = 0
  BY <1>1 DEF States
<1> HIDE DEF u
<1>3. /\ v \in States /\ v.kpeers = u.kpeers /\ v.routes = [s.routes EXCEPT ![a] = n]
      /\ v.ifaces = s.ifaces /\ v.orphans = s.orphans /\ v.usedPorts = s.usedPorts
      /\ v.nextIndex = s.nextIndex /\ v.masqAdded = s.masqAdded /\ v.links = s.links
      /\ v.listen = s.listen /\ v.masq = s.masq /\ v.faults = 0
  BY <1>1, <1>2 DEF States
<1> HIDE DEF v
<1>4. SameBooks(s, v)
  BY <1>3 DEF SameBooks, Unruled
<1>5. Sound(v) /\ Tracked(v) = Tracked(s)
  BY <1>1, <1>4, SameSound
<1>6. o = Done(w)
  <2>1. PICK x \in Catch(addPeerToInterface(s, n, k, a), LAMBDA y : undoFailedAdd(y.st, p, k, a)) :
          o \in IF x.err = "ok" THEN {Done(trackPeer(x.st, p, k))} ELSE {x}
    BY DEF addPeerLocked, Then
  <2>2. PICK y \in addPeerToInterface(s, n, k, a) :
          x \in IF y.err = "ok" THEN {y} ELSE undoFailedAdd(y.st, p, k, a)
    BY <2>1 DEF Catch
  <2>3. PICK z \in setPeerOnInterface(s, n, k) :
          y \in IF z.err = "ok" THEN replacePeerRoute(z.st, n, a) ELSE {z}
    BY <2>2 DEF addPeerToInterface, Then
  <2>4. z.st = u /\ z.err = "ok"
    <3>1. z \in Allowed(s, u)
      BY <1>1, <2>3, Zenon DEF setPeerOnInterface, Command, Allowed, u
    <3> QED BY <1>1, <3>1, SureCommand
  <2>5. y.st = v /\ y.err = "ok"
    <3>1. y \in Allowed(u, v)
      <4>1. n \in u.links /\ y \in replacePeerRoute(u, n, a)
        BY <1>1, <1>2, <2>3, <2>4
      <4> QED BY <4>1, Zenon DEF replacePeerRoute, Command, Allowed, v
    <3> QED BY <1>2, <3>1, SureCommand
  <2> QED BY <2>1, <2>2, <2>5
<1>7. o.st = w /\ o.err = "ok"
  BY <1>6 DEF Done, Outcome
<1>8. /\ Touches(v, w, p) /\ w.orphans = v.orphans /\ Tracked(w) = Tracked(v)
      /\ w.ifaces[p].peers = v.ifaces[p].peers \cup {k}
      /\ w.ifaces[p].port = v.ifaces[p].port /\ w.ifaces[p].name = v.ifaces[p].name
      /\ w.kpeers = v.kpeers /\ w.routes = v.routes /\ w.links = v.links /\ w.listen = v.listen
  BY <1>5, TrackEffect
<1>9. w.usedPorts = v.usedPorts /\ w.nextIndex = v.nextIndex /\ w.faults = v.faults
  BY <1>1, <1>3, BookFields
<1> HIDE DEF w
<1>10. Beside(s, w, p) /\ Sound(w)
  BY <1>3, <1>8 DEF Touches, Beside
<1>11. /\ w.ifaces[p].peers = s.ifaces[p].peers \cup {k}
       /\ w.ifaces[p].peers \ {k} = s.ifaces[p].peers \ {k}
       /\ w.ifaces[p].name = n /\ w.ifaces[p].port = s.ifaces[p].port
  BY <1>3, <1>8
<1>12. \A x : x \in w.kpeers <=> IF x = <<n, k>> THEN k \in w.ifaces[p].peers ELSE x \in s.kpeers
  BY <1>2, <1>3, <1>8, <1>11
<1>13. Tidy(w)
  BY <1>1, <1>3, <1>8, <1>9, <1>10, <1>11, <1>12, TidyPeer
<1> QED BY <1>3, <1>5, <1>7, <1>8, <1>10, <1>11, <1>13

\* A peer whose removal from the host succeeded leaves the books as well.
LEMMA TidyUntrack ==
  ASSUME NEW s, Tidy(s), NEW p \in Tracked(s), NEW k \in Keys, NEW v \in States,
         v.ifaces = s.ifaces, v.orphans = s.orphans, v.usedPorts = s.usedPorts,
         v.nextIndex = s.nextIndex, v.masqAdded = s.masqAdded, v.links = s.links,
         v.listen = s.listen, v.masq = s.masq, v.faults = 0,
         v.kpeers = s.kpeers \ {<<s.ifaces[p].name, k>>}
  PROVE  LET t == untrackPeer(v, p, k)
         IN /\ Tidy(t) /\ Tracked(t) = Tracked(s) /\ Beside(s, t, p)
            /\ t.ifaces[p].name = s.ifaces[p].name /\ t.ifaces[p].port = s.ifaces[p].port
            /\ t.ifaces[p].peers = s.ifaces[p].peers \ {k}
            /\ t.routes = v.routes
<1> DEFINE n == s.ifaces[p].name
           w == untrackPeer(v, p, k)
<1>1. s \in States /\ Sound(s) /\ s.orphans = {} /\ p \in Profiles
  BY TidyFacts
<1>2. SameBooks(s, v)
  BY DEF SameBooks, Unruled
<1>3. Sound(v) /\ Tracked(v) = Tracked(s)
  BY <1>1, <1>2, SameSound
<1>4. /\ Touches(v, w, p) /\ w.orphans = v.orphans /\ Tracked(w) = Tracked(v)
      /\ w.ifaces[p].peers = v.ifaces[p].peers \ {k}
      /\ w.ifaces[p].port = v.ifaces[p].port /\ w.ifaces[p].name = v.ifaces[p].name
      /\ w.kpeers = v.kpeers /\ w.routes = v.routes /\ w.links = v.links /\ w.listen = v.listen
  BY <1>3, UntrackEffect
<1>5. w.usedPorts = v.usedPorts /\ w.nextIndex = v.nextIndex /\ w.faults = v.faults
  BY <1>1, BookFields
<1> HIDE DEF w
<1>6. Beside(s, w, p) /\ Sound(w)
  BY <1>4 DEF Touches, Beside
<1>7. /\ w.ifaces[p].peers = s.ifaces[p].peers \ {k}
      /\ w.ifaces[p].peers \ {k} = s.ifaces[p].peers \ {k}
      /\ w.ifaces[p].name = n /\ w.ifaces[p].port = s.ifaces[p].port
  BY <1>4
<1>8. \A x : x \in w.kpeers <=> IF x = <<n, k>> THEN k \in w.ifaces[p].peers ELSE x \in s.kpeers
  BY <1>4, <1>7
<1>9. Tidy(w)
  BY <1>1, <1>4, <1>5, <1>6, <1>7, <1>8, TidyPeer
<1> QED BY <1>3, <1>4, <1>6, <1>7, <1>9 DEF w

\* removePeerOnlyFromInterface succeeds; with untrackPeer only the route is left.
LEMMA SureRemoveOnly ==
  ASSUME Reliable, NEW s, Tidy(s), NEW p \in Tracked(s), NEW k \in Keys,
         NEW o \in removePeerOnlyFromInterface(s, s.ifaces[p].name, k)
  PROVE  LET t == untrackPeer(o.st, p, k)
         IN /\ o.err = "ok" /\ Tidy(t) /\ Tracked(t) = Tracked(s) /\ Beside(s, t, p)
            /\ t.ifaces[p].name = s.ifaces[p].name /\ t.ifaces[p].port = s.ifaces[p].port
            /\ t.ifaces[p].peers = s.ifaces[p].peers \ {k}
            /\ t.routes = s.routes
<1> DEFINE n == s.ifaces[p].name
           u == [s EXCEPT !.kpeers = @ \ {<<n, k>>}]
<1>1. /\ s \in States /\ s.faults = 0 /\ p \in Profiles /\ n \in Nat /\ n \in s.links
  BY TidyFacts
<1>2. /\ u \in States /\ u.kpeers = s.kpeers \ {<<n, k>>} /\ u.routes = s.routes
      /\ u.ifaces = s.ifaces /\ u.orphans = s.orphans /\ u.usedPorts = s.usedPorts
      /\ u.nextIndex = s.nextIndex /\ u.masqAdded = s.masqAdded /\ u.links = s.links
      /\ u.listen = s.listen /\ u.masq = s.masq /\ u.faults = 0
  BY <1>1 DEF States
<1>3. o \in Allowed(s, u)
  BY <1>1, Zenon DEF removePeerOnlyFromInterface, Command, Allowed
<1> HIDE DEF u
<1>4. o.st = u /\ o.err = "ok"
  BY <1>1, <1>3, SureCommand
<1> QED BY <1>2, <1>4, TidyUntrack

\* removePeerFromInterface succeeds when the route leads to the interface.
LEMMA SureRemoveFrom ==
  ASSUME Reliable, NEW s, Tidy(s), NEW p \in Tracked(s), NEW k \in Keys, NEW a \in Addrs,
         s.routes[a] = s.ifaces[p].name,
         NEW o \in removePeerFromInterface(s, s.ifaces[p].name, k, a)
  PROVE  LET t == untrackPeer(o.st, p, k)
         IN /\ o.err = "ok" /\ Tidy(t) /\ Tracked(t) = Tracked(s) /\ Beside(s, t, p)
            /\ t.ifaces[p].name = s.ifaces[p].name /\ t.ifaces[p].port = s.ifaces[p].port
            /\ t.ifaces[p].peers = s.ifaces[p].peers \ {k}
            /\ t.routes = [s.routes EXCEPT ![a] = NoName]
<1> DEFINE n == s.ifaces[p].name
           u == [s EXCEPT !.kpeers = @ \ {<<n, k>>}]
           v == [u EXCEPT !.routes[a] = NoName]
<1>1. /\ s \in States /\ s.faults = 0 /\ p \in Profiles /\ n \in Nat /\ n \in s.links
  BY TidyFacts
<1>2. /\ u \in States /\ u.kpeers = s.kpeers \ {<<n, k>>} /\ u.routes = s.routes
      /\ u.ifaces = s.ifaces /\ u.orphans = s.orphans /\ u.usedPorts = s.usedPorts
      /\ u.nextIndex = s.nextIndex /\ u.masqAdded = s.masqAdded /\ u.links = s.links
      /\ u.listen = s.listen /\ u.masq = s.masq /\ u.faults = 0
  BY <1>1 DEF States
<1>3. PICK x \in removePeerOnlyFromInterface(s, n, k) :
        o \in IF x.err = "ok"
                THEN Catch(deletePeerRoute(x.st, n, a),
                           LAMBDA y : {Outcome(r.st, "failed") :
                                         r \in restorePeerAndRoute(y.st, n, k, a)})
                ELSE {x}
  BY DEF removePeerFromInterface, Then
<1>4. x \in Allowed(s, u)
  BY <1>1, <1>3, Zenon DEF removePeerOnlyFromInterface, Command, Allowed
<1> HIDE DEF u
<1>5. x.st = u /\ x.err = "ok"
  BY <1>1, <1>4, SureCommand
<1>6. /\ v \in States /\ v.kpeers = u.kpeers /\ v.routes = [s.routes EXCEPT ![a] = NoName]
      /\ v.ifaces = s.ifaces /\ v.orphans = s.orphans /\ v.usedPorts = s.usedPorts
      /\ v.nextIndex = s.nextIndex /\ v.masqAdded = s.masqAdded /\ v.links = s.links
      /\ v.listen = s.listen /\ v.masq = s.masq /\ v.faults = 0
  BY <1>1, <1>2 DEF States
<1>7. PICK y \in deletePeerRoute(u, n, a) :
        o \in IF y.err = "ok" THEN {y}
              ELSE {Outcome(r.st, "failed") : r \in restorePeerAndRoute(y.st, n, k, a)}
  BY <1>3, <1>5 DEF Catch
<1>8. y \in Allowed(u, v)
  <2>1. u.routes[a] = n
    BY <1>2
  <2> QED BY <1>7, <2>1, Zenon DEF deletePeerRoute, Command, Allowed, v
<1> HIDE DEF v
<1>9. y.st = v /\ y.err = "ok"
  BY <1>2, <1>8, SureCommand
<1>10. o.st = v /\ o.err = "ok"
  BY <1>7, <1>9
<1> QED BY <1>2, <1>6, <1>10, TidyUntrack

\* Destroying a tracked interface that has no peer succeeds: the link, its socket
\* and its routes go, and the profile is free.
LEMMA SureDestroy ==
  ASSUME Reliable, NEW s, Tidy(s), NEW p \in Tracked(s), s.ifaces[p].peers = {},
         NEW o \in destroyTrackedInterface(s, p)
  PROVE  /\ o.err = "ok" /\ Tidy(o.st) /\ Tracked(o.st) = Tracked(s) \ {p}
         /\ Beside(s, o.st, p) /\ o.st.ifaces[p] = NoIface
         /\ o.st.routes = [a \in Addrs |-> IF s.routes[a] = s.ifaces[p].name THEN NoName
                                           ELSE s.routes[a]]
<1> DEFINE n == s.ifaces[p].name
           u == Unlinked(s, {n})
           w == [u EXCEPT !.usedPorts = @ \ {s.ifaces[p].port}, !.ifaces[p] = NoIface]
<1>1. /\ s \in States /\ Sound(s) /\ s.faults = 0 /\ s.orphans = {} /\ p \in Profiles
      /\ n \in Nat /\ n \in s.links
  BY TidyFacts
<1>2. PICK x \in destroyInterface(s, n) : o \in IF x.err = "ok" THEN {Done(w)} ELSE {x}
  <2>1. PICK x \in destroyInterface(s, n) :
          o \in IF x.err = "ok"
                  THEN {Done([x.st EXCEPT !.usedPorts = @ \ {s.ifaces[p].port},
                                          !.ifaces[p] = NoIface])}
                  ELSE {x}
    BY DEF destroyTrackedInterface, Then
  <2>2. x \in Allowed(s, u)
    BY <1>1, <2>1, Zenon DEF destroyInterface, Command, Allowed
  <2> HIDE DEF u
  <2>3. x.st = u /\ x.err = "ok"
    BY <1>1, <2>2, SureCommand
  <2> QED BY <2>1, <2>3
<1>3. x \in Allowed(s, u)
  BY <1>1, <1>2, Zenon DEF destroyInterface, Command, Allowed
<1>4. /\ u \in States
      /\ u.ifaces = s.ifaces /\ u.orphans = s.orphans /\ u.usedPorts = s.usedPorts
      /\ u.nextIndex = s.nextIndex /\ u.masqAdded = s.masqAdded /\ u.masq = s.masq
      /\ u.links = s.links \ {n}
      /\ u.listen = {l \in s.listen : l[1] \notin {n}}
      /\ u.kpeers = {l \in s.kpeers : l[1] \notin {n}}
  BY <1>1, UnlinkedFields
<1>5. /\ u.faults = 0
      /\ u.routes = [a \in Addrs |-> IF s.routes[a] = n THEN NoName ELSE s.routes[a]]
  BY <1>1 DEF Unlinked, States
<1> HIDE DEF u
<1>6. x.st = u /\ x.err = "ok"
  BY <1>1, <1>3, SureCommand
<1>7. o.st = w /\ o.err = "ok"
  BY <1>2, <1>6 DEF Done, Outcome
<1>8. /\ w \in States /\ w.ifaces = [s.ifaces EXCEPT ![p] = NoIface] /\ w.orphans = {}
      /\ w.usedPorts = s.usedPorts \ {s.ifaces[p].port} /\ w.nextIndex = s.nextIndex
      /\ w.masqAdded = s.masqAdded /\ w.masq = s.masq /\ w.links = u.links
      /\ w.listen = u.listen /\ w.kpeers = u.kpeers /\ w.routes = u.routes /\ w.faults = 0
  <2> DEFINE y == [u EXCEPT !.usedPorts = @ \ {s.ifaces[p].port}]
  <2>1. /\ y \in States /\ y.ifaces = s.ifaces /\ y.orphans = {}
        /\ y.usedPorts = s.usedPorts \ {s.ifaces[p].port} /\ y.nextIndex = s.nextIndex
        /\ y.masqAdded = s.masqAdded /\ y.masq = s.masq /\ y.links = u.links
        /\ y.listen = u.listen /\ y.kpeers = u.kpeers /\ y.routes = u.routes /\ y.faults = 0
    BY <1>1, <1>4, <1>5 DEF States
  <2>2. w = [y EXCEPT !.ifaces[p] = NoIface]
    OBVIOUS
  <2> HIDE DEF y, w
  <2>3. NoIface \in Iface
    BY GoodIfaceFacts
  <2> QED BY <1>1, <2>1, <2>2, <2>3 DEF States
<1> HIDE DEF w
<1>9. w.ifaces[p] = NoIface /\ Beside(s, w, p) /\ Unruled(w) = Unruled(s)
  BY <1>1, <1>8 DEF States, Beside, Unruled
<1>10. Tracked(w) = Tracked(s) \ {p}
  BY <1>9 DEF Tracked, Beside, NoIface
<1>11. Sound(w)
  <2>1. IsFiniteSet(w.orphans) /\ GoodIface(w.ifaces[p])
    BY <1>8, <1>9, FS_EmptySet, GoodIfaceFacts
  <2>2. /\ Sound(s) /\ w \in States /\ p \in Profiles /\ Unruled(w) = Unruled(s)
        /\ \A q \in Profiles : q # p => w.ifaces[q] = s.ifaces[q]
    BY <1>1, <1>8, <1>9 DEF Beside
  <2>3. Touches(s, w, p)
    BY <2>1, <2>2, SoundAt, Zenon
  <2> QED BY <2>3 DEF Touches
<1>12. \A q \in Tracked(w) : w.ifaces[q] = s.ifaces[q] /\ q # p /\ q \in Tracked(s)
  BY <1>9, <1>10 DEF Beside, Tracked
<1>13. \A q \in Tracked(w) : s.ifaces[q].name # n /\ s.ifaces[q].port # s.ifaces[p].port
  BY <1>12 DEF Tidy
<1>14. \A i : i \in w.links <=> \E q \in Tracked(w) : i = w.ifaces[q].name
  BY <1>4, <1>8, <1>10, <1>12, <1>13 DEF Tidy
<1>15. \A i : i \in w.usedPorts <=> \E q \in Tracked(w) : i = w.ifaces[q].port
  BY <1>4, <1>8, <1>10, <1>12, <1>13 DEF Tidy
<1>16. \A l : l \in w.listen <=> \E q \in Tracked(w) : l = <<w.ifaces[q].name, w.ifaces[q].port>>
  <2>1. \A l : l \in w.listen <=> l \in s.listen /\ l[1] # n
    BY <1>4, <1>8
  <2>2. \A l : l \in s.listen <=> \E q \in Tracked(s) : l = <<s.ifaces[q].name, s.ifaces[q].port>>
    BY DEF Tidy
  <2> QED BY <1>10, <1>12, <1>13, <2>1, <2>2
<1>17. \A z : z \in w.kpeers <=> \E q \in Tracked(w), k \in Keys :
                                   k \in w.ifaces[q].peers /\ z = <<w.ifaces[q].name, k>>
  <2>1. \A z : z \in w.kpeers <=> z \in s.kpeers /\ z[1] # n
    BY <1>4, <1>8
  <2>2. \A z : z \in s.kpeers <=> \E q \in Tracked(s), k \in Keys :
                                    k \in s.ifaces[q].peers /\ z = <<s.ifaces[q].name, k>>
    BY DEF Tidy
  <2> QED BY <1>10, <1>12, <1>13, <2>1, <2>2
<1>18. MaxInterfaces > 0 => Cardinality(Tracked(w)) <= MaxInterfaces
  <2>1. IsFiniteSet(Tracked(s))
    BY <1>1 DEF Sound
  <2>2. Cardinality(Tracked(w)) = Cardinality(Tracked(s)) - 1 /\ Cardinality(Tracked(s)) \in Nat
    BY <1>10, <2>1, FS_RemoveElement, FS_CardinalityType
  <2> QED BY <2>2, LimitAssumption DEF Tidy
<1>19. \A q, r \in Tracked(w) :
         q # r => w.ifaces[q].name # w.ifaces[r].name /\ w.ifaces[q].port # w.ifaces[r].port
  BY <1>12 DEF Tidy
<1>20. \A q \in Tracked(w) : w.ifaces[q].name < w.nextIndex
  BY <1>8, <1>12 DEF Tidy
<1>21. Tidy(w)
  BY <1>8, <1>11, <1>14, <1>15, <1>16, <1>17, <1>18, <1>19, <1>20 DEF Tidy
<1> QED BY <1>5, <1>7, <1>8, <1>9, <1>10, <1>21

-----------------------------------------------------------------------------
(***************************************************************************)
(* A new interface.                                                        *)
(***************************************************************************)
\* bringUp succeeds on a link that exists and a port nobody listens on: the
\* socket is bound and the MASQUERADE rule is there.
LEMMA SureBringUp ==
  ASSUME Reliable, NEW s \in States, s.faults = 0, Unruled(s) >= 0,
         NEW n \in s.links, NEW port \in Nat,
         \A l \in s.listen : l[1] # n /\ l[2] # port,
         NEW o \in bringUp(s, n, port)
  PROVE  LET t == o.st
         IN /\ o.err = "ok" /\ t \in States
            /\ t.listen = s.listen \cup {<<n, port>>} /\ Unruled(t) = Unruled(s)
            /\ t.ifaces = s.ifaces /\ t.orphans = s.orphans /\ t.usedPorts = s.usedPorts
            /\ t.nextIndex = s.nextIndex /\ t.links = s.links /\ t.kpeers = s.kpeers
            /\ t.routes = s.routes /\ t.faults = 0
<1> DEFINE u == [s EXCEPT !.listen = @ \cup {<<n, port>>}]
           v == [u EXCEPT !.masq = @ + 1, !.masqAdded = TRUE]
<1>1. n \in Nat
  BY DEF States
<1>2. /\ u \in States /\ u.listen = s.listen \cup {<<n, port>>}
      /\ u.ifaces = s.ifaces /\ u.orphans = s.orphans /\ u.usedPorts = s.usedPorts
      /\ u.nextIndex = s.nextIndex /\ u.links = s.links /\ u.kpeers = s.kpeers
      /\ u.routes = s.routes /\ u.faults = 0 /\ u.masq = s.masq /\ u.masqAdded = s.masqAdded
  BY <1>1 DEF States
<1>3. PICK x \in configureDevice(s, n, port) :
        o \in IF x.err = "ok"
                THEN Then(configureInterfaceNetwork(x.st, n),
                          LAMBDA y : IF y.masqAdded THEN {Done(y)} ELSE addMasquerade(y))
                ELSE {x}
  BY DEF bringUp, Then
<1>4. x \in Allowed(s, u)
  BY <1>3, Zenon DEF configureDevice, Command, Allowed
<1> HIDE DEF u
<1>5. x.st = u /\ x.err = "ok"
  BY <1>4, SureCommand
<1>6. PICK y \in configureInterfaceNetwork(u, n) :
        o \in IF y.err = "ok" THEN IF y.st.masqAdded THEN {Done(y.st)} ELSE addMasquerade(y.st)
              ELSE {y}
  BY <1>3, <1>5 DEF Then
<1>7. y \in Allowed(u, u)
  <2>1. n \in u.links /\ \A l, r \in u.listen : l[1] = n /\ l[2] = r[2] => r[1] = n
    <3>1. \A l \in u.listen : l \in s.listen \/ l = <<n, port>>
      BY <1>2
    <3> QED BY <1>2, <3>1
  <2> QED BY <1>6, <2>1, Zenon DEF configureInterfaceNetwork, Command, Allowed
<1>8. y.st = u /\ y.err = "ok"
  BY <1>2, <1>7, SureCommand
<1>9. CASE u.masqAdded
  <2>1. o = Done(u)
    BY <1>6, <1>8, <1>9
  <2>2. o.st = u /\ o.err = "ok"
    BY <2>1 DEF Done, Outcome
  <2> QED BY <1>2, <2>2 DEF Unruled
<1>10. CASE ~u.masqAdded
  <2>1. o \in addMasquerade(u)
    BY <1>6, <1>8, <1>10
  <2>2. o \in Allowed(u, v)
    BY <2>1, Zenon DEF addMasquerade, Command, Allowed
  <2>3. /\ v \in States /\ v.listen = u.listen /\ v.masq = u.masq + 1 /\ v.masqAdded
        /\ v.ifaces = u.ifaces /\ v.orphans = u.orphans /\ v.usedPorts = u.usedPorts
        /\ v.nextIndex = u.nextIndex /\ v.links = u.links /\ v.kpeers = u.kpeers
        /\ v.routes = u.routes /\ v.faults = u.faults
    <3> DEFINE z == [u EXCEPT !.masq = @ + 1]
    <3>1. /\ z \in States /\ z.listen = u.listen /\ z.masq = u.masq + 1
          /\ z.ifaces = u.ifaces /\ z.orphans = u.orphans /\ z.usedPorts = u.usedPorts
          /\ z.nextIndex = u.nextIndex /\ z.links = u.links /\ z.kpeers = u.kpeers
          /\ z.routes = u.routes /\ z.faults = u.faults
      BY <1>2 DEF States
    <3>2. v = [z EXCEPT !.masqAdded = TRUE]
      OBVIOUS
    <3> HIDE DEF z, v
    <3> QED BY <3>1, <3>2 DEF States
  <2> HIDE DEF v
  <2>4. o.st = v /\ o.err = "ok"
    BY <1>2, <2>2, SureCommand
  <2>5. s.masq \in Nat
    BY DEF States
  <2>6. Unruled(v) = Unruled(s)
    BY <1>2, <1>10, <2>3, <2>5 DEF Unruled
  <2> QED BY <1>2, <2>3, <2>4, <2>6
<1> QED BY <1>9, <1>10

\* newInterface succeeds on a free profile and a free port within the limit.
LEMMA SureNewInterface ==
  ASSUME Reliable, NEW s, Tidy(s), NEW p \in Profiles, p \notin Tracked(s),
         NEW port \in Nat, port # 0, port \notin s.usedPorts, ~LimitReached(s),
         NEW o \in newInterface(s, p, port)
  PROVE  /\ o.err = "ok" /\ Tidy(o.st) /\ Tracked(o.st) = Tracked(s) \cup {p}
         /\ Beside(s, o.st, p) /\ o.st.routes = s.routes
         /\ o.st.ifaces[p] = [name |-> s.nextIndex, port |-> port, count |-> 0, peers |-> {}]
<1> DEFINE n == s.nextIndex
           r == [s EXCEPT !.nextIndex = n + 1]
           c == [r EXCEPT !.links = @ \cup {n}]
           i == [name |-> n, port |-> port, count |-> 0, peers |-> {}]
<1>1. s \in States /\ Sound(s) /\ s.faults = 0 /\ s.orphans = {} /\ n \in Nat
  BY DEF Tidy, Sound, States
<1>2. \A q \in Tracked(s) : s.ifaces[q].name \in Nat /\ s.ifaces[q].name < n
  BY TidyFacts DEF Tidy
<1>3. n \notin s.links
  BY <1>1, <1>2 DEF Tidy
<1>4. /\ r \in States /\ r.nextIndex = n + 1 /\ r.listen = s.listen /\ r.masq = s.masq
      /\ r.ifaces = s.ifaces /\ r.orphans = s.orphans /\ r.usedPorts = s.usedPorts
      /\ r.links = s.links /\ r.kpeers = s.kpeers /\ r.routes = s.routes /\ r.faults = 0
      /\ r.masqAdded = s.masqAdded
  BY <1>1 DEF States
<1>5. PICK t \in createInterface(r, n) :
        o \in IF t.err = "ok"
                THEN Then(Catch(bringUp(t.st, n, port), LAMBDA x : abandonInterface(x.st, n, port)),
                          LAMBDA u : {Done(registerInterface(u, p, n, port))})
                ELSE {t}
  BY DEF newInterface, Then
<1> HIDE DEF r
<1>6. t \in Allowed(r, c)
  <2>1. n \notin r.links
    BY <1>3, <1>4
  <2> QED BY <1>5, <2>1, Zenon DEF createInterface, Command, Allowed
<1>7. /\ c \in States /\ c.nextIndex = n + 1 /\ c.listen = s.listen /\ c.masq = s.masq
      /\ c.ifaces = s.ifaces /\ c.orphans = s.orphans /\ c.usedPorts = s.usedPorts
      /\ c.links = s.links \cup {n} /\ c.kpeers = s.kpeers /\ c.routes = s.routes /\ c.faults = 0
      /\ c.masqAdded = s.masqAdded
  BY <1>1, <1>4 DEF States
<1> HIDE DEF c
<1>8. t.st = c /\ t.err = "ok"
  BY <1>4, <1>6, SureCommand
<1>9. PICK u \in Catch(bringUp(c, n, port), LAMBDA x : abandonInterface(x.st, n, port)) :
        o \in IF u.err = "ok" THEN {Done(registerInterface(u.st, p, n, port))} ELSE {u}
  BY <1>5, <1>8 DEF Then
<1>10. PICK b \in bringUp(c, n, port) :
         u \in IF b.err = "ok" THEN {b} ELSE abandonInterface(b.st, n, port)
  BY <1>9 DEF Catch
<1> DEFINE v == b.st
           w == registerInterface(v, p, n, port)
<1>11. /\ b.err = "ok" /\ v \in States
       /\ v.listen = s.listen \cup {<<n, port>>} /\ Unruled(v) = Unruled(s)
       /\ v.ifaces = s.ifaces /\ v.orphans = s.orphans /\ v.usedPorts = s.usedPorts
       /\ v.nextIndex = n + 1 /\ v.links = s.links \cup {n} /\ v.kpeers = s.kpeers
       /\ v.routes = s.routes /\ v.faults = 0
  <2>1. \A l \in c.listen : l[1] # n /\ l[2] # port
    <3>1. \A q \in Tracked(s) : s.ifaces[q].name # n /\ s.ifaces[q].port # port
      BY <1>1, <1>2 DEF Tidy
    <3> QED BY <1>7, <3>1 DEF Tidy
  <2>2. Unruled(c) = Unruled(s) /\ Unruled(c) >= 0
    BY <1>1, <1>7 DEF Unruled, Sound
  <2>3. n \in c.links
    BY <1>7
  <2> QED BY <1>7, <1>10, <2>1, <2>2, <2>3, SureBringUp
<1>12. o.st = w /\ o.err = "ok"
  BY <1>9, <1>10, <1>11 DEF Done, Outcome
<1>13. i \in Iface /\ GoodIface(i) /\ i.name # NoName
  BY <1>1, FS_EmptySet DEF Iface, GoodIface, NoName
<1> HIDE DEF v, i
<1>14. /\ w \in States /\ w.ifaces = [s.ifaces EXCEPT ![p] = i] /\ w.orphans = {}
       /\ w.usedPorts = s.usedPorts \cup {port} /\ w.nextIndex = n + 1
       /\ w.masqAdded = v.masqAdded /\ w.masq = v.masq /\ w.links = s.links \cup {n}
       /\ w.listen = v.listen /\ w.kpeers = s.kpeers /\ w.routes = s.routes /\ w.faults = 0
  <2> DEFINE x == [v EXCEPT !.ifaces[p] = i]
  <2>1. w = [x EXCEPT !.usedPorts = @ \cup {port}]
    BY DEF registerInterface, i
  <2>2. /\ x \in States /\ x.ifaces = [s.ifaces EXCEPT ![p] = i] /\ x.orphans = {}
        /\ x.usedPorts = s.usedPorts /\ x.nextIndex = n + 1
        /\ x.masqAdded = v.masqAdded /\ x.masq = v.masq /\ x.links = s.links \cup {n}
        /\ x.listen = v.listen /\ x.kpeers = s.kpeers /\ x.routes = s.routes /\ x.faults = 0
    BY <1>1, <1>11, <1>13 DEF States
  <2> HIDE DEF x, w
  <2> QED BY <2>1, <2>2 DEF States
<1> HIDE DEF w
<1>15. w.ifaces[p] = i /\ Beside(s, w, p) /\ Unruled(w) = Unruled(s)
  BY <1>1, <1>11, <1>14 DEF States, Beside, Unruled
<1>16. Tracked(w) = Tracked(s) \cup {p}
  BY <1>13, <1>15 DEF Tracked, Beside
<1>17. Sound(w)
  <2>1. IsFiniteSet(w.orphans) /\ GoodIface(w.ifaces[p])
    BY <1>13, <1>14, <1>15, FS_EmptySet
  <2>2. /\ Sound(s) /\ w \in States /\ p \in Profiles /\ Unruled(w) = Unruled(s)
        /\ \A q \in Profiles : q # p => w.ifaces[q] = s.ifaces[q]
    BY <1>1, <1>14, <1>15 DEF Beside
  <2>3. Touches(s, w, p)
    BY <2>1, <2>2, SoundAt, Zenon
  <2> QED BY <2>3 DEF Touches
<1>18. \A q \in Tracked(s) : w.ifaces[q] = s.ifaces[q] /\ q # p
  BY <1>15 DEF Beside, Tracked
<1>19. w.ifaces[p].name = n /\ w.ifaces[p].port = port /\ w.ifaces[p].peers = {}
  BY <1>15 DEF i
<1>20. \A j : j \in w.links <=> \E q \in Tracked(w) : j = w.ifaces[q].name
  BY <1>14, <1>16, <1>18, <1>19 DEF Tidy
<1>21. \A j : j \in w.usedPorts <=> \E q \in Tracked(w) : j = w.ifaces[q].port
  BY <1>14, <1>16, <1>18, <1>19 DEF Tidy
<1>22. \A l : l \in w.listen <=> \E q \in Tracked(w) : l = <<w.ifaces[q].name, w.ifaces[q].port>>
  <2>1. \A l : l \in w.listen <=> l \in s.listen \/ l = <<n, port>>
    BY <1>11, <1>14
  <2>2. \A l : l \in s.listen <=> \E q \in Tracked(s) : l = <<s.ifaces[q].name, s.ifaces[q].port>>
    BY DEF Tidy
  <2> QED BY <1>16, <1>18, <1>19, <2>1, <2>2
<1>23. \A z : z \in w.kpeers <=> \E q \in Tracked(w), k \in Keys :
                                   k \in w.ifaces[q].peers /\ z = <<w.ifaces[q].name, k>>
  <2>1. \A z : z \in s.kpeers <=> \E q \in Tracked(s), k \in Keys :
                                    k \in s.ifaces[q].peers /\ z = <<s.ifaces[q].name, k>>
    BY DEF Tidy
  <2> QED BY <1>14, <1>16, <1>18, <1>19, <2>1
<1>24. MaxInterfaces > 0 => Cardinality(Tracked(w)) <= MaxInterfaces
  <2>1. IsFiniteSet(Tracked(s))
    BY <1>1 DEF Sound
  <2>2. Cardinality(Tracked(w)) = Cardinality(Tracked(s)) + 1 /\ Cardinality(Tracked(s)) \in Nat
    BY <1>16, <2>1, FS_AddElement, FS_CardinalityType
  <2>3. Cardinality(s.orphans) = 0
    BY <1>1, FS_EmptySet
  <2> QED BY <2>2, <2>3, LimitAssumption DEF LimitReached
<1>25. \A q, x \in Tracked(w) :
         q # x => w.ifaces[q].name # w.ifaces[x].name /\ w.ifaces[q].port # w.ifaces[x].port
  <2>1. \A q \in Tracked(s) : w.ifaces[q].name # n /\ w.ifaces[q].port # port
    BY <1>1, <1>2, <1>18 DEF Tidy
  <2> QED BY <1>16, <1>18, <1>19, <2>1 DEF Tidy
<1>26. \A q \in Tracked(w) : w.ifaces[q].name < w.nextIndex
  BY <1>1, <1>2, <1>14, <1>16, <1>18, <1>19
<1>27. Tidy(w)
  BY <1>14, <1>17, <1>20, <1>21, <1>22, <1>23, <1>24, <1>25, <1>26 DEF Tidy
<1> QED BY <1>12, <1>14, <1>15, <1>16, <1>27 DEF i

\* getOrCreateInterface finds the interface of the profile, makes an empty one
\* on a free port, or refuses and changes nothing.
LEMMA SureGetOrCreate ==
  ASSUME Reliable, NEW s, Tidy(s), NEW p \in Profiles, NEW req \in Nat,
         NEW o \in getOrCreateInterface(s, p, req)
  PROVE  \/ o.err # "ok" /\ o.st = s
         \/ o.err = "ok" /\ o.st = s /\ p \in Tracked(s) /\ req \in {0, s.ifaces[p].port}
         \/ /\ o.err = "ok" /\ p \notin Tracked(s) /\ ~LimitReached(s)
            /\ Tidy(o.st) /\ Tracked(o.st) = Tracked(s) \cup {p}
            /\ Beside(s, o.st, p) /\ o.st.routes = s.routes
            /\ o.st.ifaces[p].name = s.nextIndex /\ o.st.ifaces[p].peers = {}
            /\ o.st.ifaces[p].port \in resolvePort(s, req)
            /\ req \in {0, o.st.ifaces[p].port}
<1>1. s \in States
  BY DEF Tidy, Sound
<1>2. CASE p \in Tracked(s)
  <2>1. o = Outcome(s, IF PortConflicts(s, p, req) THEN "portConflict" ELSE "ok")
    BY <1>2 DEF getOrCreateInterface
  <2> QED BY <1>2, <2>1 DEF Outcome, PortConflicts
<1>3. CASE p \notin Tracked(s)
  <2>1. \/ \E err \in {"portInUse", "maxInterfaces", "refused"} : o = Outcome(s, err)
        \/ ~LimitReached(s) /\ \E port \in resolvePort(s, req) : o \in newInterface(s, p, port)
    BY <1>3, Zenon DEF getOrCreateInterface
  <2>2. CASE \E err \in {"portInUse", "maxInterfaces", "refused"} : o = Outcome(s, err)
    BY <2>2 DEF Outcome
  <2>3. CASE ~LimitReached(s) /\ \E port \in resolvePort(s, req) : o \in newInterface(s, p, port)
    <3>1. PICK port \in resolvePort(s, req) : o \in newInterface(s, p, port)
      BY <2>3
    <3>2. port \in Nat /\ port # 0 /\ (req # 0 => port = req)
      BY <1>1, ResolvedPort
    <3>3. port \notin s.usedPorts
      BY DEF resolvePort
    <3>4. /\ o.err = "ok" /\ Tidy(o.st) /\ Tracked(o.st) = Tracked(s) \cup {p}
          /\ Beside(s, o.st, p) /\ o.st.routes = s.routes
          /\ o.st.ifaces[p] = [name |-> s.nextIndex, port |-> port, count |-> 0, peers |-> {}]
      BY <1>3, <2>3, <3>1, <3>2, <3>3, SureNewInterface
    <3> QED BY <1>3, <2>3, <3>2, <3>4
  <2> QED BY <2>1, <2>2, <2>3
<1> QED BY <1>2, <1>3

-----------------------------------------------------------------------------
(***************************************************************************)
(* The pool that serves a set of clients.                                  *)
(***************************************************************************)
\* Each client in cs has its interface, its route and the port it asked for, and
\* there is no other peer or route.
Carries(s, cs) ==
  /\ Tidy(s)
  /\ Matches(s, cs)
  /\ \A c \in cs : /\ effectiveProfile(c) \in Tracked(s)
                   /\ s.routes[c.addr] = s.ifaces[effectiveProfile(c)].name
                   /\ c.port \in {0, s.ifaces[effectiveProfile(c)].port}
  /\ \A a \in Addrs : (\A c \in cs : c.addr # a) => s.routes[a] = NoName

\* The pool serves exactly the clients in cs: no interface is empty.
Serves(s, cs) ==
  /\ Carries(s, cs)
  /\ \A p \in Tracked(s) : \E c \in cs : effectiveProfile(c) = p

\* When getOrCreateInterface has nothing to refuse.
Fits(s, p, req) ==
  \/ p \in Tracked(s) /\ req \in {0, s.ifaces[p].port}
  \/ p \notin Tracked(s) /\ ~LimitReached(s) /\ resolvePort(s, req) # {}

\* getOrCreateInterface refuses nothing that fits.
LEMMA FitsOpen ==
  ASSUME Reliable, NEW s, Tidy(s), NEW p \in Profiles, NEW req \in Nat, Fits(s, p, req),
         NEW o \in getOrCreateInterface(s, p, req)
  PROVE  o.err = "ok"
<1>1. s \in States
  BY DEF Tidy, Sound
<1>2. CASE p \in Tracked(s)
  <2>1. o = Outcome(s, IF PortConflicts(s, p, req) THEN "portConflict" ELSE "ok")
    BY <1>2 DEF getOrCreateInterface
  <2>2. ~PortConflicts(s, p, req)
    BY <1>2 DEF Fits, PortConflicts
  <2> QED BY <2>1, <2>2 DEF Outcome
<1>3. CASE p \notin Tracked(s)
  <2>1. ~LimitReached(s) /\ resolvePort(s, req) # {}
    BY <1>3 DEF Fits
  <2>2. ~(req # 0 /\ req \in s.usedPorts)
    BY <2>1 DEF resolvePort
  <2>3. o \in UNION {newInterface(s, p, port) : port \in resolvePort(s, req)}
    BY <1>3, <2>1, <2>2, Zenon DEF getOrCreateInterface
  <2>4. PICK port \in resolvePort(s, req) : o \in newInterface(s, p, port)
    BY <2>3
  <2>5. port \in Nat /\ port # 0 /\ port \notin s.usedPorts
    <3>1. port \notin s.usedPorts
      BY DEF resolvePort
    <3> QED BY <1>1, <3>1, ResolvedPort
  <2>6. o \in newInterface(s, p, port)
    BY <2>4
  <2>7. ~LimitReached(s)
    BY <2>1
  <2>8. /\ o.err = "ok" /\ Tidy(o.st) /\ Tracked(o.st) = Tracked(s) \cup {p}
        /\ Beside(s, o.st, p) /\ o.st.routes = s.routes
        /\ o.st.ifaces[p] = [name |-> s.nextIndex, port |-> port, count |-> 0, peers |-> {}]
    BY <1>3, <2>5, <2>6, <2>7, SureNewInterface
  <2> QED BY <2>8
<1> QED BY <1>2, <1>3

\* AddPeer succeeds and sets peer and route, or changes nothing; what fits it
\* does not refuse.
LEMMA SureAddPeer ==
  ASSUME Reliable, NEW s, Tidy(s), NEW p \in Profiles, NEW req \in Nat, NEW k \in Keys,
         NEW a \in Addrs, NEW o \in AddPeer(s, p, req, k, a)
  PROVE  \/ o.err # "ok" /\ o.st = s /\ ~Fits(s, p, req)
         \/ /\ o.err = "ok" /\ Tidy(o.st) /\ Tracked(o.st) = Tracked(s) \cup {p}
            /\ Beside(s, o.st, p)
            /\ o.st.ifaces[p].peers = s.ifaces[p].peers \cup {k}
            /\ o.st.routes = [s.routes EXCEPT ![a] = o.st.ifaces[p].name]
            /\ req \in {0, o.st.ifaces[p].port}
            /\ p \in Tracked(s) => /\ o.st.ifaces[p].name = s.ifaces[p].name
                                   /\ o.st.ifaces[p].port = s.ifaces[p].port
            /\ p \notin Tracked(s) => o.st.ifaces[p].port \in resolvePort(s, req)
<1>1. PICK t \in getOrCreateInterface(s, p, req) :
        o \in IF t.err = "ok" THEN addPeerLocked(t.st, p, k, a) ELSE {t}
  BY DEF AddPeer, Then
<1>2. CASE t.err # "ok"
  <2>1. o = t /\ t.st = s
    BY <1>1, <1>2, SureGetOrCreate
  <2> QED BY <1>1, <1>2, <2>1, FitsOpen
<1>3. CASE t.err = "ok"
  <2> DEFINE u == t.st
  <2>1. o \in addPeerLocked(u, p, k, a)
    BY <1>1, <1>3
  <2>2. CASE u = s /\ p \in Tracked(s) /\ req \in {0, s.ifaces[p].port}
    <3>1. /\ o.err = "ok" /\ Tidy(o.st) /\ Tracked(o.st) = Tracked(s) /\ Beside(s, o.st, p)
          /\ o.st.ifaces[p].name = s.ifaces[p].name /\ o.st.ifaces[p].port = s.ifaces[p].port
          /\ o.st.ifaces[p].peers = s.ifaces[p].peers \cup {k}
          /\ o.st.routes = [s.routes EXCEPT ![a] = s.ifaces[p].name]
      BY <2>1, <2>2, SureAddLocked
    <3> QED BY <2>2, <3>1
  <2>3. CASE /\ p \notin Tracked(s)
             /\ Tidy(u) /\ Tracked(u) = Tracked(s) \cup {p}
             /\ Beside(s, u, p) /\ u.routes = s.routes
             /\ u.ifaces[p].peers = {}
             /\ u.ifaces[p].port \in resolvePort(s, req)
             /\ req \in {0, u.ifaces[p].port}
    <3> HIDE DEF u
    <3>1. p \in Tracked(u)
      BY <2>3
    <3>2. /\ o.err = "ok" /\ Tidy(o.st) /\ Tracked(o.st) = Tracked(u) /\ Beside(u, o.st, p)
          /\ o.st.ifaces[p].name = u.ifaces[p].name /\ o.st.ifaces[p].port = u.ifaces[p].port
          /\ o.st.ifaces[p].peers = u.ifaces[p].peers \cup {k}
          /\ o.st.routes = [u.routes EXCEPT ![a] = u.ifaces[p].name]
      BY <2>1, <2>3, <3>1, SureAddLocked
    <3>3. s.ifaces[p].peers = {}
      <4>1. GoodIface(s.ifaces[p]) /\ s.ifaces[p].name = NoName
        BY <2>3 DEF Tidy, Sound, Tracked
      <4> QED BY <4>1 DEF GoodIface, NoIface
    <3>4. Beside(s, o.st, p)
      BY <2>3, <3>2 DEF Beside
    <3> QED BY <2>3, <3>2, <3>3, <3>4
  <2> QED BY <1>1, <1>3, <2>2, <2>3, SureGetOrCreate
<1> QED BY <1>2, <1>3

\* The pool knows client c by this profile, key and address.
KnownAs(c, p, k, a) == p = effectiveProfile(c) /\ k = c.key /\ a = c.addr

\* Every profile of P has a client among cs.
Used(cs, P) == \A q \in P : \E x \in cs : effectiveProfile(x) = q

\* No other client has the key or the address of c.
Alone(cs, c) == \A x \in cs : x # c => x.key # c.key /\ x.addr # c.addr

\* No client has the address a.
FreeAddr(cs, a) == \A x \in cs : x.addr # a

\* The interfaces of s keep their ports.
KeepsPorts(s, t) == \A q \in Tracked(s) : t.ifaces[q].port = s.ifaces[q].port

\* How AddPeer ends for client c: refused, or c is one of those served.
Added(o, s, cs, c, p, req) ==
  \/ o.err # "ok" /\ o.st = s /\ ~Fits(s, p, req)
  \/ /\ o.err = "ok" /\ Serves(o.st, cs \cup {c}) /\ Tracked(o.st) = Tracked(s) \cup {p}
     /\ KeepsPorts(s, o.st)
     /\ req \in {0, o.st.ifaces[p].port}
     /\ p \notin Tracked(s) => o.st.ifaces[p].port \in resolvePort(s, req)

\* A client is added to those the pool serves, or nothing changes.
LEMMA ServesAdded ==
  ASSUME Reliable, NEW cs \in SUBSET Clients, NEW s, Serves(s, cs), NEW c \in Clients,
         NEW p \in Profiles, NEW k \in Keys, NEW a \in Addrs, KnownAs(c, p, k, a),
         NEW req \in Nat, c.port \in {0, req}, FreeAddr(cs, a),
         NEW o \in AddPeer(s, p, req, k, a)
  PROVE  Added(o, s, cs, c, p, req)
<1> DEFINE t == o.st
           ds == cs \cup {c}
<1>1. Tidy(s) /\ Matches(s, cs) /\ s \in States
  BY DEF Serves, Carries, Tidy, Sound
<1>2. k = c.key /\ a = c.addr /\ p = effectiveProfile(c) /\ \A x \in cs : x.addr # a
  BY DEF KnownAs, FreeAddr
<1>3. SUFFICES ASSUME ~(o.err # "ok" /\ t = s /\ ~Fits(s, p, req))
               PROVE  /\ o.err = "ok" /\ Serves(t, ds) /\ Tracked(t) = Tracked(s) \cup {p}
                      /\ KeepsPorts(s, t)
                      /\ req \in {0, t.ifaces[p].port}
                      /\ p \notin Tracked(s) => t.ifaces[p].port \in resolvePort(s, req)
  BY DEF Added
<1>4. /\ o.err = "ok" /\ Tidy(t) /\ Tracked(t) = Tracked(s) \cup {p} /\ Beside(s, t, p)
      /\ t.ifaces[p].peers = s.ifaces[p].peers \cup {k}
      /\ t.routes = [s.routes EXCEPT ![a] = t.ifaces[p].name]
      /\ req \in {0, t.ifaces[p].port}
      /\ p \in Tracked(s) => /\ t.ifaces[p].name = s.ifaces[p].name
                             /\ t.ifaces[p].port = s.ifaces[p].port
      /\ p \notin Tracked(s) => t.ifaces[p].port \in resolvePort(s, req)
  BY <1>1, <1>3, SureAddPeer
<1> HIDE DEF t
<1>5. \A q \in Tracked(s) : /\ t.ifaces[q].port = s.ifaces[q].port
                            /\ t.ifaces[q].name = s.ifaces[q].name
  BY <1>4 DEF Beside, Tracked
<1>6. Matches(t, ds)
  <2>1. \A q \in Profiles : q # p => t.ifaces[q] = s.ifaces[q]
    BY <1>4 DEF Beside
  <2>2. ASSUME NEW q \in Profiles, q # p
        PROVE  KeysOn(ds, q) = KeysOn(cs, q)
    BY <1>2, <2>2 DEF KeysOn
  <2>3. KeysOn(ds, p) = KeysOn(cs, p) \cup {k}
    BY <1>2 DEF KeysOn
  <2> QED BY <1>1, <1>4, <2>1, <2>2, <2>3 DEF Matches
<1>7. \A q \in Tracked(t) : \E x \in ds : effectiveProfile(x) = q
  BY <1>2, <1>4 DEF Serves, Carries
<1>8. s.routes \in [Addrs -> Nat \cup {NoName}]
  BY <1>1 DEF States
<1>9. ASSUME NEW x \in ds
      PROVE  /\ effectiveProfile(x) \in Tracked(t)
             /\ t.routes[x.addr] = t.ifaces[effectiveProfile(x)].name
             /\ x.port \in {0, t.ifaces[effectiveProfile(x)].port}
  <2>1. CASE x = c
    BY <1>2, <1>4, <1>8, <2>1
  <2>2. CASE x \in cs
    <3>1. /\ effectiveProfile(x) \in Tracked(s)
          /\ s.routes[x.addr] = s.ifaces[effectiveProfile(x)].name
          /\ x.port \in {0, s.ifaces[effectiveProfile(x)].port}
      BY <2>2 DEF Serves, Carries
    <3>2. t.routes[x.addr] = s.routes[x.addr]
      BY <1>2, <1>4, <1>8, <2>2 DEF Clients
    <3> QED BY <1>4, <1>5, <3>1, <3>2
  <2> QED BY <2>1, <2>2
<1>10. \A b \in Addrs : (\A x \in ds : x.addr # b) => t.routes[b] = NoName
  BY <1>2, <1>4, <1>8 DEF Serves, Carries
<1>11. Serves(t, ds)
  BY <1>4, <1>6, <1>7, <1>9, <1>10 DEF Serves, Carries
<1> QED BY <1>4, <1>5, <1>11 DEF KeepsPorts

\* What the books say of a client that is served.
LEMMA CarriedClient ==
  ASSUME NEW cs \in SUBSET Clients, NEW s, Carries(s, cs), NEW c \in cs,
         NEW p \in Profiles, p = effectiveProfile(c)
  PROVE  /\ p \in Tracked(s) /\ c.key \in s.ifaces[p].peers /\ HasPeer(s, p, c.key)
         /\ s.routes[c.addr] = s.ifaces[p].name /\ c.port \in {0, s.ifaces[p].port}
         /\ c.key \in Keys /\ c.addr \in Addrs /\ c.port \in Nat
<1>1. /\ Tidy(s) /\ p \in Tracked(s) /\ s.routes[c.addr] = s.ifaces[p].name
      /\ c.port \in {0, s.ifaces[p].port}
  BY DEF Carries
<1>2. c.key \in s.ifaces[p].peers
  BY DEF Carries, Matches, KeysOn
<1>3. IsFiniteSet(s.ifaces[p].peers) /\ s.ifaces[p].count = Cardinality(s.ifaces[p].peers)
  BY <1>1, TidyFacts
<1>4. s.ifaces[p].count > 0
  <2>1. Cardinality(s.ifaces[p].peers) \in Nat /\ Cardinality(s.ifaces[p].peers) # 0
    BY <1>2, <1>3, FS_CardinalityType, FS_EmptySet
  <2> QED BY <1>3, <2>1
<1> QED BY <1>1, <1>2, <1>4 DEF HasPeer, Clients

\* A client's peer and route are taken off its interface.
LEMMA TakenOff ==
  ASSUME Reliable, NEW cs \in SUBSET Clients, NEW s, Serves(s, cs), NEW c \in cs,
         Alone(cs, c),
         NEW p \in Profiles, NEW k \in Keys, NEW a \in Addrs, KnownAs(c, p, k, a),
         NEW o \in removePeerFromInterface(s, s.ifaces[p].name, k, a)
  PROVE  LET t == untrackPeer(o.st, p, k)
         IN /\ o.err = "ok" /\ Carries(t, cs \ {c}) /\ Tracked(t) = Tracked(s) /\ Beside(s, t, p)
            /\ t.ifaces[p].name = s.ifaces[p].name /\ t.ifaces[p].port = s.ifaces[p].port
            /\ t.ifaces[p].peers = s.ifaces[p].peers \ {k}
            /\ Used(cs \ {c}, Tracked(t) \ {p})
<1> DEFINE t == untrackPeer(o.st, p, k)
           ds == cs \ {c}
<1>1. /\ Tidy(s) /\ Carries(s, cs) /\ s \in States
      /\ \A q \in Tracked(s) : \E x \in cs : effectiveProfile(x) = q
  BY DEF Serves, Carries, Tidy, Sound
<1>2. p \in Tracked(s) /\ s.routes[a] = s.ifaces[p].name /\ k \in Keys /\ a \in Addrs
  BY <1>1, CarriedClient DEF KnownAs
<1>3. \A x \in ds : x.addr # a /\ x.key # k
  BY DEF Alone, KnownAs
<1>4. /\ o.err = "ok" /\ Tidy(t) /\ Tracked(t) = Tracked(s) /\ Beside(s, t, p)
      /\ t.ifaces[p].name = s.ifaces[p].name /\ t.ifaces[p].port = s.ifaces[p].port
      /\ t.ifaces[p].peers = s.ifaces[p].peers \ {k}
      /\ t.routes = [s.routes EXCEPT ![a] = NoName]
  BY <1>1, <1>2, SureRemoveFrom
<1> HIDE DEF t
<1>5. \A q \in Tracked(s) : /\ t.ifaces[q].port = s.ifaces[q].port
                            /\ t.ifaces[q].name = s.ifaces[q].name
  BY <1>4 DEF Beside, Tracked
<1>6. Matches(t, ds)
  <2>1. \A q \in Profiles : q # p => t.ifaces[q] = s.ifaces[q]
    BY <1>4 DEF Beside
  <2>2. ASSUME NEW q \in Profiles, q # p
        PROVE  KeysOn(ds, q) = KeysOn(cs, q)
    BY <2>2 DEF KeysOn, KnownAs
  <2>3. KeysOn(ds, p) = KeysOn(cs, p) \ {k}
    BY <1>3 DEF KeysOn, KnownAs
  <2> QED BY <1>1, <1>4, <2>1, <2>2, <2>3 DEF Matches, Carries
<1>7. s.routes \in [Addrs -> Nat \cup {NoName}]
  BY <1>1 DEF States
<1>8. ASSUME NEW x \in ds
      PROVE  /\ effectiveProfile(x) \in Tracked(t)
             /\ t.routes[x.addr] = t.ifaces[effectiveProfile(x)].name
             /\ x.port \in {0, t.ifaces[effectiveProfile(x)].port}
  <2>1. /\ effectiveProfile(x) \in Tracked(s)
        /\ s.routes[x.addr] = s.ifaces[effectiveProfile(x)].name
        /\ x.port \in {0, s.ifaces[effectiveProfile(x)].port}
    BY <1>1 DEF Carries
  <2>2. x.addr # a /\ x.addr \in Addrs
    BY <1>3 DEF Clients
  <2>3. t.routes[x.addr] = s.routes[x.addr]
    BY <1>2, <1>4, <1>7, <2>2
  <2> QED BY <1>4, <1>5, <2>1, <2>3
<1>9. ASSUME NEW b \in Addrs, \A x \in ds : x.addr # b
      PROVE  t.routes[b] = NoName
  <2>1. CASE b = a
    BY <1>2, <1>4, <1>7, <2>1
  <2>2. CASE b # a
    <3>1. \A x \in cs : x.addr # b
      BY <1>9, <2>2 DEF KnownAs
    <3>2. s.routes[b] = NoName
      BY <1>1, <3>1 DEF Carries
    <3> QED BY <1>4, <1>7, <2>2, <3>2
  <2> QED BY <2>1, <2>2
<1>10. Carries(t, ds)
  BY <1>4, <1>6, <1>8, <1>9 DEF Carries
<1>11. Used(ds, Tracked(t) \ {p})
  BY <1>1, <1>4 DEF KnownAs, Used
<1> QED BY <1>4, <1>10, <1>11 DEF t

\* An interface that lost its last client goes.
LEMMA EmptyGone ==
  ASSUME Reliable, NEW cs \in SUBSET Clients, NEW s, Carries(s, cs), NEW p \in Tracked(s),
         s.ifaces[p].peers = {},
         Used(cs, Tracked(s) \ {p}),
         NEW o \in destroyTrackedInterface(s, p)
  PROVE  /\ o.err = "ok" /\ Serves(o.st, cs) /\ Tracked(o.st) = Tracked(s) \ {p}
         /\ Beside(s, o.st, p)
<1> DEFINE t == o.st
           n == s.ifaces[p].name
<1>1. Tidy(s) /\ Matches(s, cs) /\ s \in States /\ p \in Profiles
  BY DEF Carries, Tidy, Sound, Tracked
<1>2. /\ o.err = "ok" /\ Tidy(t) /\ Tracked(t) = Tracked(s) \ {p}
      /\ Beside(s, t, p) /\ t.ifaces[p] = NoIface
      /\ t.routes = [a \in Addrs |-> IF s.routes[a] = n THEN NoName ELSE s.routes[a]]
  BY <1>1, SureDestroy
<1> HIDE DEF t
<1>3. \A x \in cs : effectiveProfile(x) # p
  BY <1>1 DEF Matches, KeysOn
<1>4. Matches(t, cs)
  <2>1. t.ifaces[p].peers = s.ifaces[p].peers
    BY <1>2 DEF NoIface
  <2> QED BY <1>1, <1>2, <2>1 DEF Matches, Beside
<1>5. ASSUME NEW x \in cs
      PROVE  /\ effectiveProfile(x) \in Tracked(t)
             /\ t.routes[x.addr] = t.ifaces[effectiveProfile(x)].name
             /\ x.port \in {0, t.ifaces[effectiveProfile(x)].port}
  <2> DEFINE q == effectiveProfile(x)
  <2>1. q \in Tracked(s) /\ q # p /\ s.routes[x.addr] = s.ifaces[q].name
        /\ x.port \in {0, s.ifaces[q].port}
    BY <1>3 DEF Carries
  <2>2. t.ifaces[q] = s.ifaces[q] /\ s.ifaces[q].name # n
    BY <1>1, <1>2, <2>1 DEF Beside, Tracked, Tidy
  <2>3. x.addr \in Addrs
    BY DEF Clients
  <2> QED BY <1>2, <2>1, <2>2, <2>3
<1>6. \A a \in Addrs : (\A x \in cs : x.addr # a) => t.routes[a] = NoName
  BY <1>2 DEF Carries
<1>7. Carries(t, cs)
  BY <1>2, <1>4, <1>5, <1>6 DEF Carries
<1>8. Serves(t, cs)
  BY <1>2, <1>7 DEF Serves, Used
<1> QED BY <1>2, <1>8 DEF t

\* RemovePeer of a client that is served takes it, and nothing else, away.
LEMMA ServesRemoved ==
  ASSUME Reliable, NEW cs \in SUBSET Clients, NEW s, Serves(s, cs), NEW c \in cs,
         Alone(cs, c),
         NEW p \in Profiles, NEW k \in Keys, NEW a \in Addrs, KnownAs(c, p, k, a),
         NEW o \in RemovePeer(s, p, k, a)
  PROVE  o.err = "ok" /\ Serves(o.st, cs \ {c})
<1> DEFINE ds == cs \ {c}
<1>1. Carries(s, cs) /\ HasPeer(s, p, k) /\ p \in Tracked(s)
  BY CarriedClient DEF Serves, KnownAs
<1>2. PICK t \in removePeerFromInterface(s, s.ifaces[p].name, k, a) :
        o \in IF t.err = "ok"
                THEN LET u == untrackPeer(t.st, p, k)
                     IN IF u.ifaces[p].count = 0 THEN destroyOrRestore(u, p, k, a)
                                                 ELSE {Done(u)}
                ELSE {t}
  BY <1>1 DEF RemovePeer, Then
<1> DEFINE u == untrackPeer(t.st, p, k)
<1>3. /\ t.err = "ok" /\ Carries(u, ds) /\ Tracked(u) = Tracked(s) /\ Beside(s, u, p)
      /\ u.ifaces[p].name = s.ifaces[p].name /\ u.ifaces[p].port = s.ifaces[p].port
      /\ u.ifaces[p].peers = s.ifaces[p].peers \ {k}
      /\ Used(ds, Tracked(u) \ {p})
  BY <1>2, TakenOff
<1>4. o \in IF u.ifaces[p].count = 0 THEN destroyOrRestore(u, p, k, a) ELSE {Done(u)}
  BY <1>2, <1>3
<1> HIDE DEF u
<1>5. p \in Tracked(u) /\ Tidy(u) /\ ds \in SUBSET Clients
  BY <1>1, <1>3 DEF Carries
<1>6. IsFiniteSet(u.ifaces[p].peers) /\ u.ifaces[p].count = Cardinality(u.ifaces[p].peers)
  BY <1>5, TidyFacts
<1>7. CASE u.ifaces[p].count = 0
  <2>1. u.ifaces[p].peers = {}
    BY <1>6, <1>7, FS_EmptySet
  <2>2. PICK x \in destroyTrackedInterface(u, p) :
          o \in IF x.err = "ok" THEN {x}
                ELSE {Outcome(trackPeer(r.st, p, k), rollbackFailure("failed", r.err)) :
                        r \in restorePeerAndRoute(x.st, u.ifaces[p].name, k, a)}
    BY <1>4, <1>7 DEF destroyOrRestore, Catch
  <2>3. /\ x.err = "ok" /\ Serves(x.st, ds) /\ Tracked(x.st) = Tracked(u) \ {p}
        /\ Beside(u, x.st, p)
    BY <1>3, <1>5, <2>1, EmptyGone
  <2> QED BY <2>2, <2>3
<1>8. CASE u.ifaces[p].count # 0
  <2>1. o = Done(u)
    BY <1>4, <1>8
  <2>2. o.st = u /\ o.err = "ok"
    BY <2>1 DEF Done, Outcome
  <2>3. u.ifaces[p].peers # {}
    BY <1>6, <1>8, FS_EmptySet
  <2>4. \E x \in ds : effectiveProfile(x) = p
    BY <1>3, <2>3 DEF Carries, Matches, KeysOn
  <2>5. Serves(u, ds)
    BY <1>3, <2>4 DEF Serves, Used
  <2> QED BY <2>2, <2>5
<1> QED BY <1>7, <1>8

\* The last peer of an interface leaves it: the interface goes with it.
LEMMA SoleGone ==
  ASSUME Reliable, NEW cs \in SUBSET Clients, NEW s, Serves(s, cs), NEW c \in cs, Alone(cs, c),
         NEW p \in Profiles, NEW k \in Keys, NEW a \in Addrs, KnownAs(c, p, k, a),
         NEW u, Carries(u, cs \ {c}), Tracked(u) = Tracked(s),
         u.ifaces[p].peers = {}, u.ifaces[p].port = s.ifaces[p].port,
         Used(cs \ {c}, Tracked(u) \ {p}), p \in Tracked(s),
         NEW v \in destroyOrRestore(u, p, k, a)
  PROVE  /\ v.err = "ok" /\ Serves(v.st, cs \ {c}) /\ Fits(v.st, p, s.ifaces[p].port)
<1> DEFINE ds == cs \ {c}
           port == s.ifaces[p].port
<1>1. PICK x \in destroyTrackedInterface(u, p) :
        v \in IF x.err = "ok" THEN {x}
              ELSE {Outcome(trackPeer(r.st, p, k), rollbackFailure("failed", r.err)) :
                      r \in restorePeerAndRoute(x.st, u.ifaces[p].name, k, a)}
  BY DEF destroyOrRestore, Catch
<1>2. ds \in SUBSET Clients /\ p \in Tracked(u)
  OBVIOUS
<1>3. /\ x.err = "ok" /\ Serves(x.st, ds) /\ Tracked(x.st) = Tracked(u) \ {p}
      /\ Beside(u, x.st, p)
  BY <1>1, <1>2, EmptyGone
<1>4. v = x
  BY <1>1, <1>3
<1> DEFINE t == v.st
<1>5. /\ v.err = "ok" /\ Serves(t, ds) /\ Tracked(t) = Tracked(s) \ {p} /\ Beside(u, t, p)
  BY <1>3, <1>4
<1> HIDE DEF t
<1>6. Tidy(u) /\ Tidy(t) /\ Tidy(s)
  BY <1>5 DEF Serves, Carries
<1>7. port \in Nat /\ port # 0 /\ u.ifaces[p].port = port
  BY <1>6, TidyFacts
<1>8. port \notin t.usedPorts
  <2>1. ASSUME NEW q \in Tracked(t)
        PROVE  t.ifaces[q].port # port
    <3>1. q \in Tracked(u) /\ q # p /\ q \in Profiles
      BY <1>5 DEF Tracked
    <3>2. t.ifaces[q] = u.ifaces[q]
      BY <1>5, <3>1 DEF Beside
    <3> QED BY <1>2, <1>6, <1>7, <3>1, <3>2 DEF Tidy
  <2> QED BY <1>6, <2>1 DEF Tidy
<1>9. ~LimitReached(t)
  <2>1. IsFiniteSet(Tracked(s))
    BY <1>6 DEF Tidy, Sound
  <2>2. Cardinality(Tracked(t)) = Cardinality(Tracked(s)) - 1 /\ Cardinality(Tracked(s)) \in Nat
    <3>1. Cardinality(Tracked(s) \ {p}) = Cardinality(Tracked(s)) - 1
      BY <2>1, FS_RemoveElement
    <3> QED BY <1>5, <2>1, <3>1, FS_CardinalityType
  <2>3. Cardinality(t.orphans) = 0
    BY <1>6, FS_EmptySet DEF Tidy
  <2>4. MaxInterfaces > 0 => Cardinality(Tracked(s)) <= MaxInterfaces
    BY <1>6 DEF Tidy
  <2> QED BY <2>2, <2>3, <2>4, LimitAssumption DEF LimitReached
<1>10. Fits(t, p, port)
  <2>1. resolvePort(t, port) # {} /\ p \notin Tracked(t)
    BY <1>5, <1>7, <1>8 DEF resolvePort
  <2> QED BY <1>9, <2>1 DEF Fits
<1> QED BY <1>5, <1>10 DEF t

\* How a migration ends: the client is served as next, or still as c.
Migrated(o, cs, c, next) ==
  \/ o.err = "ok" /\ Serves(o.st, (cs \ {c}) \cup {next})
  \/ o.err # "ok" /\ Serves(o.st, cs)

\* The client was alone on its interface, which is destroyed first: it always
\* gets back what it had when the new interface is refused.
LEMMA MovedSole ==
  ASSUME Reliable, NEW cs \in SUBSET Clients, NEW s, Serves(s, cs), NEW c \in cs, Alone(cs, c),
         NEW p \in Profiles, NEW k \in Keys, NEW a \in Addrs, KnownAs(c, p, k, a),
         NEW next \in Clients, NEW q \in Profiles, KnownAs(next, q, k, a),
         NEW req \in Nat, next.port = req, s.ifaces[p].count = 1,
         NEW o \in migrateSolePeer(s, p, q, req, k, a)
  PROVE  Migrated(o, cs, c, next)
<1> DEFINE ds == cs \ {c}
           port == s.ifaces[p].port
           Retry(x) == Catch(AddPeer(x, q, req, k, a),
                             LAMBDA y : {Outcome(r.st, rollbackFailure(y.err, r.err)) :
                                           r \in AddPeer(y.st, p, port, k, a)})
<1>1. /\ Carries(s, cs) /\ Tidy(s) /\ p \in Tracked(s) /\ k \in s.ifaces[p].peers
      /\ c.port \in {0, port}
  <2>1. Carries(s, cs) /\ Tidy(s) /\ p = effectiveProfile(c) /\ k = c.key
    BY DEF Serves, Carries, KnownAs
  <2>2. /\ p \in Tracked(s) /\ c.key \in s.ifaces[p].peers /\ HasPeer(s, p, c.key)
        /\ s.routes[c.addr] = s.ifaces[p].name /\ c.port \in {0, s.ifaces[p].port}
        /\ c.key \in Keys /\ c.addr \in Addrs /\ c.port \in Nat
    BY <2>1, CarriedClient
  <2> QED BY <2>1, <2>2
<1>2. port \in Nat
  BY <1>1, TidyFacts
<1>3. PICK t \in removePeerFromInterface(s, s.ifaces[p].name, k, a) :
        o \in IF t.err = "ok"
                THEN Then(destroyOrRestore(untrackPeer(t.st, p, k), p, k, a), Retry)
                ELSE {t}
  BY DEF migrateSolePeer, Then
<1> DEFINE u == untrackPeer(t.st, p, k)
<1> HIDE DEF Retry
<1>4. /\ t.err = "ok" /\ Carries(u, ds) /\ Tracked(u) = Tracked(s) /\ Beside(s, u, p)
      /\ u.ifaces[p].name = s.ifaces[p].name /\ u.ifaces[p].port = s.ifaces[p].port
      /\ u.ifaces[p].peers = s.ifaces[p].peers \ {k}
      /\ Used(ds, Tracked(u) \ {p})
  BY <1>3, TakenOff
<1>5. o \in Then(destroyOrRestore(u, p, k, a), Retry)
  BY <1>3, <1>4
<1> HIDE DEF u
<1>6. u.ifaces[p].peers = {}
  <2>1. IsFiniteSet(s.ifaces[p].peers) /\ Cardinality(s.ifaces[p].peers) = 1
    BY <1>1, TidyFacts
  <2>2. PICK x : s.ifaces[p].peers = {x}
    BY <2>1, FS_Singleton
  <2> QED BY <1>1, <1>4, <2>2
<1>7. PICK v \in destroyOrRestore(u, p, k, a) : o \in IF v.err = "ok" THEN Retry(v.st) ELSE {v}
  BY <1>5 DEF Then
<1>8. v.err = "ok" /\ Serves(v.st, ds) /\ Fits(v.st, p, port)
  BY <1>1, <1>4, <1>6, <1>7, SoleGone
<1> DEFINE w == v.st
<1>9. o \in Retry(w) /\ Serves(w, ds) /\ Fits(w, p, port)
  BY <1>7, <1>8
<1> HIDE DEF w
<1>10. PICK y \in AddPeer(w, q, req, k, a) :
         o \in IF y.err = "ok" THEN {y}
               ELSE {Outcome(r.st, rollbackFailure(y.err, r.err)) :
                       r \in AddPeer(y.st, p, port, k, a)}
  BY <1>9 DEF Retry, Catch
<1>11. FreeAddr(ds, a) /\ ds \in SUBSET Clients /\ next.port \in {0, req}
  BY DEF FreeAddr, Alone, KnownAs
<1>12. Added(y, w, ds, next, q, req)
  BY <1>9, <1>10, <1>11, ServesAdded
<1>13. CASE y.err = "ok"
  <2>1. o = y /\ Serves(y.st, ds \cup {next})
    BY <1>10, <1>12, <1>13 DEF Added
  <2> QED BY <1>13, <2>1 DEF Migrated
<1>14. CASE y.err # "ok"
  <2>1. y.st = w
    BY <1>12, <1>14 DEF Added
  <2>2. PICK r \in AddPeer(w, p, port, k, a) : o = Outcome(r.st, rollbackFailure(y.err, r.err))
    BY <1>10, <1>14, <2>1
  <2>3. Added(r, w, ds, c, p, port)
    <3>1. c \in Clients /\ c.port \in {0, port}
      BY <1>1
    <3> HIDE DEF port
    <3> QED BY <1>2, <1>9, <1>11, <2>2, <3>1, ServesAdded
  <2>4. r.err = "ok" /\ Serves(r.st, cs)
    <3>1. ds \cup {c} = cs
      OBVIOUS
    <3> QED BY <1>9, <2>3, <3>1 DEF Added
  <2> QED BY <1>14, <2>2, <2>4 DEF Outcome, rollbackFailure, Migrated
<1> QED BY <1>13, <1>14

\* What the books say when a peer has gone from p to q and p keeps others.
Handed(s, w, p, q, req, k, a) ==
  /\ Tidy(w) /\ Tracked(w) = Tracked(s) \cup {q}
  /\ \A r \in Profiles \ {p, q} : w.ifaces[r] = s.ifaces[r]
  /\ w.ifaces[p].name = s.ifaces[p].name /\ w.ifaces[p].port = s.ifaces[p].port
  /\ w.ifaces[p].peers = s.ifaces[p].peers \ {k}
  /\ q \in Tracked(s) => /\ w.ifaces[q].name = s.ifaces[q].name
                         /\ w.ifaces[q].port = s.ifaces[q].port
  /\ w.ifaces[q].peers = s.ifaces[q].peers \cup {k}
  /\ w.routes = [s.routes EXCEPT ![a] = w.ifaces[q].name]
  /\ req \in {0, w.ifaces[q].port}

\* Such a pool serves the client as next, and the others as before.
LEMMA HandedServes ==
  ASSUME NEW cs \in SUBSET Clients, NEW s, Serves(s, cs), NEW c \in cs, Alone(cs, c),
         NEW p \in Profiles, NEW k \in Keys, NEW a \in Addrs, KnownAs(c, p, k, a),
         NEW next \in Clients, NEW q \in Profiles, KnownAs(next, q, k, a),
         NEW req \in Nat, next.port = req, p # q, s.ifaces[p].peers # {k},
         NEW w, Handed(s, w, p, q, req, k, a)
  PROVE  Serves(w, (cs \ {c}) \cup {next})
<1> DEFINE ds == (cs \ {c}) \cup {next}
<1>1. /\ Carries(s, cs) /\ Tidy(s) /\ Matches(s, cs) /\ s \in States
      /\ \A r \in Tracked(s) : \E x \in cs : effectiveProfile(x) = r
  BY DEF Serves, Carries, Tidy, Sound
<1>2. /\ p = effectiveProfile(c) /\ k = c.key /\ a = c.addr
      /\ q = effectiveProfile(next) /\ k = next.key /\ a = next.addr
  BY DEF KnownAs
<1>3. p \in Tracked(s) /\ k \in s.ifaces[p].peers
  <2>1. p \in Tracked(s)
    BY <1>1, <1>2 DEF Carries
  <2>2. k \in KeysOn(cs, p)
    BY <1>2 DEF KeysOn
  <2> QED BY <1>1, <2>1, <2>2 DEF Matches
<1>4. \A x \in cs \ {c} : x.key # k /\ x.addr # a /\ x.addr \in Addrs
  BY <1>2 DEF Alone, Clients
<1>5. \A r \in Tracked(s) : /\ w.ifaces[r].name = s.ifaces[r].name
                            /\ w.ifaces[r].port = s.ifaces[r].port
  BY DEF Handed, Tracked
<1>6. Matches(w, ds)
  <2>1. KeysOn(ds, p) = KeysOn(cs, p) \ {k}
    BY <1>2, <1>4 DEF KeysOn
  <2>2. KeysOn(ds, q) = KeysOn(cs, q) \cup {k}
    BY <1>2, <1>4 DEF KeysOn
  <2>3. ASSUME NEW r \in Profiles, r # p, r # q
        PROVE  KeysOn(ds, r) = KeysOn(cs, r)
    BY <1>2, <2>3 DEF KeysOn
  <2> QED BY <1>1, <2>1, <2>2, <2>3 DEF Matches, Handed
<1>7. s.routes \in [Addrs -> Nat \cup {NoName}]
  BY <1>1 DEF States
<1>8. ASSUME NEW x \in ds
      PROVE  /\ effectiveProfile(x) \in Tracked(w)
             /\ w.routes[x.addr] = w.ifaces[effectiveProfile(x)].name
             /\ x.port \in {0, w.ifaces[effectiveProfile(x)].port}
  <2>1. CASE x = next
    BY <1>2, <1>7, <2>1 DEF Handed
  <2>2. CASE x \in cs \ {c}
    <3>1. /\ effectiveProfile(x) \in Tracked(s)
          /\ s.routes[x.addr] = s.ifaces[effectiveProfile(x)].name
          /\ x.port \in {0, s.ifaces[effectiveProfile(x)].port}
      BY <1>1, <2>2 DEF Carries
    <3>2. w.routes[x.addr] = s.routes[x.addr]
      BY <1>4, <1>7, <2>2 DEF Handed
    <3>3. effectiveProfile(x) \in Tracked(w)
      BY <3>1 DEF Handed
    <3> QED BY <1>5, <3>1, <3>2, <3>3
  <2> QED BY <2>1, <2>2
<1>9. ASSUME NEW b \in Addrs, \A x \in ds : x.addr # b
      PROVE  w.routes[b] = NoName
  <2>1. b # a /\ \A x \in cs : x.addr # b
    BY <1>2, <1>9
  <2> QED BY <1>1, <1>7, <2>1 DEF Handed, Carries
<1>10. ASSUME NEW r \in Tracked(w)
       PROVE  \E x \in ds : effectiveProfile(x) = r
  <2>1. CASE r = q
    BY <1>2, <2>1
  <2>2. CASE r = p
    <3>1. PICK j \in s.ifaces[p].peers : j # k
      BY <1>3
    <3>2. s.ifaces[p].peers = KeysOn(cs, p)
      BY <1>1 DEF Matches
    <3>3. PICK x \in cs : effectiveProfile(x) = p /\ x.key = j
      BY <3>1, <3>2 DEF KeysOn
    <3> QED BY <1>2, <2>2, <3>1, <3>3
  <2>3. CASE r # p /\ r # q
    <3>1. PICK x \in cs : effectiveProfile(x) = r
      BY <1>1, <2>3 DEF Handed
    <3> QED BY <1>2, <2>3, <3>1
  <2> QED BY <2>1, <2>2, <2>3
<1> QED BY <1>6, <1>8, <1>9, <1>10 DEF Serves, Carries, Handed

\* The client leaves others on its interface: it is added to the new one first.
LEMMA MovedShared ==
  ASSUME Reliable, NEW cs \in SUBSET Clients, NEW s, Serves(s, cs), NEW c \in cs, Alone(cs, c),
         NEW p \in Profiles, NEW k \in Keys, NEW a \in Addrs, KnownAs(c, p, k, a),
         NEW next \in Clients, NEW q \in Profiles, KnownAs(next, q, k, a),
         NEW req \in Nat, next.port = req, p # q, s.ifaces[p].peers # {k}, p \in Tracked(s),
         NEW o \in migrateSharedPeer(s, p, q, req, k, a)
  PROVE  Migrated(o, cs, c, next)
<1> DEFINE n == s.ifaces[p].name
           H1(x) == {Outcome(r.st, rollbackFailure(x.err, r.err)) : r \in replacePeerRoute(x.st, n, a)}
           H2(x) == {Outcome(r.st, rollbackFailure(x.err, r.err)) :
                       r \in rollbackSharedMigration(x.st, p, q, k, a)}
           Last(x) == {Done(untrackPeer(x, p, k))}
           Leave(x) == Then(Catch(removePeerOnlyFromInterface(x, n, k), H2), Last)
           Join(x) == Then(Catch(addPeerLocked(x, q, k, a), H1), Leave)
<1>1. Tidy(s)
  BY DEF Serves, Carries
<1>2. o \in Then(getOrCreateInterface(s, q, req), Join)
  BY DEF migrateSharedPeer
<1> HIDE DEF Join
<1>3. PICK t \in getOrCreateInterface(s, q, req) : o \in IF t.err = "ok" THEN Join(t.st) ELSE {t}
  BY <1>2 DEF Then
<1>4. CASE t.err # "ok"
  <2>1. o = t /\ t.st = s
    BY <1>1, <1>3, <1>4, SureGetOrCreate
  <2> QED BY <1>4, <2>1 DEF Migrated
<1>5. CASE t.err = "ok"
  <2> DEFINE u == t.st
  <2>1. /\ Tidy(u) /\ Tracked(u) = Tracked(s) \cup {q} /\ u.routes = s.routes /\ Beside(s, u, q)
        /\ q \in Tracked(s) => u = s
        /\ u.ifaces[q].peers = s.ifaces[q].peers /\ req \in {0, u.ifaces[q].port}
    <3>1. CASE u = s /\ q \in Tracked(s) /\ req \in {0, s.ifaces[q].port}
      BY <1>1, <3>1 DEF Beside
    <3>2. CASE /\ q \notin Tracked(s) /\ Tidy(u) /\ Tracked(u) = Tracked(s) \cup {q}
               /\ Beside(s, u, q) /\ u.routes = s.routes /\ u.ifaces[q].peers = {}
               /\ req \in {0, u.ifaces[q].port}
      <4>1. GoodIface(s.ifaces[q]) /\ s.ifaces[q].name = NoName
        BY <1>1, <3>2 DEF Tidy, Sound, Tracked
      <4>2. s.ifaces[q].peers = {}
        BY <4>1 DEF GoodIface, NoIface
      <4> QED BY <3>2, <4>2, SMTT(30)
    <3> QED BY <1>1, <1>3, <1>5, <3>1, <3>2, SureGetOrCreate
  <2>2. o \in Join(u)
    BY <1>3, <1>5
  <2> HIDE DEF u
  <2>3. PICK x \in addPeerLocked(u, q, k, a) :
          \E y \in IF x.err = "ok" THEN {x} ELSE H1(x) : o \in IF y.err = "ok" THEN Leave(y.st) ELSE {y}
    <3> HIDE DEF H1, Leave
    <3> QED BY <2>2 DEF Join, Then, Catch
  <2> DEFINE v == x.st
  <2>4. q \in Tracked(u) /\ Tidy(u) /\ x \in addPeerLocked(u, q, k, a)
    BY <2>1, <2>3
  <2>5. /\ x.err = "ok" /\ Tidy(v) /\ Tracked(v) = Tracked(u) /\ Beside(u, v, q)
        /\ v.ifaces[q].name = u.ifaces[q].name /\ v.ifaces[q].port = u.ifaces[q].port
        /\ v.ifaces[q].peers = u.ifaces[q].peers \cup {k}
        /\ v.routes = [u.routes EXCEPT ![a] = u.ifaces[q].name]
    BY <2>4, SureAddLocked, SMTT(30)
  <2>6. o \in Leave(v)
    <3> HIDE DEF Leave
    <3> QED BY <2>3, <2>5
  <2> HIDE DEF v
  <2>7. PICK y \in removePeerOnlyFromInterface(v, n, k) :
          \E z \in IF y.err = "ok" THEN {y} ELSE H2(y) : o \in IF z.err = "ok" THEN Last(z.st) ELSE {z}
    <3> HIDE DEF H2, Last
    <3> QED BY <2>6 DEF Then, Catch
  <2> DEFINE w == untrackPeer(y.st, p, k)
  <2>8. p \in Tracked(v) /\ v.ifaces[p] = s.ifaces[p] /\ v.ifaces[p].name = n
    BY <2>1, <2>5 DEF Beside
  <2>9. y \in removePeerOnlyFromInterface(v, v.ifaces[p].name, k)
    BY <2>7, <2>8
  <2>10. /\ y.err = "ok" /\ Tidy(w) /\ Tracked(w) = Tracked(v) /\ Beside(v, w, p)
         /\ w.ifaces[p].name = v.ifaces[p].name /\ w.ifaces[p].port = v.ifaces[p].port
         /\ w.ifaces[p].peers = v.ifaces[p].peers \ {k}
         /\ w.routes = v.routes
    BY <2>5, <2>8, <2>9, SureRemoveOnly, SMTT(30)
  <2>11. o = Done(w)
    BY <2>7, <2>10
  <2> HIDE DEF w
  <2>12. Handed(s, w, p, q, req, k, a)
    <3>1. w.ifaces[q] = v.ifaces[q]
      BY <2>10 DEF Beside
    <3>2. \A r \in Profiles \ {p, q} : w.ifaces[r] = s.ifaces[r]
      BY <2>1, <2>5, <2>10 DEF Beside
    <3>3. Tracked(w) = Tracked(s) \cup {q}
      BY <2>1, <2>5, <2>10
    <3>4. w.routes = [s.routes EXCEPT ![a] = w.ifaces[q].name]
      BY <2>1, <2>5, <2>10, <3>1
    <3> QED BY <2>1, <2>5, <2>8, <2>10, <3>1, <3>2, <3>3, <3>4 DEF Handed
  <2>13. Serves(w, (cs \ {c}) \cup {next})
    BY <2>12, HandedServes
  <2> QED BY <2>11, <2>13 DEF Done, Outcome, Migrated
<1> QED BY <1>4, <1>5

\* A change that the pool does not see.
LEMMA ServesRenamed ==
  ASSUME NEW cs \in SUBSET Clients, NEW s, Serves(s, cs), NEW c \in cs,
         NEW p \in Profiles, NEW k \in Keys, NEW a \in Addrs, KnownAs(c, p, k, a),
         NEW next \in Clients, KnownAs(next, p, k, a), next.port = c.port
  PROVE  Serves(s, (cs \ {c}) \cup {next})
<1> DEFINE ds == (cs \ {c}) \cup {next}
<1>1. /\ effectiveProfile(next) = effectiveProfile(c) /\ next.key = c.key /\ next.addr = c.addr
      /\ next.port = c.port
  BY DEF KnownAs
<1>2. Matches(s, ds)
  <2>1. \A q : KeysOn(ds, q) = KeysOn(cs, q)
    BY <1>1 DEF KeysOn
  <2> QED BY <2>1 DEF Serves, Carries, Matches
<1>3. \A x \in ds : /\ effectiveProfile(x) \in Tracked(s)
                    /\ s.routes[x.addr] = s.ifaces[effectiveProfile(x)].name
                    /\ x.port \in {0, s.ifaces[effectiveProfile(x)].port}
  BY <1>1 DEF Serves, Carries
<1>4. \A b \in Addrs : (\A x \in ds : x.addr # b) => s.routes[b] = NoName
  BY <1>1 DEF Serves, Carries
<1>5. \A q \in Tracked(s) : \E x \in ds : effectiveProfile(x) = q
  BY <1>1 DEF Serves
<1> QED BY <1>2, <1>3, <1>4, <1>5 DEF Serves, Carries

\* MigratePeer serves the client as next, or everyone as before.
LEMMA ServesMoved ==
  ASSUME Reliable, NEW cs \in SUBSET Clients, NEW s, Serves(s, cs), NEW c \in cs, Alone(cs, c),
         NEW p \in Profiles, NEW k \in Keys, NEW a \in Addrs, KnownAs(c, p, k, a),
         NEW next \in Clients, NEW q \in Profiles, KnownAs(next, q, k, a),
         NEW req \in Nat, next.port = req,
         NEW o \in MigratePeer(s, p, c.port, q, req, k, a)
  PROVE  Migrated(o, cs, c, next)
<1> DEFINE old == c.port
<1>1. /\ Tidy(s) /\ p \in Tracked(s) /\ k \in s.ifaces[p].peers /\ HasPeer(s, p, k)
  <2>1. Carries(s, cs) /\ Tidy(s) /\ p = effectiveProfile(c) /\ k = c.key
    BY DEF Serves, Carries, KnownAs
  <2>2. /\ p \in Tracked(s) /\ c.key \in s.ifaces[p].peers /\ HasPeer(s, p, c.key)
        /\ s.routes[c.addr] = s.ifaces[p].name /\ c.port \in {0, s.ifaces[p].port}
        /\ c.key \in Keys /\ c.addr \in Addrs /\ c.port \in Nat
    BY <2>1, CarriedClient
  <2> QED BY <2>1, <2>2
<1>2. /\ IsFiniteSet(s.ifaces[p].peers) /\ s.ifaces[p].count = Cardinality(s.ifaces[p].peers)
      /\ s.ifaces[p].count \in Nat /\ s.ifaces[p].count # 0
  <2>1. IsFiniteSet(s.ifaces[p].peers) /\ s.ifaces[p].count = Cardinality(s.ifaces[p].peers)
    BY <1>1, TidyFacts
  <2>2. Cardinality(s.ifaces[p].peers) \in Nat
    BY <2>1, FS_CardinalityType
  <2>3. s.ifaces[p].count > 0
    BY <1>1 DEF HasPeer
  <2> QED BY <2>1, <2>2, <2>3
<1>3. o \in MigratePeer(s, p, old, q, req, k, a)
  OBVIOUS
<1> HIDE DEF old
<1>4. CASE p = q /\ old = req
  <2>1. o = Done(s)
    BY <1>1, <1>3, <1>4 DEF MigratePeer
  <2>2. Serves(s, (cs \ {c}) \cup {next})
    BY <1>4, ServesRenamed DEF old
  <2> QED BY <2>1, <2>2 DEF Done, Outcome, Migrated
<1>5. CASE ~(p = q /\ old = req) /\ p = q /\ s.ifaces[p].count > 1
  <2>1. o = Outcome(s, "portShared")
    BY <1>1, <1>3, <1>5 DEF MigratePeer
  <2> QED BY <2>1 DEF Outcome, Migrated
<1>6. CASE p # q /\ q \in Tracked(s) /\ PortConflicts(s, q, req)
  <2>1. o = Outcome(s, "portConflict")
    BY <1>1, <1>3, <1>6 DEF MigratePeer
  <2> QED BY <2>1 DEF Outcome, Migrated
<1>7. CASE /\ ~(p = q /\ old = req) /\ ~(p = q /\ s.ifaces[p].count > 1)
           /\ ~(p # q /\ q \in Tracked(s) /\ PortConflicts(s, q, req))
  <2>1. o \in IF s.ifaces[p].count = 1 THEN migrateSolePeer(s, p, q, req, k, a)
                                       ELSE migrateSharedPeer(s, p, q, req, k, a)
    BY <1>1, <1>3, <1>7, Zenon DEF MigratePeer
  <2>2. CASE s.ifaces[p].count = 1
    BY <2>1, <2>2, MovedSole
  <2>3. CASE s.ifaces[p].count # 1
    <3>1. s.ifaces[p].peers # {k}
      BY <1>2, <2>3, FS_Singleton
    <3>2. p # q
      BY <1>2, <1>7, <2>3
    <3> QED BY <1>1, <2>1, <2>3, <3>1, <3>2, MovedShared
  <2> QED BY <2>2, <2>3
<1> QED BY <1>4, <1>5, <1>6, <1>7

-----------------------------------------------------------------------------
(***************************************************************************)
(* The calls of a running server.                                          *)
(***************************************************************************)
\* The pool serves the clients, who talk within their groups or not at all.
Steady(s) ==
  /\ Serves(s.pool, s.clients)
  /\ s.lan \in {{}, lanPairs(s.clients)}

\* The LAN is blocked.
LEMMA SureBlock ==
  ASSUME Reliable, NEW s \in MStates, s.pool.faults = 0, NEW b \in blockLAN(s)
  PROVE  b.err = "ok" /\ Frame(s, b.st) /\ b.st.lan = {} /\ b.st.pool = s.pool
<1>1. b \in Attempt(s, [s EXCEPT !.lan = lanPairs({})], "blockLAN")
  BY DEF blockLAN, ApplyLANIsolation
<1> DEFINE e == [s EXCEPT !.lan = lanPairs({})]
<1>2. Frame(s, e) /\ e.lan = {} /\ e.pool = s.pool
  BY NoPairs DEF Frame, MStates
<1> HIDE DEF e
<1>3. b \in Attempt(s, e, "blockLAN")
  BY <1>1 DEF e
<1>4. b.st = e /\ b.err = "ok"
  BY <1>3, SureAttempt
<1> QED BY <1>2, <1>4

\* The file is replaced.
LEMMA SureSave ==
  ASSUME Reliable, NEW s \in MStates, s.pool.faults = 0, NEW d \in Files, NEW o \in Save(s, d)
  PROVE  /\ o.err = "ok" /\ o.st \in MStates
         /\ o.st.disk = d /\ o.st.pool = s.pool /\ o.st.lan = s.lan
         /\ o.st.phase = s.phase /\ o.st.probes = s.probes /\ o.st.data = s.data
         /\ o.st.todo = s.todo /\ o.st.clients = s.clients /\ o.st.usedIPs = s.usedIPs
<1> DEFINE e == [s EXCEPT !.disk = d]
<1>1. /\ e \in MStates /\ e.disk = d /\ e.pool = s.pool /\ e.lan = s.lan
      /\ e.phase = s.phase /\ e.probes = s.probes /\ e.data = s.data
      /\ e.todo = s.todo /\ e.clients = s.clients /\ e.usedIPs = s.usedIPs
  BY DEF MStates
<1>2. o \in Attempt(s, e, "save")
  BY DEF Save
<1> HIDE DEF e
<1>3. o.st = e /\ o.err = "ok"
  BY <1>2, SureAttempt
<1> QED BY <1>1, <1>3

\* The LAN is rebuilt for clients that have addresses of their own.
LEMMA SureRebuild ==
  ASSUME Reliable, NEW s \in MStates, s.pool.faults = 0, GoodFile(s.data), NEW o \in rebuildLAN(s)
  PROVE  /\ o.err = "ok" /\ Frame(s, o.st) /\ o.st.pool = s.pool
         /\ o.st.lan = lanPairs(ClientsOf(s.data))
<1> DEFINE cs == ClientsOf(s.data)
           e == [s EXCEPT !.lan = lanPairs(cs)]
<1>1. cs \in SUBSET Clients /\ \A c, x \in cs : c # x => c.addr # x.addr
  BY GoodClients
<1>2. o \in Attempt(s, e, "rebuildLAN")
  <2>1. ~ \E c, x \in cs : c # x /\ c.addr = x.addr
    BY <1>1
  <2> QED BY <2>1 DEF rebuildLAN, ApplyLANIsolation
<1>3. Frame(s, e) /\ e.pool = s.pool /\ e.lan = lanPairs(cs)
  <2>1. lanPairs(cs) \subseteq Open
    BY <1>1, PairsType
  <2> HIDE DEF cs
  <2> QED BY <2>1 DEF Frame, MStates
<1> HIDE DEF e
<1>4. o.st = e /\ o.err = "ok"
  BY <1>2, SureAttempt
<1> QED BY <1>3, <1>4

\* A pool operation, and the rest of the process.
LEMMA OnlyPool ==
  ASSUME NEW s \in MStates, NEW x, x.st \in States, NEW o,
         o = Outcome([s EXCEPT !.pool = x.st], x.err)
  PROVE  /\ o.err = x.err /\ o.st.pool = x.st
         /\ Frame(s, o.st) /\ o.st.lan = s.lan
<1> DEFINE t == [s EXCEPT !.pool = x.st]
<1>2. o.st = t /\ o.err = x.err
  BY DEF Outcome
<1>4. Frame(s, t) /\ t.pool = x.st /\ t.lan = s.lan
  BY DEF Frame, MStates
<1> HIDE DEF t
<1> QED BY <1>2, <1>4

\* What a steady server knows when a call comes in.
LEMMA SteadyFacts ==
  ASSUME NEW s, NEW dirt, Inv(s, dirt), s.phase = "up", Steady(s)
  PROVE  /\ s \in MStates /\ s.pool.faults = 0 /\ s.pool \in States
         /\ Serves(s.pool, s.clients) /\ s.clients \in SUBSET Clients
         /\ \A c \in s.clients : effectiveProfile(c) \in Profiles /\ Alone(s.clients, c)
<1>1. /\ s \in MStates /\ s.pool \in States /\ s.clients \subseteq Clients
      /\ \A c \in s.clients : effectiveProfile(c) \in Profiles
      /\ \A c, e \in s.clients : c # e => c.id # e.id /\ c.key # e.key /\ c.addr # e.addr
  BY UpFacts
<1> QED BY <1>1 DEF Steady, Serves, Carries, Tidy, Alone

\* A pool that serves clients has had no failure.
LEMMA ServesFacts ==
  ASSUME NEW s, NEW cs, Serves(s, cs)
  PROVE  s.faults = 0 /\ s \in States /\ Tidy(s)
BY DEF Serves, Carries, Tidy, Sound

\* The outcome of AddPeer is a pool.
LEMMA AddedFacts ==
  ASSUME NEW o, NEW s, NEW cs, NEW c, NEW p, NEW req, Serves(s, cs), Added(o, s, cs, c, p, req)
  PROVE  o.st \in States /\ o.st.faults = 0
BY ServesFacts DEF Added

\* stageCreate serves one client more, or the pool refused it.
LEMMA SteadyStage ==
  ASSUME Reliable, NEW s, NEW dirt, Inv(s, dirt), s.phase = "up", Steady(s),
         NEW c \in Clients, GoodClient(s.data, c),
         \A x \in s.clients : x.id # c.id /\ x.key # c.key /\ x.addr # c.addr,
         NEW o \in stageCreate(s, c)
  PROVE  Steady(o.st)
<1> DEFINE d == markAndSweepHeaderKeys(withClient(s.data, c))
           p == effectiveProfile(c)
           k == c.key
           a == c.addr
           req == c.port
           Undo(x) == persistenceFailure(OnPool(x.st, RemovePeer(x.st.pool, p, k, a)))
           Commit(v) == rebuildLAN(commitClient(v, c, d))
           Keep(u) == Then(Catch(Save(u, d), Undo), Commit)
           Add(t) == Then(OnPool(t, AddPeer(t.pool, p, req, k, a)), Keep)
<1>1. /\ s \in MStates /\ Sound(s.pool) /\ GoodFile(s.data) /\ s.clients = ClientsOf(s.data)
      /\ s.data \in Files
  BY UpFacts
<1>2. GoodFile(d) /\ ClientsOf(d) = s.clients \cup {c} /\ d \in Files
  BY <1>1, AppendedFile DEF GoodFile
<1>3. p \in Profiles
  BY <1>1, ProfileType DEF Files
<1>4. req \in Nat /\ k \in Keys /\ a \in Addrs /\ req \in {0, req}
  BY DEF Clients
<1>5. s.pool.faults = 0 /\ Serves(s.pool, s.clients) /\ s.clients \in SUBSET Clients
  BY SteadyFacts
<1>6. KnownAs(c, p, k, a) /\ FreeAddr(s.clients, a) /\ c.port \in {0, req}
  BY DEF KnownAs, FreeAddr
<1>7. o \in Then(blockLAN(s), Add)
  BY DEF stageCreate
<1> HIDE DEF d, p, k, a, req, Add
<1>8. PICK b \in blockLAN(s) : o \in IF b.err = "ok" THEN Add(b.st) ELSE {b}
  BY <1>7 DEF Then
<1>9. b.err = "ok" /\ Frame(s, b.st) /\ b.st.lan = {} /\ b.st.pool = s.pool
  BY <1>1, <1>5, <1>8, SureBlock
<1>10. b.st \in MStates /\ b.st.clients = s.clients /\ o \in Add(b.st)
  BY <1>8, <1>9 DEF Frame
<1>11. PICK u \in OnPool(b.st, AddPeer(s.pool, p, req, k, a)) :
         o \in IF u.err = "ok" THEN Keep(u.st) ELSE {u}
  <2> HIDE DEF Keep
  <2> QED BY <1>9, <1>10 DEF Then, Add
<1>12. PICK x \in AddPeer(s.pool, p, req, k, a) : u = Outcome([b.st EXCEPT !.pool = x.st], x.err)
  BY <1>11 DEF OnPool
<1>13. Added(x, s.pool, s.clients, c, p, req)
  BY <1>3, <1>4, <1>5, <1>6, <1>12, ServesAdded
<1>14. x.st \in States /\ x.st.faults = 0
  BY <1>5, <1>13, AddedFacts
<1>15. u.err = x.err /\ u.st.pool = x.st /\ Frame(b.st, u.st) /\ u.st.lan = b.st.lan
  BY <1>10, <1>12, <1>14, OnlyPool
<1>16. u.st \in MStates /\ u.st.clients = s.clients /\ u.st.lan = {} /\ u.st.pool.faults = 0
  BY <1>9, <1>10, <1>14, <1>15 DEF Frame
<1>17. CASE u.err # "ok"
  <2>1. o = u
    BY <1>11, <1>17
  <2>2. x.st = s.pool
    BY <1>13, <1>15, <1>17 DEF Added
  <2> QED BY <1>5, <1>15, <1>16, <2>1, <2>2 DEF Steady
<1>18. CASE u.err = "ok"
  <2>1. Serves(u.st.pool, s.clients \cup {c})
    BY <1>13, <1>15, <1>18 DEF Added
  <2>2. PICK w \in Save(u.st, d) :
          \E v \in IF w.err = "ok" THEN {w} ELSE Undo(w) :
            o \in IF v.err = "ok" THEN Commit(v.st) ELSE {v}
    <3> HIDE DEF Undo, Commit
    <3> QED BY <1>11, <1>18 DEF Then, Catch
  <2>3. /\ w.err = "ok" /\ w.st \in MStates
        /\ w.st.disk = d /\ w.st.pool = u.st.pool /\ w.st.lan = u.st.lan
        /\ w.st.phase = u.st.phase /\ w.st.probes = u.st.probes /\ w.st.data = u.st.data
        /\ w.st.todo = u.st.todo /\ w.st.clients = u.st.clients /\ w.st.usedIPs = u.st.usedIPs
    BY <1>2, <1>16, <2>2, SureSave
  <2> DEFINE t == commitClient(w.st, c, d)
  <2>4. o \in rebuildLAN(t)
    BY <2>2, <2>3
  <2>5. /\ t \in MStates /\ t.data = d
        /\ t.clients = {y \in w.st.clients : y.id # c.id} \cup {c}
        /\ t.usedIPs = w.st.usedIPs \cup {c.addr}
        /\ t.disk = w.st.disk /\ t.pool = w.st.pool /\ t.lan = w.st.lan
        /\ t.phase = w.st.phase /\ t.probes = w.st.probes /\ t.todo = w.st.todo
    BY <1>2, <2>3, CommitFields
  <2> HIDE DEF t
  <2>6. t.clients = s.clients \cup {c}
    BY <1>16, <2>3, <2>5
  <2>7. t.pool.faults = 0 /\ GoodFile(t.data)
    BY <1>2, <1>16, <2>3, <2>5
  <2>8. /\ o.err = "ok" /\ Frame(t, o.st) /\ o.st.pool = t.pool
        /\ o.st.lan = lanPairs(ClientsOf(t.data))
    BY <2>4, <2>5, <2>7, SureRebuild
  <2>9. o.st.clients = s.clients \cup {c} /\ o.st.lan = lanPairs(o.st.clients)
    BY <1>2, <2>5, <2>6, <2>8 DEF Frame
  <2> QED BY <2>1, <2>3, <2>5, <2>8, <2>9 DEF Steady
<1> QED BY <1>17, <1>18

\* CreateClient.
LEMMA SteadyCreate ==
  ASSUME Reliable, NEW s, NEW dirt, Inv(s, dirt), s.phase = "up", Steady(s),
         NEW r \in CreateRequests, NEW key \in Keys, \A x \in s.clients : x.key # key,
         NEW o \in CreateClient(s, r, key)
  PROVE  Steady(o.st)
<1>1. CASE \E err : err \notin {"ok", "rebuildLAN"} /\ o = Outcome(s, err)
  BY <1>1 DEF Outcome
<1>2. ASSUME NEW c \in Clients, GoodClient(s.data, c), o \in stageCreate(s, c),
             \A x \in s.clients : x.id # c.id /\ x.key # c.key /\ x.addr # c.addr
      PROVE  Steady(o.st)
  BY <1>2, SteadyStage
<1> QED BY <1>1, <1>2, CreateStages

\* The record of a client is replaced in memory: the LAN need not change.
LEMMA SteadyCommit ==
  ASSUME NEW s, NEW dirt, Inv(s, dirt), s.phase = "up", Steady(s), NEW c \in s.clients,
         NEW next \in Clients, Replaces(next, c), NEW d \in Files,
         NEW v \in MStates, v.clients = s.clients, v.lan = s.lan,
         Serves(v.pool, (s.clients \ {c}) \cup {next}),
         NEW o, o = Done(commitClient(v, next, d))
  PROVE  Steady(o.st)
<1> DEFINE t == commitClient(v, next, d)
           ds == (s.clients \ {c}) \cup {next}
<1>1. \A x, e \in s.clients : x # e => x.id # e.id
  BY UpFacts
<1>2. o.st = t
  BY DEF Done, Outcome
<1>3. /\ t \in MStates /\ t.data = d
      /\ t.clients = {x \in v.clients : x.id # next.id} \cup {next}
      /\ t.usedIPs = v.usedIPs \cup {next.addr}
      /\ t.disk = v.disk /\ t.pool = v.pool /\ t.lan = v.lan
      /\ t.phase = v.phase /\ t.probes = v.probes /\ t.todo = v.todo
  BY CommitFields
<1> HIDE DEF t
<1>4. next.id = c.id
  BY DEF Replaces
<1>5. t.clients = ds
  BY <1>1, <1>3, <1>4
<1>6. lanPairs(ds) = lanPairs(s.clients)
  BY SamePairs
<1> HIDE DEF ds
<1>7. Serves(v.pool, ds)
  BY DEF ds
<1> QED BY <1>2, <1>3, <1>5, <1>6, <1>7 DEF Steady

\* The pool knows the client that replaces c by the same key and address.
LEMMA ReplacedKnown ==
  ASSUME NEW c \in Clients, NEW next \in Clients, Replaces(next, c)
  PROVE  /\ KnownAs(c, effectiveProfile(c), c.key, c.addr)
         /\ KnownAs(next, effectiveProfile(next), c.key, c.addr)
         /\ c.key \in Keys /\ c.addr \in Addrs /\ next.port \in Nat
BY DEF KnownAs, Replaces, Clients

\* migrateClient.
LEMMA SteadyMigrate ==
  ASSUME Reliable, NEW s, NEW dirt, Inv(s, dirt), s.phase = "up", Steady(s), NEW c \in s.clients,
         NEW next \in Clients, Replaces(next, c),
         NEW d, GoodFile(d), ClientsOf(d) = (s.clients \ {c}) \cup {next},
         NEW o \in migrateClient(s, c, next, d)
  PROVE  Steady(o.st)
<1> DEFINE p == effectiveProfile(c)
           q == effectiveProfile(next)
           k == c.key
           a == c.addr
           req == next.port
           oldPort == s.pool.ifaces[p].port
           Undo(x) == persistenceFailure(
                        OnPool(x.st, MigratePeer(x.st.pool, q, req, p, oldPort, k, a)))
           Commit(v) == {Done(commitClient(v, next, d))}
           Keep(u) == Then(Catch(Save(u, d), Undo), Commit)
<1>1. /\ s \in MStates /\ s.pool.faults = 0 /\ s.pool \in States
      /\ Serves(s.pool, s.clients) /\ s.clients \in SUBSET Clients
      /\ p \in Profiles /\ Alone(s.clients, c)
  BY SteadyFacts
<1>2. q \in Profiles /\ d \in Files
  BY GoodClients
<1>3. c \in Clients
  BY <1>1
<1>4. KnownAs(c, p, k, a) /\ KnownAs(next, q, k, a) /\ k \in Keys /\ a \in Addrs /\ req \in Nat
  BY <1>3, ReplacedKnown
<1>5. \/ o = Outcome(s, "refused")
      \/ o \in Then(OnPool(s, MigratePeer(s.pool, p, c.port, q, req, k, a)), Keep)
  BY DEF migrateClient
<1>6. next.port = req
  OBVIOUS
<1> HIDE DEF p, q, k, a, req, Keep
<1>7. CASE o = Outcome(s, "refused")
  BY <1>7 DEF Outcome
<1>8. CASE o \in Then(OnPool(s, MigratePeer(s.pool, p, c.port, q, req, k, a)), Keep)
  <2>1. PICK u \in OnPool(s, MigratePeer(s.pool, p, c.port, q, req, k, a)) :
          o \in IF u.err = "ok" THEN Keep(u.st) ELSE {u}
    BY <1>8 DEF Then
  <2>2. PICK x \in MigratePeer(s.pool, p, c.port, q, req, k, a) :
          u = Outcome([s EXCEPT !.pool = x.st], x.err)
    BY <2>1 DEF OnPool
  <2>3. Migrated(x, s.clients, c, next)
    BY <1>1, <1>2, <1>4, <1>6, <2>2, ServesMoved
  <2>4. x.st \in States /\ x.st.faults = 0
    BY <2>3, ServesFacts DEF Migrated
  <2>5. u.err = x.err /\ u.st.pool = x.st /\ Frame(s, u.st) /\ u.st.lan = s.lan
    BY <1>1, <2>2, <2>4, OnlyPool
  <2>6. u.st \in MStates /\ u.st.clients = s.clients /\ u.st.pool.faults = 0
    BY <2>4, <2>5 DEF Frame
  <2>7. CASE u.err # "ok"
    <3>1. o = u /\ Serves(u.st.pool, s.clients)
      BY <2>1, <2>3, <2>5, <2>7 DEF Migrated
    <3> QED BY <2>5, <2>6, <3>1 DEF Steady
  <2>8. CASE u.err = "ok"
    <3>1. Serves(u.st.pool, (s.clients \ {c}) \cup {next})
      BY <2>3, <2>5, <2>8 DEF Migrated
    <3>2. PICK w \in Save(u.st, d) :
            \E v \in IF w.err = "ok" THEN {w} ELSE Undo(w) :
              o \in IF v.err = "ok" THEN Commit(v.st) ELSE {v}
      <4> HIDE DEF Undo, Commit
      <4> QED BY <2>1, <2>8 DEF Keep, Then, Catch
    <3>3. /\ w.err = "ok" /\ w.st \in MStates
          /\ w.st.disk = d /\ w.st.pool = u.st.pool /\ w.st.lan = u.st.lan
          /\ w.st.phase = u.st.phase /\ w.st.probes = u.st.probes /\ w.st.data = u.st.data
          /\ w.st.todo = u.st.todo /\ w.st.clients = u.st.clients /\ w.st.usedIPs = u.st.usedIPs
      BY <1>2, <2>6, <3>2, SureSave
    <3>4. o = Done(commitClient(w.st, next, d))
      BY <3>2, <3>3
    <3> DEFINE z == w.st
    <3>5. /\ z \in MStates /\ z.clients = s.clients /\ z.lan = s.lan
          /\ Serves(z.pool, (s.clients \ {c}) \cup {next}) /\ o = Done(commitClient(z, next, d))
      BY <2>5, <2>6, <3>1, <3>3, <3>4
    <3> HIDE DEF z
    <3> QED BY <1>2, <3>5, SteadyCommit
  <2> QED BY <2>7, <2>8
<1> QED BY <1>5, <1>7, <1>8

\* applyClientUpdate.
LEMMA SteadyApply ==
  ASSUME Reliable, NEW s, NEW dirt, Inv(s, dirt), s.phase = "up", Steady(s), NEW c \in s.clients,
         NEW next \in Clients, Replaces(next, c), next.ver \in Versions,
         NEW new \in SUBSET HeaderKeys, NEW o \in applyClientUpdate(s, c, next, new)
  PROVE  Steady(o.st)
<1> DEFINE d == UpdatedData(s.data, new, next)
           Commit(t) == {Done(commitClient(t, next, d))}
           Migrate(t) == migrateClient(t, c, next, d)
<1>1. \/ o = Outcome(s, "headerKey")
      \/ /\ hasHeaderKey(d, next)
         /\ effectiveProfile(c) = effectiveProfile(next) /\ c.port = next.port
         /\ o \in Then(Save(s, d), Commit)
      \/ hasHeaderKey(d, next) /\ o \in Then(Attempt(s, s, "snapshot"), Migrate)
  BY DEF applyClientUpdate, UpdatedData
<1>2. ASSUME hasHeaderKey(d, next)
      PROVE  GoodFile(d) /\ ClientsOf(d) = (s.clients \ {c}) \cup {next}
  <2>1. hasHeaderKey(UpdatedData(s.data, new, next), next)
    BY <1>2
  <2>2. GoodUpdate(s, c, next, UpdatedData(s.data, new, next))
    BY <2>1, UpdatedGood
  <2> QED BY <2>2 DEF GoodUpdate
<1>3. /\ s \in MStates /\ s.pool.faults = 0 /\ Serves(s.pool, s.clients)
      /\ s.clients \in SUBSET Clients /\ effectiveProfile(c) \in Profiles
  BY SteadyFacts
<1> HIDE DEF d
<1>4. CASE o = Outcome(s, "headerKey")
  BY <1>4 DEF Outcome
<1>5. CASE /\ hasHeaderKey(d, next)
           /\ effectiveProfile(c) = effectiveProfile(next) /\ c.port = next.port
           /\ o \in Then(Save(s, d), Commit)
  <2>1. PICK w \in Save(s, d) : o \in IF w.err = "ok" THEN Commit(w.st) ELSE {w}
    <3> HIDE DEF Commit
    <3> QED BY <1>5 DEF Then
  <2>2. d \in Files
    BY <1>2, <1>5 DEF GoodFile
  <2>3. /\ w.err = "ok" /\ w.st \in MStates
        /\ w.st.disk = d /\ w.st.pool = s.pool /\ w.st.lan = s.lan
        /\ w.st.phase = s.phase /\ w.st.probes = s.probes /\ w.st.data = s.data
        /\ w.st.todo = s.todo /\ w.st.clients = s.clients /\ w.st.usedIPs = s.usedIPs
    BY <1>3, <2>1, <2>2, SureSave
  <2>4. Serves(s.pool, (s.clients \ {c}) \cup {next})
    <3> DEFINE p == effectiveProfile(c)
               k == c.key
               a == c.addr
    <3>1. KnownAs(c, p, k, a) /\ KnownAs(next, p, k, a) /\ p \in Profiles /\ k \in Keys /\ a \in Addrs
      BY <1>3, <1>5, ReplacedKnown
    <3>2. next.port = c.port
      BY <1>5
    <3> HIDE DEF p, k, a
    <3> QED BY <1>3, <3>1, <3>2, ServesRenamed
  <2> DEFINE z == w.st
  <2>5. /\ z \in MStates /\ z.clients = s.clients /\ z.lan = s.lan
        /\ Serves(z.pool, (s.clients \ {c}) \cup {next}) /\ o = Done(commitClient(z, next, d))
    BY <2>1, <2>3, <2>4
  <2> HIDE DEF z
  <2> QED BY <2>2, <2>5, SteadyCommit
<1>6. CASE hasHeaderKey(d, next) /\ o \in Then(Attempt(s, s, "snapshot"), Migrate)
  <2>1. PICK w \in Attempt(s, s, "snapshot") : o \in IF w.err = "ok" THEN Migrate(w.st) ELSE {w}
    <3> HIDE DEF Migrate
    <3> QED BY <1>6 DEF Then
  <2>2. w.st = s /\ w.err = "ok"
    BY <1>3, <2>1, SureAttempt
  <2>3. o \in migrateClient(s, c, next, d)
    BY <2>1, <2>2
  <2> QED BY <1>2, <1>6, <2>3, SteadyMigrate
<1> QED BY <1>1, <1>4, <1>5, <1>6

\* UpdateClient and RegenerateAWGParams.
LEMMA SteadyUpdate ==
  ASSUME Reliable, NEW s, NEW dirt, Inv(s, dirt), s.phase = "up", Steady(s), NEW o, Applies(s, o)
  PROVE  Steady(o.st)
<1>1. CASE \E err : err \notin {"ok", "rebuildLAN"} /\ o = Outcome(s, err)
  BY <1>1 DEF Outcome
<1>2. ASSUME NEW c \in s.clients, NEW next \in Clients, NEW new \in SUBSET HeaderKeys,
             Replaces(next, c), next.ver \in Versions, o \in applyClientUpdate(s, c, next, new)
      PROVE  Steady(o.st)
  BY <1>2, SteadyApply
<1> QED BY <1>1, <1>2 DEF Applies

\* Groups are nothing to the pool.
LEMMA ServesGrouped ==
  ASSUME NEW cs \in SUBSET Clients, NEW s, Serves(s, cs), NEW ids, NEW group, Chosen(group),
         NEW ds, ds = {inGroup(c, ids, group) : c \in cs}
  PROVE  Serves(s, ds)
<1> DEFINE g(c) == inGroup(c, ids, group)
<1>1. \A c \in cs : /\ g(c).key = c.key /\ g(c).addr = c.addr /\ g(c).port = c.port
                    /\ effectiveProfile(g(c)) = effectiveProfile(c)
  <2>1. \A c \in Clients : inGroup(c, ids, group).port = c.port
    BY DEF inGroup, Clients
  <2> QED BY <2>1, InGroup
<1> HIDE DEF g
<1>2. ds = {g(c) : c \in cs}
  BY DEF g
<1>3. Matches(s, ds)
  <2>1. \A q : KeysOn(ds, q) = KeysOn(cs, q)
    BY <1>1, <1>2 DEF KeysOn
  <2> QED BY <2>1 DEF Serves, Carries, Matches
<1>4. ASSUME NEW x \in ds
      PROVE  /\ effectiveProfile(x) \in Tracked(s)
             /\ s.routes[x.addr] = s.ifaces[effectiveProfile(x)].name
             /\ x.port \in {0, s.ifaces[effectiveProfile(x)].port}
  <2>1. PICK c \in cs : x = g(c)
    BY <1>2
  <2> QED BY <1>1, <2>1 DEF Serves, Carries
<1>5. \A b \in Addrs : (\A x \in ds : x.addr # b) => s.routes[b] = NoName
  BY <1>1, <1>2 DEF Serves, Carries
<1>6. \A q \in Tracked(s) : \E x \in ds : effectiveProfile(x) = q
  BY <1>1, <1>2 DEF Serves
<1> QED BY <1>3, <1>4, <1>5, <1>6 DEF Serves, Carries

\* UpdateLANGroup.
LEMMA SteadyGroup ==
  ASSUME Reliable, NEW s, NEW dirt, Inv(s, dirt), s.phase = "up", Steady(s),
         NEW ids, NEW group, Chosen(group), NEW o \in UpdateLANGroup(s, ids, group)
  PROVE  Steady(o.st)
<1> DEFINE d == withGroup(s.data, ids, group)
           Into(u) == [u EXCEPT !.data = d, !.clients = {c \in @ : c.id \notin ids}
                                                  \cup {c \in ClientsOf(d) : c.id \in ids}]
           Commit(u) == rebuildLAN(Into(u))
           Keep(t) == Then(Save(t, d), Commit)
<1>1. /\ s \in MStates /\ GoodFile(s.data) /\ s.clients = ClientsOf(s.data)
      /\ s.clients \subseteq Clients
  BY UpFacts
<1>2. s.pool.faults = 0 /\ Serves(s.pool, s.clients) /\ s.clients \in SUBSET Clients
  BY SteadyFacts
<1>3. o = Outcome(s, "notFound") \/ o \in Then(blockLAN(s), Keep)
  BY DEF UpdateLANGroup
<1>4. GoodFile(d) /\ ClientsOf(d) = {inGroup(c, ids, group) : c \in s.clients}
  BY <1>1, GroupedFile
<1> HIDE DEF d, Keep
<1>5. d \in Files /\ ClientsOf(d) \subseteq Clients
  BY <1>4, GoodClients
<1>6. CASE o = Outcome(s, "notFound")
  BY <1>6 DEF Outcome
<1>7. CASE o \in Then(blockLAN(s), Keep)
  <2>1. PICK b \in blockLAN(s) : o \in IF b.err = "ok" THEN Keep(b.st) ELSE {b}
    BY <1>7 DEF Then
  <2>2. b.err = "ok" /\ Frame(s, b.st) /\ b.st.lan = {} /\ b.st.pool = s.pool
    BY <1>1, <1>2, <2>1, SureBlock
  <2>3. b.st \in MStates /\ b.st.pool.faults = 0 /\ b.st.clients = s.clients
    BY <1>2, <2>2 DEF Frame
  <2>4. PICK w \in Save(b.st, d) : o \in IF w.err = "ok" THEN Commit(w.st) ELSE {w}
    <3> HIDE DEF Commit
    <3> QED BY <2>1, <2>2 DEF Keep, Then
  <2>5. /\ w.err = "ok" /\ w.st \in MStates
        /\ w.st.disk = d /\ w.st.pool = b.st.pool /\ w.st.lan = b.st.lan
        /\ w.st.phase = b.st.phase /\ w.st.probes = b.st.probes /\ w.st.data = b.st.data
        /\ w.st.todo = b.st.todo /\ w.st.clients = b.st.clients /\ w.st.usedIPs = b.st.usedIPs
    BY <1>5, <2>3, <2>4, SureSave
  <2> DEFINE z == w.st
             cs == {c \in z.clients : c.id \notin ids} \cup {c \in ClientsOf(d) : c.id \in ids}
             t == [z EXCEPT !.data = d, !.clients = cs]
  <2>6. z \in MStates /\ z.clients = s.clients /\ z.pool = s.pool
    BY <2>2, <2>3, <2>5
  <2>7. o \in rebuildLAN(t)
    BY <2>4, <2>5
  <2>8. cs = ClientsOf(d)
    <3>1. \A c \in s.clients : /\ c.id \notin ids => inGroup(c, ids, group) = c
                               /\ inGroup(c, ids, group).id = c.id
      <4>1. \A c : c.id \notin ids => inGroup(c, ids, group) = c
        BY DEF inGroup
      <4> QED BY <1>1, <4>1, InGroup
    <3> QED BY <1>4, <2>6, <3>1
  <2> HIDE DEF z, cs
  <2>9. t \in MStates /\ t.data = d /\ t.clients = cs /\ t.pool = s.pool
    BY <1>5, <2>6, <2>8 DEF MStates
  <2> HIDE DEF t
  <2>10. t.pool.faults = 0 /\ GoodFile(t.data)
    BY <1>2, <1>4, <2>9
  <2>11. /\ o.err = "ok" /\ Frame(t, o.st) /\ o.st.pool = t.pool
         /\ o.st.lan = lanPairs(ClientsOf(t.data))
    BY <2>7, <2>9, <2>10, SureRebuild
  <2>12. Serves(s.pool, ClientsOf(d))
    BY <1>2, <1>4, ServesGrouped
  <2>13. o.st.clients = ClientsOf(d) /\ o.st.pool = s.pool /\ o.st.lan = lanPairs(ClientsOf(d))
    BY <2>8, <2>9, <2>11 DEF Frame
  <2> QED BY <2>12, <2>13 DEF Steady
<1> QED BY <1>3, <1>6, <1>7

\* DeleteClient.
LEMMA SteadyDelete ==
  ASSUME Reliable, NEW s, NEW dirt, Inv(s, dirt), s.phase = "up", Steady(s),
         NEW id, NEW o \in DeleteClient(s, id)
  PROVE  Steady(o.st)
<1> DEFINE c == ClientOf(s, id)
           p == effectiveProfile(c)
           k == c.key
           a == c.addr
           currentPort == s.pool.ifaces[p].port
           d == markAndSweepHeaderKeys(withoutClient(s.data, id))
           Undo(x) == persistenceFailure(OnPool(x.st, AddPeer(x.st.pool, p, currentPort, k, a)))
           Commit(v) == rebuildLAN([v EXCEPT !.usedIPs = @ \ {a}, !.clients = @ \ {c}, !.data = d])
           Keep(u) == Then(Catch(Save(u, d), Undo), Commit)
           Remove(t) == Then(OnPool(t, RemovePeer(t.pool, p, k, a)), Keep)
<1>1. s \in MStates /\ GoodFile(s.data) /\ s.clients = ClientsOf(s.data)
  BY UpFacts
<1>2. /\ s.pool.faults = 0 /\ Serves(s.pool, s.clients) /\ s.clients \in SUBSET Clients
      /\ \A x \in s.clients : effectiveProfile(x) \in Profiles /\ Alone(s.clients, x)
  BY SteadyFacts
<1>3. \/ \E err : o = Outcome(s, err)
      \/ id \in ClientIDs(s) /\ o \in Then(blockLAN(s), Remove)
  BY DEF DeleteClient
<1>4. CASE \E err : o = Outcome(s, err)
  BY <1>4 DEF Outcome
<1>5. CASE id \in ClientIDs(s) /\ o \in Then(blockLAN(s), Remove)
  <2>1. c \in s.clients /\ c.id = id /\ c \in Clients /\ p \in Profiles /\ Alone(s.clients, c)
    BY <1>2, <1>5, FoundClient
  <2>2. GoodFile(d) /\ ClientsOf(d) = s.clients \ {c} /\ d \in Files
    <3> DEFINE f == s.data
               g == markAndSweepHeaderKeys(withoutClient(f, c.id))
    <3>1. GoodFile(f) /\ c \in ClientsOf(f) /\ d = g
      BY <1>1, <2>1
    <3> HIDE DEF f, c, d
    <3>2. GoodFile(g) /\ ClientsOf(g) = ClientsOf(f) \ {c}
      BY <3>1, RemovedFile
    <3> HIDE DEF g
    <3> QED BY <1>1, <3>1, <3>2 DEF GoodFile, f
  <2>3. KnownAs(c, p, k, a) /\ k \in Keys /\ a \in Addrs
    BY <2>1 DEF KnownAs, Clients
  <2> HIDE DEF c, p, k, a, d, currentPort, Remove
  <2>4. PICK b \in blockLAN(s) : o \in IF b.err = "ok" THEN Remove(b.st) ELSE {b}
    BY <1>5 DEF Then
  <2>5. b.err = "ok" /\ Frame(s, b.st) /\ b.st.lan = {} /\ b.st.pool = s.pool
    BY <1>1, <1>2, <2>4, SureBlock
  <2>6. b.st \in MStates /\ b.st.clients = s.clients /\ o \in Remove(b.st)
    BY <2>4, <2>5 DEF Frame
  <2>7. PICK u \in OnPool(b.st, RemovePeer(s.pool, p, k, a)) :
          o \in IF u.err = "ok" THEN Keep(u.st) ELSE {u}
    <3> HIDE DEF Keep
    <3> QED BY <2>5, <2>6 DEF Then, Remove
  <2>8. PICK x \in RemovePeer(s.pool, p, k, a) : u = Outcome([b.st EXCEPT !.pool = x.st], x.err)
    BY <2>7 DEF OnPool
  <2>9. x.err = "ok" /\ Serves(x.st, s.clients \ {c})
    BY <1>2, <2>1, <2>3, <2>8, ServesRemoved
  <2>10. x.st \in States /\ x.st.faults = 0
    BY <2>9, ServesFacts
  <2>11. u.err = x.err /\ u.st.pool = x.st /\ Frame(b.st, u.st) /\ u.st.lan = b.st.lan
    BY <2>6, <2>8, <2>10, OnlyPool
  <2>12. u.st \in MStates /\ u.st.clients = s.clients /\ u.st.lan = {} /\ u.st.pool.faults = 0
    BY <2>5, <2>6, <2>10, <2>11 DEF Frame
  <2>13. PICK w \in Save(u.st, d) :
           \E v \in IF w.err = "ok" THEN {w} ELSE Undo(w) :
             o \in IF v.err = "ok" THEN Commit(v.st) ELSE {v}
    <3> HIDE DEF Undo, Commit
    <3> QED BY <2>7, <2>9, <2>11 DEF Then, Catch
  <2>14. /\ w.err = "ok" /\ w.st \in MStates
         /\ w.st.disk = d /\ w.st.pool = u.st.pool /\ w.st.lan = u.st.lan
         /\ w.st.phase = u.st.phase /\ w.st.probes = u.st.probes /\ w.st.data = u.st.data
         /\ w.st.todo = u.st.todo /\ w.st.clients = u.st.clients /\ w.st.usedIPs = u.st.usedIPs
    BY <2>2, <2>12, <2>13, SureSave
  <2> DEFINE z == w.st
             ips == z.usedIPs \ {a}
             cs == z.clients \ {c}
             t == [z EXCEPT !.usedIPs = ips, !.clients = cs, !.data = d]
  <2>15. o \in rebuildLAN(t)
    BY <2>13, <2>14
  <2>16. cs = s.clients \ {c} /\ z \in MStates /\ z.pool = x.st
    BY <2>11, <2>12, <2>14
  <2>17. cs \subseteq Clients /\ ips \subseteq Addrs
    BY <2>14 DEF MStates
  <2> HIDE DEF z, cs, ips
  <2>18. t \in MStates /\ t.data = d /\ t.clients = cs /\ t.pool = x.st
    BY <2>2, <2>16, <2>17 DEF MStates
  <2> HIDE DEF t
  <2>19. t.pool.faults = 0 /\ GoodFile(t.data)
    BY <2>2, <2>10, <2>18
  <2>20. /\ o.err = "ok" /\ Frame(t, o.st) /\ o.st.pool = t.pool
         /\ o.st.lan = lanPairs(ClientsOf(t.data))
    BY <2>15, <2>18, <2>19, SureRebuild
  <2>21. o.st.clients = s.clients \ {c} /\ o.st.pool = x.st /\ o.st.lan = lanPairs(s.clients \ {c})
    BY <2>2, <2>16, <2>18, <2>20 DEF Frame
  <2> QED BY <2>9, <2>21 DEF Steady
<1> QED BY <1>3, <1>4, <1>5

-----------------------------------------------------------------------------
(***************************************************************************)
(* The start and the end of a process.                                     *)
(***************************************************************************)
\* The host has no interface and no route, and no process knows of one.
Vacant(s) ==
  /\ s \in States /\ s.faults = 0 /\ s.ifaces = EmptyPool.ifaces /\ s.orphans = {}
  /\ s.usedPorts = {} /\ s.links = {} /\ s.listen = {} /\ s.kpeers = {} /\ ~s.masqAdded
  /\ \A a \in Addrs : s.routes[a] = NoName

\* A pool that has nothing serves nobody.
LEMMA VacantServes ==
  ASSUME NEW s, Vacant(s)
  PROVE  Serves(s, {})
<1>1. Tracked(s) = {} /\ \A p \in Profiles : s.ifaces[p].peers = {}
  BY DEF Vacant, EmptyPool, Tracked, NoIface
<1>2. Sound(s)
  BY EmptySound DEF Vacant
<1>3. Cardinality({}) = 0
  BY FS_EmptySet
<1>4. MaxInterfaces > 0 => Cardinality(Tracked(s)) <= MaxInterfaces
  BY <1>1, <1>3, LimitAssumption
<1>5. Tidy(s)
  BY <1>1, <1>2, <1>4 DEF Tidy, Vacant
<1>6. Matches(s, {})
  BY <1>1 DEF Matches, KeysOn
<1> QED BY <1>1, <1>5, <1>6 DEF Serves, Carries, Vacant

\* What is left on the host when nothing was on it.
LEMMA VacantResidue ==
  ASSUME NEW pool \in States, pool.links = {}, pool.listen = {}, pool.kpeers = {},
         pool.faults = 0, \A a \in Addrs : pool.routes[a] = NoName
  PROVE  Vacant(Residue(pool))
<1> DEFINE e == EmptyPool
           e1 == [e EXCEPT !.links = pool.links, !.listen = pool.listen, !.kpeers = pool.kpeers]
           e2 == [e1 EXCEPT !.routes = pool.routes, !.masq = pool.masq, !.faults = pool.faults]
<1>1. /\ e \in States /\ e.orphans = {} /\ ~e.masqAdded /\ e.ifaces = EmptyPool.ifaces
      /\ e.usedPorts = {}
  BY EmptySound DEF Sound, EmptyPool
<1>2. Residue(pool) = e2
  BY Zenon DEF Residue
<1> HIDE DEF e
<1>3. /\ e1 \in States /\ e1.ifaces = e.ifaces /\ e1.orphans = e.orphans
      /\ e1.usedPorts = e.usedPorts /\ e1.masqAdded = e.masqAdded
      /\ e1.links = {} /\ e1.listen = {} /\ e1.kpeers = {}
  BY <1>1 DEF States
<1> HIDE DEF e1
<1>4. /\ e2 \in States /\ e2.ifaces = e1.ifaces /\ e2.orphans = e1.orphans
      /\ e2.usedPorts = e1.usedPorts /\ e2.masqAdded = e1.masqAdded
      /\ e2.links = e1.links /\ e2.listen = e1.listen /\ e2.kpeers = e1.kpeers
      /\ e2.routes = pool.routes /\ e2.faults = 0
  BY <1>3 DEF States
<1> HIDE DEF e2
<1> QED BY <1>1, <1>2, <1>3, <1>4 DEF Vacant

\* Close takes everything off the host.
LEMMA CloseClears ==
  ASSUME Reliable, NEW cs \in SUBSET Clients, NEW s, Serves(s, cs), NEW o \in Close(s)
  PROVE  /\ o.st \in States /\ o.st.links = {} /\ o.st.listen = {} /\ o.st.kpeers = {}
         /\ o.st.faults = 0 /\ \A a \in Addrs : o.st.routes[a] = NoName
<1>1. s \in States /\ Tidy(s) /\ Sound(s) /\ s.faults = 0 /\ s.orphans = {}
  BY DEF Serves, Carries, Tidy, Sound
<1>2. PICK stuck \in (SUBSET Tracked(s)) \X (SUBSET s.orphans) :
        /\ s.faults + Cardinality(stuck[1]) + Cardinality(stuck[2]) <= MaxFaults
        /\ o \in closeMasquerade(closeInterfaces(s, stuck[1], stuck[2]))
  BY DEF Close
<1>3. stuck[1] = {} /\ stuck[2] = {}
  <2>1. stuck[1] \subseteq Tracked(s) /\ stuck[2] \subseteq s.orphans
    BY <1>2
  <2>2. IsFiniteSet(stuck[1]) /\ IsFiniteSet(stuck[2])
    BY <1>1, <2>1, FS_Subset DEF Sound
  <2>3. Cardinality(stuck[1]) \in Nat /\ Cardinality(stuck[2]) \in Nat
    BY <2>2, FS_CardinalityType
  <2>4. Cardinality(stuck[1]) = 0 /\ Cardinality(stuck[2]) = 0
    BY <1>1, <1>2, <2>3 DEF Reliable
  <2> QED BY <2>2, <2>4, FS_EmptySet
<1> DEFINE names == {s.ifaces[p].name : p \in Tracked(s) \ {}} \cup {x.name : x \in s.orphans \ {}}
           ports == {s.ifaces[p].port : p \in Tracked(s) \ {}} \cup {x.port : x \in s.orphans \ {}}
           fs == [p \in Profiles |-> IF p \in Tracked(s) \ {} THEN NoIface ELSE s.ifaces[p]]
           t == Unlinked(s, names)
           d == [t EXCEPT !.ifaces = fs, !.orphans = {}]
           e == [d EXCEPT !.usedPorts = @ \ ports]
           c == [e EXCEPT !.faults = @ + Cardinality({}) + Cardinality({})]
<1>4. o \in closeMasquerade(c)
  BY <1>2, <1>3 DEF closeInterfaces
<1>5. /\ \A n \in s.links : n \in names
      /\ \A l \in s.listen : l[1] \in names
      /\ \A x \in s.kpeers : x[1] \in names
  BY <1>1 DEF Tidy
<1>6. \A a \in Addrs : s.routes[a] = NoName \/ s.routes[a] \in names
  <2> TAKE a \in Addrs
  <2>1. CASE \A x \in cs : x.addr # a
    BY <2>1 DEF Serves, Carries
  <2>2. CASE \E x \in cs : x.addr = a
    <3>1. PICK x \in cs : x.addr = a
      BY <2>2
    <3>2. effectiveProfile(x) \in Tracked(s) /\ s.routes[a] = s.ifaces[effectiveProfile(x)].name
      BY <3>1 DEF Serves, Carries
    <3> QED BY <3>2
  <2> QED BY <2>1, <2>2
<1>7. fs \in [Profiles -> Iface]
  BY <1>1, GoodIfaceFacts DEF States
<1> HIDE DEF names, ports, fs
<1>8. /\ t \in States /\ t.links = {} /\ t.listen = {} /\ t.kpeers = {}
      /\ t.faults = 0 /\ \A a \in Addrs : t.routes[a] = NoName
  <2>1. t \in States
    BY <1>1, UnlinkedFields
  <2>2. /\ t.links = s.links \ names
        /\ t.listen = {l \in s.listen : l[1] \notin names}
        /\ t.kpeers = {x \in s.kpeers : x[1] \notin names}
        /\ t.routes = [a \in Addrs |-> IF s.routes[a] \in names THEN NoName ELSE s.routes[a]]
        /\ t.faults = s.faults
    BY <1>1 DEF Unlinked, States
  <2> HIDE DEF t
  <2> QED BY <1>1, <1>5, <1>6, <2>1, <2>2
<1> HIDE DEF t
<1>9. /\ d \in States /\ d.links = {} /\ d.listen = {} /\ d.kpeers = {}
      /\ d.faults = 0 /\ d.routes = t.routes
  BY <1>7, <1>8 DEF States
<1> HIDE DEF d
<1>10. /\ e \in States /\ e.links = {} /\ e.listen = {} /\ e.kpeers = {}
       /\ e.faults = 0 /\ e.routes = t.routes
  BY <1>9 DEF States
<1> HIDE DEF e
<1>11. /\ c \in States /\ c.links = {} /\ c.listen = {} /\ c.kpeers = {}
       /\ c.faults = 0 /\ c.routes = t.routes
  <2>1. Cardinality({}) = 0
    BY FS_EmptySet
  <2>2. c = [e EXCEPT !.faults = @ + 0 + 0]
    BY <2>1
  <2> HIDE DEF c
  <2> QED BY <1>10, <2>2 DEF States
<1> HIDE DEF c
<1> DEFINE g == [c EXCEPT !.masq = @ - 1, !.masqAdded = FALSE]
<1>12. CASE o = Done(c)
  <2>1. o.st = c
    BY <1>12 DEF Done, Outcome
  <2> QED BY <1>8, <1>11, <2>1
<1>13. CASE o \in Catch(Command(c, c.masq > 0, g), LAMBDA x : {Done(x.st)})
  <2>1. PICK x \in Command(c, c.masq > 0, g) : o \in IF x.err = "ok" THEN {x} ELSE {Done(x.st)}
    BY <1>13 DEF Catch
  <2>2. o.st = x.st
    BY <2>1 DEF Done, Outcome
  <2>3. CASE c.masq > 0
    <3>1. x \in Allowed(c, g)
      BY <2>1, <2>3, Zenon DEF Command, Allowed
    <3>2. /\ g \in States /\ g.links = {} /\ g.listen = {} /\ g.kpeers = {}
          /\ g.faults = 0 /\ g.routes = t.routes
      <4> DEFINE n == c.masq - 1
                 h == [c EXCEPT !.masq = n]
      <4>1. n \in Nat
        BY <1>11, <2>3 DEF States
      <4>2. g = [h EXCEPT !.masqAdded = FALSE]
        OBVIOUS
      <4> HIDE DEF n, g
      <4>3. /\ h \in States /\ h.links = {} /\ h.listen = {} /\ h.kpeers = {}
            /\ h.faults = 0 /\ h.routes = t.routes
        BY <1>11, <4>1 DEF States
      <4> HIDE DEF h
      <4> QED BY <4>2, <4>3 DEF States
    <3> HIDE DEF g
    <3>3. x.st = g
      BY <1>11, <3>1, SureCommand
    <3> QED BY <1>8, <2>2, <3>2, <3>3
  <2>4. CASE ~(c.masq > 0)
    <3>1. x = Outcome(c, "failed")
      BY <2>1, <2>4, Zenon DEF Command
    <3>2. x.st = c
      BY <3>1 DEF Outcome
    <3> QED BY <1>8, <1>11, <2>2, <3>2
  <2> QED BY <2>3, <2>4
<1> QED BY <1>4, <1>12, <1>13 DEF closeMasquerade

\* A process that closes its pool and exits leaves nothing.
LEMMA SureExit ==
  ASSUME Reliable, NEW cs \in SUBSET Clients, NEW s \in MStates, Serves(s.pool, cs), NEW err,
         NEW o \in closeAndExit(s, err)
  PROVE  o.st.phase = "down" /\ Vacant(o.st.pool)
<1>1. PICK x \in Close(s.pool) : o = Outcome(Exited([s EXCEPT !.pool = x.st]), err)
  BY DEF closeAndExit
<1>2. /\ x.st \in States /\ x.st.links = {} /\ x.st.listen = {} /\ x.st.kpeers = {}
      /\ x.st.faults = 0 /\ \A a \in Addrs : x.st.routes[a] = NoName
  BY <1>1, CloseClears
<1>3. Vacant(Residue(x.st))
  BY <1>2, VacantResidue
<1> DEFINE u == [s EXCEPT !.pool = x.st]
<1>4. u.pool = x.st
  BY DEF MStates
<1> HIDE DEF u
<1>5. o.st = Exited(u)
  BY <1>1 DEF Outcome, u
<1> QED BY <1>3, <1>4, <1>5 DEF Exited, NewProcess

-----------------------------------------------------------------------------
(***************************************************************************)
(* The plan: the ports that PrepareRestorePlan works out are the ones the  *)
(* pool gives out when it restores one record after the other.             *)
(***************************************************************************)
\* Every nonempty set of naturals has a least element.
LEMMA Least ==
  ASSUME NEW T, T \subseteq Nat, T # {}
  PROVE  \E n \in T : \A k \in T : n <= k
<1> DEFINE R == OpToRel(<, Nat)
<1>1. IsWellFoundedOn(R, Nat)
  BY NatLessThanWellFounded, Zenon
<1>2. \A x, y \in Nat : x < y => <<x, y>> \in R
  BY DEF OpToRel
<1> HIDE DEF R
<1>3. PICK n \in T : \A k \in T : ~(<<k, n>> \in R)
  BY <1>1, WFMin
<1>4. \A k \in T : ~(k < n)
  BY <1>2, <1>3
<1> QED BY <1>4

NoPorts == [q \in Profiles |-> 0]

\* The ports after record c: one step of the loop of restorePorts.
PlanNext(c, f) ==
  LET p == effectiveProfile(c)
      taken == {q \in Profiles : f[q] # 0}
  IN IF f[p] # 0 THEN {g \in {f} : c.port \in {0, f[p]}}
     ELSE IF MaxInterfaces > 0 /\ Cardinality(taken) >= MaxInterfaces THEN {}
     ELSE {[f EXCEPT ![p] = port] : port \in resolveRestorePort(c.port, {f[q] : q \in taken})}

\* The ports after some more records, from any of F.
PlanAll(c, F) == UNION {PlanNext(c, f) : f \in F}

\* g[i] is what the loop has after the first i records, for i up to n.
Loop(cs, g, n) == g = [i \in 0..n |-> IF i = 0 THEN {NoPorts} ELSE PlanAll(cs[i], g[i - 1])]

\* The recursion of restorePorts defines a function.
LEMMA LoopExists ==
  ASSUME NEW cs, NEW n \in Nat
  PROVE  \E g : Loop(cs, g, n)
<1> DEFINE T == {i \in Nat : ~\E g : Loop(cs, g, i)}
<1>1. SUFFICES ASSUME T # {} PROVE FALSE
  OBVIOUS
<1>2. T \subseteq Nat
  OBVIOUS
<1> HIDE DEF T
<1>3. PICK l \in T : \A k \in T : l <= k
  BY <1>1, <1>2, Least
<1>4. l \in Nat /\ ~\E g : Loop(cs, g, l)
  BY <1>3 DEF T
<1>5. CASE l = 0
  <2> DEFINE g == [i \in 0..0 |-> {NoPorts}]
  <2>1. g = [i \in 0..0 |-> IF i = 0 THEN {NoPorts} ELSE PlanAll(cs[i], g[i - 1])]
    OBVIOUS
  <2> QED BY <1>4, <1>5, <2>1 DEF Loop
<1>6. CASE l # 0
  <2>1. l - 1 \in Nat /\ l - 1 \notin T
    BY <1>3, <1>4, <1>6
  <2>2. PICK e : Loop(cs, e, l - 1)
    BY <2>1 DEF T
  <2> DEFINE end == PlanAll(cs[l], e[l - 1])
             g == [i \in 0..l |-> IF i = l THEN end ELSE e[i]]
  <2>3. \A i \in 0..(l - 1) : e[i] = IF i = 0 THEN {NoPorts} ELSE PlanAll(cs[i], e[i - 1])
    BY <2>2 DEF Loop
  <2>4. \A i \in 0..l : g[i] = IF i = 0 THEN {NoPorts} ELSE PlanAll(cs[i], g[i - 1])
    <3> TAKE i \in 0..l
    <3>1. CASE i = l
      <4>1. g[i] = end /\ g[i - 1] = e[l - 1]
        BY <1>4, <1>6, <3>1
      <4> QED BY <1>6, <3>1, <4>1
    <3>2. CASE i # l
      <4>1. g[i] = e[i] /\ i \in 0..(l - 1)
        BY <1>4, <3>2
      <4>2. i # 0 => g[i - 1] = e[i - 1]
        BY <1>4, <3>2
      <4> QED BY <2>3, <4>1, <4>2
    <3> QED BY <3>1, <3>2
  <2>5. g = [i \in 0..l |-> IF i = 0 THEN {NoPorts} ELSE PlanAll(cs[i], g[i - 1])]
    BY <2>4
  <2> QED BY <1>4, <2>5 DEF Loop
<1> QED BY <1>5, <1>6

\* One record has one outcome at most.
LEMMA PlanOnce ==
  ASSUME NEW c, NEW f, NEW x \in PlanNext(c, f), NEW y \in PlanNext(c, f)
  PROVE  x = y
<1> DEFINE p == effectiveProfile(c)
           taken == {q \in Profiles : f[q] # 0}
           used == {f[q] : q \in taken}
<1>1. CASE f[p] # 0
  BY <1>1 DEF PlanNext
<1>2. CASE f[p] = 0
  <2>1. PICK m1 \in resolveRestorePort(c.port, used) : x = [f EXCEPT ![p] = m1]
    BY <1>2 DEF PlanNext
  <2>2. PICK m2 \in resolveRestorePort(c.port, used) : y = [f EXCEPT ![p] = m2]
    BY <1>2 DEF PlanNext
  <2> HIDE DEF used
  <2>3. m1 = m2
    <3>1. CASE c.port # 0
      BY <3>1, <2>1, <2>2 DEF resolveRestorePort
    <3>2. CASE c.port = 0
      <4>1. /\ m1 \in ListenPort..MaxPort /\ m2 \in ListenPort..MaxPort
            /\ m1 <= m2 /\ m2 <= m1
        BY <3>2, <2>1, <2>2 DEF resolveRestorePort
      <4> QED BY <4>1, PortAssumption
    <3> QED BY <3>1, <3>2
  <2> QED BY <2>1, <2>2, <2>3
<1> QED BY <1>1, <1>2

\* The ports after each of the records of a plan.
Path(cs, h) ==
  /\ h[0] = NoPorts
  /\ \A i \in 1..Len(cs) : PlanNext(cs[i], h[i - 1]) = {h[i]}

\* A plan that validateRestoreInterfaces accepts has one way through.
LEMMA PlanPath ==
  ASSUME NEW cs, Len(cs) \in Nat, validateRestoreInterfaces(cs)
  PROVE  \E h : Path(cs, h)
<1> DEFINE L == Len(cs)
           g == CHOOSE e : Loop(cs, e, L)
<1>1. restorePorts(cs) = g[L]
  BY DEF restorePorts, Loop, PlanAll, PlanNext, NoPorts
<1>2. L \in Nat /\ g[L] # {}
  BY <1>1 DEF validateRestoreInterfaces
<1>3. Loop(cs, g, L)
  BY <1>2, LoopExists
<1> HIDE DEF L, g
<1>4. g[0] = {NoPorts} /\ \A i \in 1..L : g[i] = PlanAll(cs[i], g[i - 1])
  <2>1. \A i \in 0..L : g[i] = IF i = 0 THEN {NoPorts} ELSE PlanAll(cs[i], g[i - 1])
    BY <1>3, Zenon DEF Loop
  <2>2. 0 \in 0..L /\ \A i \in 1..L : i \in 0..L /\ i # 0
    BY <1>2
  <2> QED BY <2>1, <2>2
<1>5. \A i \in 0..L : g[i] # {}
  <2> DEFINE T == {j \in Nat : j <= L /\ g[L - j] = {}}
  <2>1. SUFFICES ASSUME T # {} PROVE FALSE
    <3> TAKE i \in 0..L
    <3>1. L - i \in Nat /\ L - i <= L /\ L - (L - i) = i
      BY <1>2
    <3> QED BY <3>1
  <2>2. T \subseteq Nat
    OBVIOUS
  <2> HIDE DEF T
  <2>3. PICK l \in T : \A k \in T : l <= k
    BY <2>1, <2>2, Least
  <2>4. l \in Nat /\ l <= L /\ g[L - l] = {}
    BY <2>3 DEF T
  <2>5. l # 0
    BY <1>2, <2>4
  <2>6. l - 1 \in Nat /\ l - 1 <= L /\ l - 1 \notin T /\ L - (l - 1) \in 1..L
        /\ (L - (l - 1)) - 1 = L - l
    BY <1>2, <2>3, <2>4, <2>5
  <2>7. g[L - (l - 1)] # {}
    BY <2>6 DEF T
  <2>8. g[L - (l - 1)] = PlanAll(cs[L - (l - 1)], g[L - l])
    BY <1>4, <2>6
  <2> QED BY <2>4, <2>7, <2>8 DEF PlanAll
<1>6. \A i \in 0..L : \A x, y \in g[i] : x = y
  <2> DEFINE T == {j \in Nat : j <= L /\ ~ \A x, y \in g[j] : x = y}
  <2>1. SUFFICES ASSUME T # {} PROVE FALSE
    BY <1>2
  <2>2. T \subseteq Nat
    OBVIOUS
  <2> HIDE DEF T
  <2>3. PICK l \in T : \A k \in T : l <= k
    BY <2>1, <2>2, Least
  <2>4. l \in Nat /\ l <= L /\ ~ \A x, y \in g[l] : x = y
    BY <2>3 DEF T
  <2>5. l # 0
    BY <1>4, <2>4
  <2>6. l - 1 \in Nat /\ l - 1 <= L /\ l - 1 \notin T /\ l \in 1..L
    BY <1>2, <2>3, <2>4, <2>5
  <2>7. \A x, y \in g[l - 1] : x = y
    BY <2>6 DEF T
  <2>8. PICK x \in g[l], y \in g[l] : x # y
    BY <2>4
  <2>9. PICK f1 \in g[l - 1] : x \in PlanNext(cs[l], f1)
    BY <1>4, <2>6, <2>8 DEF PlanAll
  <2>10. PICK f2 \in g[l - 1] : y \in PlanNext(cs[l], f2)
    BY <1>4, <2>6, <2>8 DEF PlanAll
  <2>11. f1 = f2
    BY <2>7, <2>9, <2>10
  <2> QED BY <2>8, <2>9, <2>10, <2>11, PlanOnce
<1> DEFINE h == [i \in 0..L |-> CHOOSE f : f \in g[i]]
<1>7. \A i \in 0..L : g[i] = {h[i]}
  <2> TAKE i \in 0..L
  <2>1. h[i] \in g[i]
    BY <1>5
  <2> QED BY <1>6, <2>1
<1> HIDE DEF h
<1>8. h[0] = NoPorts
  <2>1. g[0] = {h[0]}
    BY <1>2, <1>7
  <2> QED BY <1>4, <2>1
<1>9. ASSUME NEW i \in 1..L PROVE PlanNext(cs[i], h[i - 1]) = {h[i]}
  <2>1. i \in 0..L /\ i - 1 \in 0..L
    BY <1>2
  <2>2. g[i] = {h[i]} /\ g[i - 1] = {h[i - 1]}
    BY <1>7, <2>1
  <2>3. PlanAll(cs[i], {h[i - 1]}) = PlanNext(cs[i], h[i - 1])
    BY DEF PlanAll
  <2> QED BY <1>4, <2>2, <2>3
<1> QED BY <1>8, <1>9 DEF Path, L

\* The pool has given out the ports f.
Follows(s, f) ==
  /\ f \in [Profiles -> Nat]
  /\ \A q \in Profiles : f[q] = IF q \in Tracked(s) THEN s.ifaces[q].port ELSE 0

\* The pool chooses as the plan does.
LEMMA SameChoice ==
  ASSUME NEW s, NEW req
  PROVE  resolveRestorePort(req, s.usedPorts) = resolvePort(s, req)
<1>1. CASE req # 0
  BY <1>1 DEF resolveRestorePort, resolvePort
<1>2. CASE req = 0
  <2> DEFINE free == (ListenPort..MaxPort) \ s.usedPorts
             X == {q \in free : \A r \in free : q <= r}
             Y == {q \in ListenPort..MaxPort :
                     /\ q \notin s.usedPorts
                     /\ \A r \in ListenPort..(q - 1) : r \in s.usedPorts}
  <2>1. ASSUME NEW q \in X PROVE q \in Y
    <3>1. ASSUME NEW r \in ListenPort..(q - 1), r \notin s.usedPorts PROVE FALSE
      <4>1. r \in free /\ r < q
        BY <3>1, PortAssumption
      <4> QED BY <2>1, <4>1
    <3> QED BY <2>1, <3>1
  <2>2. ASSUME NEW q \in Y PROVE q \in X
    <3>1. ASSUME NEW r \in free, ~(q <= r) PROVE FALSE
      <4>1. r \in ListenPort..(q - 1)
        BY <2>2, <3>1, PortAssumption
      <4> QED BY <2>2, <3>1, <4>1
    <3> QED BY <2>2, <3>1
  <2>3. X = Y
    BY <2>1, <2>2
  <2> QED BY <1>2, <2>3 DEF resolveRestorePort, resolvePort
<1> QED BY <1>1, <1>2

\* What the plan has room for the pool does not refuse.
LEMMA PlanFits ==
  ASSUME NEW s, Tidy(s), NEW f, Follows(s, f), NEW c, NEW p \in Profiles, NEW req,
         p = effectiveProfile(c), req = c.port, NEW h, PlanNext(c, f) = {h}
  PROVE  Fits(s, p, req)
<1> DEFINE taken == {q \in Profiles : f[q] # 0}
           used == {f[q] : q \in taken}
<1>1. \A q \in Tracked(s) : s.ifaces[q].port # 0 /\ q \in Profiles
  BY TidyFacts
<1>2. taken = Tracked(s)
  BY <1>1 DEF Follows
<1>3. used = s.usedPorts
  <2>1. \A n : n \in s.usedPorts <=> \E q \in Tracked(s) : n = s.ifaces[q].port
    BY DEF Tidy
  <2>2. \A q \in Tracked(s) : f[q] = s.ifaces[q].port
    BY <1>1 DEF Follows
  <2> QED BY <1>2, <2>1, <2>2
<1>4. CASE p \in Tracked(s)
  <2>1. f[p] = s.ifaces[p].port /\ f[p] # 0
    BY <1>1, <1>4 DEF Follows
  <2>2. h \in {g \in {f} : c.port \in {0, f[p]}}
    BY <2>1 DEF PlanNext
  <2> QED BY <1>4, <2>1, <2>2 DEF Fits
<1>5. CASE p \notin Tracked(s)
  <2>1. f[p] = 0
    BY <1>5 DEF Follows
  <2>2. h \in IF MaxInterfaces > 0 /\ Cardinality(taken) >= MaxInterfaces THEN {}
              ELSE {[f EXCEPT ![p] = port] : port \in resolveRestorePort(c.port, used)}
    BY <2>1 DEF PlanNext
  <2> HIDE DEF taken, used
  <2>3. ~(MaxInterfaces > 0 /\ Cardinality(Tracked(s)) >= MaxInterfaces)
    BY <1>2, <2>2
  <2>4. Cardinality(Tracked(s)) \in Nat /\ s.orphans = {} /\ Cardinality({}) = 0
    BY FS_EmptySet, FS_CardinalityType DEF Tidy, Sound
  <2>5. ~LimitReached(s)
    BY <2>3, <2>4, LimitAssumption DEF LimitReached
  <2>6. resolvePort(s, req) # {}
    BY <1>3, <2>2, SameChoice
  <2> QED BY <1>5, <2>5, <2>6 DEF Fits
<1> QED BY <1>4, <1>5

\* The pool goes on along the plan.
LEMMA PlanFollowed ==
  ASSUME NEW s, Tidy(s), NEW f, Follows(s, f), NEW c, NEW p \in Profiles, NEW req,
         p = effectiveProfile(c), req = c.port, NEW h, PlanNext(c, f) = {h},
         NEW t, Tidy(t), Tracked(t) = Tracked(s) \cup {p}, KeepsPorts(s, t),
         p \notin Tracked(s) => t.ifaces[p].port \in resolvePort(s, req)
  PROVE  Follows(t, h)
<1> DEFINE taken == {q \in Profiles : f[q] # 0}
           used == {f[q] : q \in taken}
<1>1. \A q \in Tracked(s) : s.ifaces[q].port # 0 /\ q \in Profiles
  BY TidyFacts
<1>2. taken = Tracked(s)
  BY <1>1 DEF Follows
<1>3. used = s.usedPorts
  <2>1. \A n : n \in s.usedPorts <=> \E q \in Tracked(s) : n = s.ifaces[q].port
    BY DEF Tidy
  <2>2. \A q \in Tracked(s) : f[q] = s.ifaces[q].port
    BY <1>1 DEF Follows
  <2> QED BY <1>2, <2>1, <2>2
<1>4. CASE p \in Tracked(s)
  <2>1. f[p] # 0
    BY <1>1, <1>4 DEF Follows
  <2>2. h \in {g \in {f} : c.port \in {0, f[p]}}
    BY <2>1 DEF PlanNext
  <2>3. h = f /\ Tracked(t) = Tracked(s)
    BY <1>4, <2>2
  <2> QED BY <2>3 DEF Follows, KeepsPorts
<1>5. CASE p \notin Tracked(s)
  <2> DEFINE n == t.ifaces[p].port
  <2>1. f[p] = 0
    BY <1>5 DEF Follows
  <2>2. h \in IF MaxInterfaces > 0 /\ Cardinality(taken) >= MaxInterfaces THEN {}
              ELSE {[f EXCEPT ![p] = port] : port \in resolveRestorePort(c.port, used)}
    BY <2>1 DEF PlanNext
  <2>3. n \in resolveRestorePort(c.port, used)
    BY <1>3, <1>5, SameChoice
  <2>4. [f EXCEPT ![p] = n] \in PlanNext(c, f)
    BY <2>1, <2>2, <2>3 DEF PlanNext
  <2>5. h = [f EXCEPT ![p] = n]
    BY <2>4
  <2>6. n \in Nat
    <3>1. p \in Tracked(t)
      OBVIOUS
    <3> QED BY <3>1, TidyFacts
  <2> HIDE DEF n
  <2>7. h \in [Profiles -> Nat] /\ h[p] = n /\ \A q \in Profiles : q # p => h[q] = f[q]
    BY <2>5, <2>6 DEF Follows
  <2>8. ASSUME NEW q \in Profiles
        PROVE  h[q] = IF q \in Tracked(t) THEN t.ifaces[q].port ELSE 0
    BY <2>7 DEF Follows, KeepsPorts, n
  <2> QED BY <2>7, <2>8 DEF Follows
<1> QED BY <1>4, <1>5

\* The restore is in the middle of a plan, and the pool has followed it.
At(cs, todo, i, s, f) ==
  /\ i \in 0..Len(cs) /\ Len(todo) = Len(cs) - i
  /\ \A j \in 1..Len(todo) : todo[j] = cs[i + j]
  /\ Follows(s, f)

OnPlan(s) ==
  \E h : /\ Path(s.data.clients, h)
         /\ \E i \in 0..Len(s.data.clients) : At(s.data.clients, s.todo, i, s.pool, h[i])

\* What holds between the calls when no command fails and no process dies.
Quiet(s) ==
  /\ s.phase = "up" => Steady(s)
  /\ s.phase = "restoring" =>
       Serves(s.pool, ClientsOf(s.data) \ ItemsOf(s.todo)) /\ OnPlan(s)
  /\ s.phase = "down" => Vacant(s.pool)

\* The runtime check succeeds.
LEMMA SureCheck ==
  ASSUME Reliable, NEW s \in MStates, s.pool.faults = 0, NEW o \in checkRuntime(s)
  PROVE  o.err = "ok" /\ o.st \in MStates /\ o.st.pool = s.pool
<1> DEFINE n == s.probes
           c == [s EXCEPT !.probes = @ + 1]
           f == [s EXCEPT !.pool = Faulted(@)]
<1>1. n \in Nat
  BY DEF MStates
<1>2. PICK a \in Attempt(s, s, "runtime") : o \in IF a.err = "ok" THEN probeRuntime(a.st) ELSE {a}
  BY DEF checkRuntime, Then
<1>3. a.st = s /\ a.err = "ok"
  BY <1>2, SureAttempt
<1>4. o \in probeRuntime(s)
  BY <1>2, <1>3
<1>5. ~(s.pool.faults < MaxFaults)
  BY DEF Reliable
<1>6. o \in Then(Attempt(s, c, "runtime"), probeCreatedRuntimeInterface)
  BY <1>4, <1>5, Zenon DEF probeRuntime
<1>7. c.probes = n + 1 /\ c.pool = s.pool /\ c \in MStates
  <2>1. c = [s EXCEPT !.probes = n + 1] /\ n + 1 \in Nat
    BY <1>1
  <2> QED BY <2>1, Counted DEF Probing
<1> HIDE DEF c
<1>8. PICK x \in Attempt(s, c, "runtime") :
        o \in IF x.err = "ok" THEN probeCreatedRuntimeInterface(x.st) ELSE {x}
  BY <1>6 DEF Then
<1>9. x.st = c /\ x.err = "ok"
  BY <1>8, SureAttempt
<1>10. PICK y \in Attempt(c, c, "runtime") :
         o \in deleteRuntimeProbeInterface(y.st, TRUE, y.err)
  BY <1>8, <1>9 DEF probeCreatedRuntimeInterface
<1>11. y.st = c /\ y.err = "ok"
  BY <1>7, <1>10, SureAttempt
<1> DEFINE e == [c EXCEPT !.probes = @ - 1]
<1>12. PICK z \in Attempt(c, e, "delete") :
         o = IF z.err = "ok" THEN Outcome(z.st, "ok") ELSE Outcome(z.st, joined("ok"))
  BY <1>10, <1>11 DEF deleteRuntimeProbeInterface, deleteProbe
<1>13. e \in MStates /\ e.pool = s.pool
  <2>1. e = [c EXCEPT !.probes = n]
    <3>1. c.probes - 1 = n
      BY <1>1, <1>7
    <3> QED BY <3>1
  <2> QED BY <1>1, <1>7, <2>1, Counted DEF Probing
<1> HIDE DEF e
<1>14. z.st = e /\ z.err = "ok"
  BY <1>7, <1>12, SureAttempt
<1> QED BY <1>12, <1>13, <1>14 DEF Outcome

\* A new process has a plan to follow, or its file is refused.
LEMMA SureStart ==
  ASSUME Reliable, NEW s, NEW dirt, Inv(s, dirt), s.phase = "down", Vacant(s.pool),
         NEW o \in start(s)
  PROVE  Quiet(o.st)
<1>1. s \in MStates /\ s.disk \in Files /\ s.pool.faults = 0 /\ KeysExact(s.disk)
  BY DEF Inv, MStates, Vacant
<1>2. CASE ~ValidPlan(s.disk)
  <2>1. o = Outcome(s, "plan")
    BY <1>2 DEF start
  <2>2. o.st = s
    BY <2>1 DEF Outcome
  <2> QED BY <2>2 DEF Quiet
<1>3. CASE ValidPlan(s.disk)
  <2> DEFINE d == restoreData(s.disk)
             q == d.clients
  <2>1. PICK t \in checkRuntime(s) :
          o \in IF t.err = "ok"
                  THEN {IF x.err = "ok" THEN Done([x.st EXCEPT !.phase = "restoring",
                                                               !.data = d, !.todo = q])
                        ELSE x : x \in blockLAN(t.st)}
                  ELSE {t}
    BY <1>3 DEF start, Then
  <2>2. t.err = "ok" /\ t.st \in MStates /\ t.st.pool = s.pool
    BY <1>1, <2>1, SureCheck
  <2>3. PICK x \in blockLAN(t.st) :
          o = IF x.err = "ok" THEN Done([x.st EXCEPT !.phase = "restoring",
                                                     !.data = d, !.todo = q])
              ELSE x
    BY <2>1, <2>2
  <2>4. x.err = "ok" /\ Frame(t.st, x.st) /\ x.st.pool = t.st.pool
    BY <1>1, <2>2, <2>3, SureBlock
  <2>5. d \in Files /\ q \in Seq(Clients) /\ validateRestoreInterfaces(q)
    <3>1. d \in Files
      BY <1>1, <1>3, RestoredFile
    <3>2. validateRestoreInterfaces(d.clients)
      BY <1>3 DEF ValidPlan
    <3> QED BY <3>1, <3>2, FileClients
  <2> DEFINE y == x.st
             u == [y EXCEPT !.phase = "restoring", !.data = d, !.todo = q]
  <2>6. o.st = u
    <3>1. o = Done(u)
      BY <2>3, <2>4
    <3> QED BY <3>1 DEF Done, Outcome
  <2>7. y \in MStates /\ y.pool = s.pool
    BY <2>2, <2>4 DEF Frame
  <2>8. ClientsOf(d) = ItemsOf(q)
    BY DEF ClientsOf, ItemsOf
  <2>9. d.clients = q
    OBVIOUS
  <2> HIDE DEF y, d, q
  <2>10. u.phase = "restoring" /\ u.data = d /\ u.todo = q /\ u.pool = s.pool
    BY <2>7 DEF MStates
  <2> HIDE DEF u
  <2>11. Serves(u.pool, ClientsOf(u.data) \ ItemsOf(u.todo))
    <3>1. ClientsOf(u.data) \ ItemsOf(u.todo) = {}
      BY <2>8, <2>10
    <3>2. Serves(s.pool, {})
      BY VacantServes
    <3> QED BY <2>10, <3>1, <3>2
  <2>12. Len(q) \in Nat
    BY <2>5
  <2>13. PICK h : Path(q, h)
    BY <2>5, <2>12, PlanPath
  <2>14. Follows(s.pool, h[0])
    <3>1. h[0] = [p \in Profiles |-> 0]
      BY <2>13 DEF Path, NoPorts
    <3>2. Tracked(s.pool) = {}
      BY DEF Vacant, EmptyPool, Tracked, NoIface
    <3> QED BY <3>1, <3>2 DEF Follows
  <2>15. At(q, q, 0, s.pool, h[0])
    BY <2>12, <2>14 DEF At
  <2>16. OnPlan(u)
    BY <2>9, <2>10, <2>12, <2>13, <2>15 DEF OnPlan
  <2> QED BY <2>6, <2>10, <2>11, <2>16 DEF Quiet
<1> QED BY <1>2, <1>3

\* The next record of a plan.
LEMMA AtNext ==
  ASSUME NEW cs \in Seq(Clients), NEW todo \in Seq(Clients), todo # <<>>, NEW i, NEW s, NEW f,
         At(cs, todo, i, s, f)
  PROVE  /\ i + 1 \in 1..Len(cs) /\ (i + 1) - 1 = i /\ Head(todo) = cs[i + 1]
         /\ \A t, g : Follows(t, g) => At(cs, Tail(todo), i + 1, t, g)
<1> DEFINE r == Tail(todo)
<1>1. /\ Len(cs) \in Nat /\ Len(todo) \in Nat /\ Len(todo) > 0 /\ Head(todo) = todo[1]
      /\ Len(r) = Len(todo) - 1 /\ \A j \in 1..Len(r) : r[j] = todo[j + 1]
  OBVIOUS
<1> HIDE DEF r
<1>2. i \in 0..Len(cs) /\ Len(todo) = Len(cs) - i /\ \A j \in 1..Len(todo) : todo[j] = cs[i + j]
  BY DEF At
<1>3. i + 1 \in 1..Len(cs) /\ (i + 1) - 1 = i /\ i + 1 \in 0..Len(cs)
  BY <1>1, <1>2
<1>4. Head(todo) = cs[i + 1]
  BY <1>1, <1>2
<1>5. Len(r) = Len(cs) - (i + 1)
  BY <1>1, <1>2
<1>6. ASSUME NEW j \in 1..Len(r) PROVE r[j] = cs[(i + 1) + j]
  <2>1. j + 1 \in 1..Len(todo) /\ i + (j + 1) = (i + 1) + j
    BY <1>1, <1>2
  <2>2. r[j] = todo[j + 1] /\ todo[j + 1] = cs[i + (j + 1)]
    BY <1>1, <1>2, <2>1
  <2> QED BY <2>1, <2>2
<1> QED BY <1>3, <1>4, <1>5, <1>6 DEF At, r

\* One entry of the plan is restored.
LEMMA SureRestore ==
  ASSUME Reliable, NEW s, NEW dirt, Inv(s, dirt), s.phase = "restoring", s.todo # <<>>,
         Quiet(s), NEW o \in restorePeer(s)
  PROVE  o.err = "ok" /\ Quiet(o.st)
<1> DEFINE c == Head(s.todo)
           p == effectiveProfile(c)
           k == c.key
           a == c.addr
           req == c.port
           rest == Tail(s.todo)
           all == ClientsOf(s.data)
           ds == all \ ItemsOf(s.todo)
           q == s.data.clients
           added == AddPeer(s.pool, p, req, k, a)
<1>1. /\ s \in MStates /\ RestoreInv(s) /\ s.todo \in Seq(Clients) /\ GoodFile(s.data)
  BY DEF Inv, MStates, RestoreInv
<1>2. /\ rest \in Seq(Clients) /\ c \in ItemsOf(s.todo)
      /\ ItemsOf(s.todo) = ItemsOf(rest) \cup {c} /\ c \notin ItemsOf(rest)
  BY <1>1, RestOf DEF RestoreInv
<1>3. /\ c \in all /\ c \in Clients /\ p \in Profiles /\ ItemsOf(s.todo) \subseteq all
      /\ all \in SUBSET Clients /\ \A x, e \in all : x # e => x.addr # e.addr
  BY <1>1, <1>2, GoodClients DEF RestoreInv
<1>4. k \in Keys /\ a \in Addrs /\ req \in Nat /\ KnownAs(c, p, k, a) /\ c.port \in {0, req}
  BY <1>3 DEF Clients, KnownAs
<1>5. FreeAddr(ds, a) /\ ds \in SUBSET Clients
  BY <1>2, <1>3 DEF FreeAddr
<1>6. ds \cup {c} = all \ ItemsOf(rest)
  BY <1>2, <1>3
<1>7. Serves(s.pool, ds) /\ OnPlan(s)
  BY DEF Quiet
<1>8. q \in Seq(Clients)
  BY <1>1, FileClients DEF GoodFile
<1>9. PICK h : /\ Path(q, h)
               /\ \E i \in 0..Len(q) : At(q, s.todo, i, s.pool, h[i])
  BY <1>7 DEF OnPlan
<1>10. PICK i \in 0..Len(q) : At(q, s.todo, i, s.pool, h[i])
  BY <1>9
<1>11. /\ i + 1 \in 1..Len(q) /\ (i + 1) - 1 = i /\ c = q[i + 1]
       /\ \A t, g : Follows(t, g) => At(q, rest, i + 1, t, g)
  <2> DEFINE f == h[i]
             w == s.pool
             td == s.todo
  <2>1. At(q, td, i, w, f) /\ td \in Seq(Clients) /\ td # <<>>
    BY <1>1, <1>10
  <2> HIDE DEF f, w, td, q
  <2>2. /\ i + 1 \in 1..Len(q) /\ (i + 1) - 1 = i /\ Head(td) = q[i + 1]
        /\ \A t, g : Follows(t, g) => At(q, Tail(td), i + 1, t, g)
    BY <1>8, <2>1, AtNext
  <2> QED BY <2>2 DEF td
<1>12. PlanNext(c, h[i]) = {h[i + 1]} /\ Follows(s.pool, h[i])
  <2>1. Follows(s.pool, h[i])
    BY <1>10 DEF At
  <2>2. PlanNext(q[i + 1], h[(i + 1) - 1]) = {h[i + 1]}
    BY <1>9, <1>11 DEF Path
  <2> QED BY <1>11, <2>1, <2>2
<1>13. p = effectiveProfile(c) /\ req = c.port
  OBVIOUS
<1>14. \E u, y : /\ u \in OnPool(s, added)
                 /\ y \in IF u.err = "ok" THEN {u} ELSE closeAndExit(u.st, u.err)
                 /\ o \in IF y.err = "ok" THEN {Done([y.st EXCEPT !.todo = Tail(@)])} ELSE {y}
  BY DEF restorePeer, Then, Catch
<1> HIDE DEF c, p, k, a, req, added, rest, all, ds, q
<1>15. PICK u, y : /\ u \in OnPool(s, added)
                   /\ y \in IF u.err = "ok" THEN {u} ELSE closeAndExit(u.st, u.err)
                   /\ o \in IF y.err = "ok" THEN {Done([y.st EXCEPT !.todo = Tail(@)])} ELSE {y}
  BY <1>14
<1>16. PICK x \in AddPeer(s.pool, p, req, k, a) : u = Outcome([s EXCEPT !.pool = x.st], x.err)
  BY <1>15 DEF OnPool, added
<1>17. Added(x, s.pool, ds, c, p, req)
  BY <1>3, <1>4, <1>5, <1>7, <1>16, ServesAdded
<1>18. Tidy(s.pool)
  BY <1>7, ServesFacts
<1>19. Fits(s.pool, p, req)
  BY <1>3, <1>12, <1>13, <1>18, PlanFits
<1>20. /\ x.err = "ok" /\ Serves(x.st, ds \cup {c}) /\ Tracked(x.st) = Tracked(s.pool) \cup {p}
       /\ KeepsPorts(s.pool, x.st)
       /\ p \notin Tracked(s.pool) => x.st.ifaces[p].port \in resolvePort(s.pool, req)
  BY <1>17, <1>19 DEF Added
<1>21. x.st \in States /\ Tidy(x.st)
  BY <1>20, ServesFacts
<1>22. Follows(x.st, h[i + 1])
  <2> DEFINE g == h[i + 1]
             f == h[i]
             w == s.pool
             t == x.st
  <2>1. Tidy(w) /\ Follows(w, f) /\ PlanNext(c, f) = {g}
    BY <1>12, <1>18
  <2>2. /\ Tidy(t) /\ Tracked(t) = Tracked(w) \cup {p} /\ KeepsPorts(w, t)
        /\ p \notin Tracked(w) => t.ifaces[p].port \in resolvePort(w, req)
    BY <1>20, <1>21
  <2> HIDE DEF g, f, w, t
  <2>3. Follows(t, g)
    BY <1>3, <1>13, <2>1, <2>2, PlanFollowed
  <2> QED BY <2>3 DEF g, t
<1>23. u.err = "ok" /\ u.st.pool = x.st /\ Frame(s, u.st)
  BY <1>1, <1>16, <1>20, <1>21, OnlyPool
<1> DEFINE z == u.st
           v == [z EXCEPT !.todo = rest]
<1>24. /\ z \in MStates /\ z.pool = x.st /\ z.phase = "restoring" /\ z.data = s.data
       /\ z.todo = s.todo
  BY <1>23 DEF Frame
<1>25. o = Done(v)
  <2>1. y = u
    BY <1>15, <1>23
  <2>2. o = Done([z EXCEPT !.todo = Tail(@)])
    BY <1>15, <1>23, <2>1
  <2> QED BY <1>24, <2>2 DEF rest
<1>26. o.st = v /\ o.err = "ok"
  BY <1>25 DEF Done, Outcome
<1> HIDE DEF z
<1>27. v.todo = rest /\ v.phase = "restoring" /\ v.data = s.data /\ v.pool = x.st
  BY <1>24 DEF MStates
<1> HIDE DEF v
<1>28. Serves(v.pool, ClientsOf(v.data) \ ItemsOf(v.todo))
  BY <1>6, <1>20, <1>27 DEF all
<1>29. OnPlan(v)
  <2>1. At(q, rest, i + 1, x.st, h[i + 1])
    BY <1>11, <1>22
  <2>2. i + 1 \in 0..Len(q)
    BY <1>8, <1>11
  <2> QED BY <1>9, <1>27, <2>1, <2>2 DEF OnPlan, q
<1> QED BY <1>26, <1>27, <1>28, <1>29 DEF Quiet

\* The last step of a start: the server is up.
LEMMA SureFinish ==
  ASSUME Reliable, NEW s, NEW dirt, Inv(s, dirt), s.phase = "restoring", s.todo = <<>>,
         Quiet(s), NEW o \in finishRestore(s)
  PROVE  o.err = "ok" /\ Quiet(o.st)
<1> DEFINE Normal(z) == IF needsNormalization(z.disk) THEN Save(z, z.data) ELSE {Done(z)}
           Exit(x) == closeAndExit(x.st, x.err)
           Up(t) == {Done([t EXCEPT !.phase = "up", !.clients = ClientsOf(t.data),
                                    !.usedIPs = {c.addr : c \in ClientsOf(t.data)}])}
           cs == ClientsOf(s.data)
<1>1. s \in MStates /\ GoodFile(s.data) /\ s.data \in Files
  BY DEF Inv, RestoreInv, MStates
<1>2. Serves(s.pool, cs)
  <2>1. ItemsOf(s.todo) = {}
    BY DEF ItemsOf
  <2>2. cs \ ItemsOf(s.todo) = cs
    BY <2>1
  <2>3. Serves(s.pool, cs \ ItemsOf(s.todo))
    BY DEF Quiet
  <2> QED BY <2>2, <2>3
<1>3. s.pool.faults = 0
  BY <1>2, ServesFacts
<1>4. o \in Then(Catch(Then(rebuildLAN(s), Normal), Exit), Up)
  BY DEF finishRestore
<1> HIDE DEF Normal, Exit, Up, cs
<1>5. PICK w \in Catch(Then(rebuildLAN(s), Normal), Exit) :
        o \in IF w.err = "ok" THEN Up(w.st) ELSE {w}
  BY <1>4 DEF Then
<1>6. PICK y \in Then(rebuildLAN(s), Normal) : w \in IF y.err = "ok" THEN {y} ELSE Exit(y)
  BY <1>5 DEF Catch
<1>7. PICK r \in rebuildLAN(s) : y \in IF r.err = "ok" THEN Normal(r.st) ELSE {r}
  BY <1>6 DEF Then
<1>8. /\ r.err = "ok" /\ Frame(s, r.st) /\ r.st.pool = s.pool
      /\ r.st.lan = lanPairs(ClientsOf(s.data))
  BY <1>1, <1>3, <1>7, SureRebuild
<1>9. /\ r.st \in MStates /\ r.st.data = s.data /\ r.st.pool.faults = 0
      /\ r.st.pool = s.pool /\ r.st.lan = lanPairs(cs)
  BY <1>3, <1>8 DEF Frame, cs
<1>10. /\ y.err = "ok" /\ y.st \in MStates /\ y.st.pool = s.pool /\ y.st.data = s.data
       /\ y.st.lan = lanPairs(cs)
  <2>1. y \in Normal(r.st)
    BY <1>7, <1>8
  <2>2. CASE y = Done(r.st)
    <3>1. y.st = r.st /\ y.err = "ok"
      BY <2>2 DEF Done, Outcome
    <3> QED BY <1>9, <3>1
  <2>3. CASE y \in Save(r.st, s.data)
    <3>1. /\ y.err = "ok" /\ y.st \in MStates
          /\ y.st.disk = s.data /\ y.st.pool = r.st.pool /\ y.st.lan = r.st.lan
          /\ y.st.phase = r.st.phase /\ y.st.probes = r.st.probes /\ y.st.data = r.st.data
          /\ y.st.todo = r.st.todo /\ y.st.clients = r.st.clients
          /\ y.st.usedIPs = r.st.usedIPs
      BY <1>1, <1>9, <2>3, SureSave
    <3> QED BY <1>9, <3>1
  <2> QED BY <1>9, <2>1, <2>2, <2>3 DEF Normal
<1>11. o \in Up(y.st)
  BY <1>5, <1>6, <1>10
<1> DEFINE z == y.st
           ips == {c.addr : c \in cs}
           t == [z EXCEPT !.phase = "up", !.clients = cs, !.usedIPs = ips]
<1>12. o = Done(t)
  BY <1>10, <1>11 DEF Up, cs
<1>13. o.st = t /\ o.err = "ok"
  BY <1>12 DEF Done, Outcome
<1>14. z \in MStates /\ z.pool = s.pool /\ z.lan = lanPairs(cs)
  BY <1>10
<1> HIDE DEF z, ips
<1>15. t.phase = "up" /\ t.clients = cs /\ t.pool = s.pool /\ t.lan = lanPairs(cs)
  BY <1>14 DEF MStates
<1> HIDE DEF t
<1>16. Steady(t)
  BY <1>2, <1>15 DEF Steady
<1> QED BY <1>13, <1>15, <1>16 DEF Quiet

-----------------------------------------------------------------------------
(***************************************************************************)
(* The steps of the specification.                                         *)
(***************************************************************************)
\* In a state where nothing has failed there is nothing to forget.
LEMMA FreshSame ==
  ASSUME ManagerInv, Quiet(m)
  PROVE  Fresh = m
<1>1. m \in MStates /\ m.pool \in States
  BY DEF ManagerInv, Inv, MStates
<1>2. m.pool.faults = 0
  <2>1. CASE m.phase = "down"
    BY <2>1 DEF Quiet, Vacant
  <2>2. CASE m.phase = "restoring"
    BY <2>2, ServesFacts DEF Quiet
  <2>3. CASE m.phase = "up"
    BY <2>3, ServesFacts DEF Quiet, Steady
  <2> QED BY <1>1, <2>1, <2>2, <2>3 DEF MStates
<1> DEFINE q == [m.pool EXCEPT !.faults = 0]
<1>3. q = m.pool
  BY <1>1, <1>2 DEF States
<1>4. Fresh = [m EXCEPT !.pool = q]
  BY DEF Fresh
<1> HIDE DEF q
<1> QED BY <1>1, <1>3, <1>4 DEF MStates

\* A running server that is steady is quiet.
LEMMA SteadyQuiet ==
  ASSUME NEW s, Steady(s), s.phase = "up"
  PROVE  Quiet(s)
BY DEF Quiet

\* A call of a running server keeps it steady.
LEMMA QuietCall ==
  ASSUME Reliable, ManagerInv, Quiet(m), Create \/ Update \/ Regenerate \/ Group \/ Delete
  PROVE  \E op, o : Returned(op, o) /\ op \in Calls /\ Steady(o.st)
<1>1. m.phase = "up" /\ Inv(m, dirty)
  BY DEF Create, Update, Regenerate, Group, Delete, Serving, ManagerInv
<1>2. Steady(m) /\ Fresh = m
  BY <1>1, FreshSame DEF Quiet
<1>3. CASE Create
  <2>1. PICK id \in IDs, ver \in Versions, var \in Overrides, port \in Requests,
             group \in Groups, extra \in Extras, key \in NewKeys :
          Return("create", CreateClient(Fresh, [id |-> id, ver |-> ver, var |-> var, port |-> port,
                                                group |-> group, extra |-> extra], key))
    BY <1>3 DEF Create
  <2> DEFINE r == [id |-> id, ver |-> ver, var |-> var, port |-> port, group |-> group,
                   extra |-> extra]
  <2>2. r \in CreateRequests
    BY DEF CreateRequests
  <2>3. PICK o \in CreateClient(m, r, key) : Returned("create", o)
    BY <1>2, <2>1, ReturnOne
  <2>4. key \in Keys /\ \A x \in m.clients : x.key # key
    BY <1>1, KeyIsNew
  <2> HIDE DEF r
  <2>5. Steady(o.st)
    BY <1>1, <1>2, <2>2, <2>3, <2>4, SteadyCreate
  <2> QED BY <2>3, <2>5 DEF Calls
<1>4. CASE Update
  <2>1. PICK id \in IDs, ver \in Versions, extra \in Extras, params \in Replacements :
          Return("update", UpdateClient(Fresh, [id |-> id, ver |-> ver, extra |-> extra,
                                                params |-> params]))
    BY <1>4 DEF Update
  <2> DEFINE r == [id |-> id, ver |-> ver, extra |-> extra, params |-> params]
  <2>2. r \in UpdateRequests
    BY DEF UpdateRequests
  <2>3. PICK o \in UpdateClient(m, r) : Returned("update", o)
    BY <1>2, <2>1, ReturnOne
  <2> HIDE DEF r
  <2>4. Applies(m, o)
    BY <1>1, <2>2, <2>3, UpdateApplies
  <2>5. Steady(o.st)
    BY <1>1, <1>2, <2>4, SteadyUpdate
  <2> QED BY <2>3, <2>5 DEF Calls
<1>5. CASE Regenerate
  <2>1. PICK id \in IDs, var \in Variants, hk \in HeaderKeys :
          Return("regenerate", RegenerateAWGParams(Fresh, id, var, hk))
    BY <1>5 DEF Regenerate, NewHeaderKeys
  <2>2. PICK o \in RegenerateAWGParams(m, id, var, hk) : Returned("regenerate", o)
    BY <1>2, <2>1, ReturnOne
  <2>3. Applies(m, o)
    BY <1>1, <2>2, RegenerateApplies
  <2>4. Steady(o.st)
    BY <1>1, <1>2, <2>3, SteadyUpdate
  <2> QED BY <2>2, <2>4 DEF Calls
<1>6. CASE Group
  <2> DEFINE some == (SUBSET IDs) \ {{}}
             named == Groups \ {""}
  <2>1. \E ids \in some, group \in named : Return("group", UpdateLANGroup(Fresh, ids, group))
    BY <1>6, Zenon DEF Group
  <2>2. \A group \in named : Chosen(group)
    BY DEF Chosen
  <2> HIDE DEF some, named
  <2>3. PICK ids, group : Chosen(group) /\ Return("group", UpdateLANGroup(Fresh, ids, group))
    BY <2>1, <2>2
  <2>4. PICK o \in UpdateLANGroup(m, ids, group) : Returned("group", o)
    BY <1>2, <2>3, ReturnOne
  <2>5. Steady(o.st)
    BY <1>1, <1>2, <2>3, <2>4, SteadyGroup
  <2> QED BY <2>4, <2>5 DEF Calls
<1>7. CASE Delete
  <2>1. PICK id \in IDs : Return("delete", DeleteClient(Fresh, id))
    BY <1>7 DEF Delete
  <2>2. PICK o \in DeleteClient(m, id) : Returned("delete", o)
    BY <1>2, <2>1, ReturnOne
  <2>3. Steady(o.st)
    BY <1>1, <1>2, <2>2, SteadyDelete
  <2> QED BY <2>2, <2>3 DEF Calls
<1> QED BY <1>3, <1>4, <1>5, <1>6, <1>7

\* A host without interfaces.
LEMMA EmptyVacant == Vacant(EmptyPool)
<1>1. EmptyPool \in States
  BY EmptySound DEF Sound
<1> QED BY <1>1 DEF Vacant, EmptyPool

\* A step between calls follows the plan, or ends with an empty host.
LEMMA QuietRest ==
  ASSUME Reliable, ~Crashes, ManagerInv, Quiet(m),
         Start \/ RestorePeer \/ FinishRestore \/ Shutdown \/ Crash \/ Reboot
  PROVE  \E op, o : Returned(op, o) /\ Quiet(o.st) /\ (op = "restore" => o.err = "ok")
<1>1. Inv(m, dirty) /\ m \in MStates
  BY DEF ManagerInv, Inv
<1>2. Fresh = m
  BY FreshSame
<1>3. CASE Start
  <2>1. PICK o \in start(m) : Returned("start", o)
    BY <1>2, <1>3, ReturnOne DEF Start
  <2>2. m.phase = "down" /\ Vacant(m.pool)
    BY <1>3 DEF Start, Quiet
  <2>3. Quiet(o.st)
    BY <1>1, <2>1, <2>2, SureStart
  <2> QED BY <2>1, <2>3
<1>4. CASE RestorePeer
  <2>1. PICK o \in restorePeer(m) : Returned("restore", o)
    BY <1>2, <1>4, ReturnOne DEF RestorePeer
  <2>2. m.phase = "restoring" /\ m.todo # <<>>
    BY <1>4 DEF RestorePeer
  <2>3. o.err = "ok" /\ Quiet(o.st)
    BY <1>1, <2>1, <2>2, SureRestore
  <2> QED BY <2>1, <2>3
<1>5. CASE FinishRestore
  <2>1. PICK o \in finishRestore(m) : Returned("restore", o)
    BY <1>2, <1>5, ReturnOne DEF FinishRestore
  <2>2. m.phase = "restoring" /\ m.todo = <<>>
    BY <1>5 DEF FinishRestore
  <2>3. o.err = "ok" /\ Quiet(o.st)
    BY <1>1, <2>1, <2>2, SureFinish
  <2> QED BY <2>1, <2>3
<1>6. CASE Shutdown
  <2> DEFINE err == "ok"
  <2>1. PICK cause \in {"shutdown", "serverError"} : Return(cause, closeAndExit(m, err))
    BY <1>2, <1>6 DEF Shutdown
  <2>2. PICK o \in closeAndExit(m, err) : Returned(cause, o)
    BY <2>1, ReturnOne
  <2>3. m.phase = "up" /\ Steady(m)
    BY <1>6 DEF Shutdown, Quiet
  <2>4. Serves(m.pool, m.clients) /\ m.clients \in SUBSET Clients
    BY <1>1, <2>3, SteadyFacts
  <2> HIDE DEF err
  <2>5. o.st.phase = "down" /\ Vacant(o.st.pool)
    BY <1>1, <2>2, <2>4, SureExit
  <2>6. Quiet(o.st) /\ cause # "restore"
    BY <2>1, <2>5 DEF Quiet
  <2> QED BY <2>2, <2>6
<1>7. CASE Crash
  BY <1>7 DEF Crash
<1>8. CASE Reboot
  <2> DEFINE t == NewProcess("down", EmptyPool, Open, m.disk, 0)
  <2>1. PICK o \in {Done(t)} : Returned("reboot", o)
    BY <1>8, ReturnOne DEF Reboot
  <2>2. o.st = t
    BY <2>1 DEF Done, Outcome
  <2>3. t.phase = "down" /\ t.pool = EmptyPool
    BY DEF NewProcess
  <2> HIDE DEF t
  <2>4. Quiet(t)
    BY <2>3, EmptyVacant DEF Quiet
  <2> QED BY <2>1, <2>2, <2>4
<1> QED BY <1>3, <1>4, <1>5, <1>6, <1>7, <1>8

\* A call leaves the server running.
LEMMA CallPhase ==
  ASSUME ManagerInv, Create \/ Update \/ Regenerate \/ Group \/ Delete
  PROVE  m'.phase = "up"
<1>1. PICK op, o : Answered(op, o)
  BY CallStep
<1>2. m' = o.st /\ Fresh.phase = "up"
  BY <1>1, FreshInv DEF Answered, Returned, ManagerInv
<1>3. o.st.phase = Fresh.phase
  BY <1>1 DEF Answered, Aborted, Frame, Committed
<1> QED BY <1>2, <1>3

\* The inductive invariant of a server whose commands do not fail.
Calm == Quiet(m)

\* Every step keeps the server quiet, and no restore fails.
LEMMA CalmStep ==
  ASSUME Reliable, ~Crashes, ManagerInv, Calm, [Next]_vars
  PROVE  /\ Calm'
         /\ ~UNCHANGED vars => ~(last'.op = "restore" /\ last'.err # "ok")
<1>1. CASE UNCHANGED vars
  <2>1. m' = m
    BY <1>1 DEF vars
  <2> QED BY <1>1, <2>1 DEF Calm
<1>2. CASE Next
  <2>1. CASE Create \/ Update \/ Regenerate \/ Group \/ Delete
    <3>1. PICK op, o : Returned(op, o) /\ op \in Calls /\ Steady(o.st)
      BY <2>1, QuietCall DEF Calm
    <3>2. m' = o.st /\ last'.op = op
      BY <3>1 DEF Returned
    <3>3. m'.phase = "up"
      BY <2>1, CallPhase
    <3>4. Quiet(m')
      BY <3>1, <3>2, <3>3, SteadyQuiet
    <3> QED BY <3>1, <3>2, <3>4 DEF Calm, Calls
  <2>2. CASE Start \/ RestorePeer \/ FinishRestore \/ Shutdown \/ Crash \/ Reboot
    <3>1. PICK op, o : Returned(op, o) /\ Quiet(o.st) /\ (op = "restore" => o.err = "ok")
      BY <2>2, QuietRest DEF Calm
    <3>2. m' = o.st /\ last'.op = op /\ last'.err = o.err
      BY <3>1 DEF Returned
    <3> QED BY <3>1, <3>2 DEF Calm
  <2> QED BY <1>2, <2>1, <2>2 DEF Next
<1> QED BY <1>1, <1>2

\* What the host holds for the clients it serves.
LEMMA HostOf ==
  ASSUME NEW cs \in SUBSET Clients, NEW s, Serves(s, cs),
         \A c, e \in cs : c # e => c.addr # e.addr
  PROVE  LET name(c) == s.ifaces[effectiveProfile(c)].name
             port(c) == s.ifaces[effectiveProfile(c)].port
         IN /\ s.links = {name(c) : c \in cs}
            /\ s.listen = {<<name(c), port(c)>> : c \in cs}
            /\ s.kpeers = {<<name(c), c.key>> : c \in cs}
            /\ s.routes = [a \in Addrs |->
                             IF \E c \in cs : c.addr = a
                               THEN name(CHOOSE c \in cs : c.addr = a) ELSE NoName]
            /\ \A c \in cs : c.port \in {0, port(c)}
<1> DEFINE name(c) == s.ifaces[effectiveProfile(c)].name
           port(c) == s.ifaces[effectiveProfile(c)].port
<1>1. /\ Tidy(s) /\ Matches(s, cs) /\ s \in States
      /\ \A c \in cs : /\ effectiveProfile(c) \in Tracked(s) /\ s.routes[c.addr] = name(c)
                       /\ c.port \in {0, port(c)}
      /\ \A a \in Addrs : (\A c \in cs : c.addr # a) => s.routes[a] = NoName
      /\ \A p \in Tracked(s) : \E c \in cs : effectiveProfile(c) = p
  BY DEF Serves, Carries, Tidy, Sound
<1>2. s.links = {name(c) : c \in cs}
  <2>1. \A n : n \in s.links <=> \E p \in Tracked(s) : n = s.ifaces[p].name
    BY <1>1 DEF Tidy
  <2> QED BY <1>1, <2>1
<1>3. s.listen = {<<name(c), port(c)>> : c \in cs}
  <2>1. \A l : l \in s.listen <=> \E p \in Tracked(s) : l = <<s.ifaces[p].name, s.ifaces[p].port>>
    BY <1>1 DEF Tidy
  <2> QED BY <1>1, <2>1
<1>4. s.kpeers = {<<name(c), c.key>> : c \in cs}
  <2>1. \A x : x \in s.kpeers <=> \E p \in Tracked(s), k \in Keys :
                                    k \in s.ifaces[p].peers /\ x = <<s.ifaces[p].name, k>>
    BY <1>1 DEF Tidy
  <2>2. \A p \in Tracked(s) : s.ifaces[p].peers = KeysOn(cs, p)
    BY <1>1 DEF Matches, Tracked
  <2>3. ASSUME NEW x \in s.kpeers PROVE x \in {<<name(c), c.key>> : c \in cs}
    <3>1. PICK p \in Tracked(s), k \in Keys : k \in KeysOn(cs, p) /\ x = <<s.ifaces[p].name, k>>
      BY <2>1, <2>2, <2>3
    <3>2. PICK c \in cs : effectiveProfile(c) = p /\ c.key = k
      BY <3>1 DEF KeysOn
    <3> QED BY <3>1, <3>2
  <2>4. ASSUME NEW c \in cs PROVE <<name(c), c.key>> \in s.kpeers
    <3>1. c.key \in KeysOn(cs, effectiveProfile(c)) /\ c.key \in Keys
      BY DEF KeysOn, Clients
    <3> QED BY <1>1, <2>1, <2>2, <3>1
  <2> QED BY <2>3, <2>4
<1>5. ASSUME NEW a \in Addrs
      PROVE  s.routes[a] = IF \E c \in cs : c.addr = a
                             THEN name(CHOOSE c \in cs : c.addr = a) ELSE NoName
  <2>1. CASE \E c \in cs : c.addr = a
    <3> DEFINE e == CHOOSE c \in cs : c.addr = a
    <3>1. e \in cs /\ e.addr = a
      BY <2>1
    <3> HIDE DEF e
    <3>2. s.routes[a] = name(e)
      BY <1>1, <3>1
    <3> QED BY <2>1, <3>2 DEF e
  <2>2. CASE ~ \E c \in cs : c.addr = a
    BY <1>1, <2>2
  <2> QED BY <2>1, <2>2
<1>6. s.routes \in [Addrs -> Nat \cup {NoName}]
  BY <1>1 DEF States
<1>7. s.routes = [a \in Addrs |-> IF \E c \in cs : c.addr = a
                                    THEN name(CHOOSE c \in cs : c.addr = a) ELSE NoName]
  BY <1>5, <1>6
<1> QED BY <1>1, <1>2, <1>3, <1>4, <1>7

-----------------------------------------------------------------------------
(***************************************************************************)
(* Theorems.                                                               *)
(***************************************************************************)
\* A server whose commands do not fail and that does not die is quiet all the
\* time: up, it serves its clients; starting, it follows the plan; down, it has
\* left nothing on the host.
THEOREM Quietness ==
  ASSUME MaxFaults = 0, ~Crashes
  PROVE  Spec => [](ManagerInv /\ Calm)
<1>1. Init => Calm
  <2> SUFFICES ASSUME Init PROVE Calm
    OBVIOUS
  <2>1. PICK d \in InitDisks : m = NewProcess("down", EmptyPool, Open, d, 0)
    BY DEF Init
  <2>2. m.phase = "down" /\ m.pool = EmptyPool
    BY <2>1 DEF NewProcess
  <2> QED BY <2>2, EmptyVacant DEF Calm, Quiet
<1>2. ManagerInv /\ Calm /\ [Next]_vars => Calm'
  BY CalmStep DEF Reliable
<1> QED BY <1>1, <1>2, Invariance, PTL DEF Spec

\* When no command fails and no process dies, every stored client is served, on one
\* listening interface of its profile, with the port it asked for and its route, and
\* the host holds nothing else, whatever calls, refusals and restarts there were.
THEOREM EveryClientServed == Spec => []ServedExactly
<1>1. CASE MaxFaults = 0 /\ ~Crashes
  <2>1. ManagerInv /\ Calm => ServedExactly
    <3> SUFFICES ASSUME ManagerInv, Calm, m.phase = "up" PROVE ServedExactly
      BY DEF ServedExactly
    <3>1. Inv(m, dirty) /\ Steady(m)
      BY DEF ManagerInv, Calm, Quiet
    <3> DEFINE cs == ClientsOf(m.disk)
               pool == m.pool
    <3>2. /\ m.clients = cs /\ cs \in SUBSET Clients
          /\ \A c, e \in cs : c # e => c.addr # e.addr
      BY <3>1, UpFacts
    <3>3. Serves(pool, cs) /\ m.lan \in {{}, lanPairs(cs)}
      BY <3>1, <3>2 DEF Steady
    <3> HIDE DEF cs, pool
    <3> DEFINE name(c) == pool.ifaces[effectiveProfile(c)].name
               port(c) == pool.ifaces[effectiveProfile(c)].port
    <3>4. /\ pool.links = {name(c) : c \in cs}
          /\ pool.listen = {<<name(c), port(c)>> : c \in cs}
          /\ pool.kpeers = {<<name(c), c.key>> : c \in cs}
          /\ pool.routes = [a \in Addrs |->
                              IF \E c \in cs : c.addr = a
                                THEN name(CHOOSE c \in cs : c.addr = a) ELSE NoName]
          /\ \A c \in cs : c.port \in {0, port(c)}
      BY <3>2, <3>3, HostOf
    <3> QED BY <3>3, <3>4, Zenon DEF ServedExactly, pool, cs
  <2>2. Spec => [](ManagerInv /\ Calm)
    BY <1>1, Quietness
  <2> QED BY <2>1, <2>2, PTL
<1>2. CASE ~(MaxFaults = 0 /\ ~Crashes)
  <2>1. ServedExactly
    BY <1>2 DEF ServedExactly
  <2> QED BY <2>1, PTL
<1> QED BY <1>1, <1>2

\* What PrepareRestorePlan accepts the pool does not refuse, on a host where no
\* command fails and no process has died.
THEOREM PlanIsRestored ==
  ASSUME MaxFaults = 0, ~Crashes
  PROVE  Spec => PlanHolds
<1> DEFINE Holds == (last'.op = "restore" /\ last'.err # "ok") => m'.pool.faults > 0
<1>1. ManagerInv /\ Calm /\ [Next]_vars => [Holds]_vars
  BY CalmStep DEF Reliable
<1> QED BY <1>1, Quietness, PTL DEF Spec, PlanHolds

=============================================================================
