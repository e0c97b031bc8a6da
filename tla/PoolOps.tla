------------------------------- MODULE PoolOps -------------------------------
(***************************************************************************)
(* The interface pool of internal/awg/pool.go and the host commands of     *)
(* internal/awg/device.go it is built from, as operators on one state      *)
(* record.  Every public method of Pool holds p.mu from its first to its   *)
(* last line, so a method is one step: its operator returns the set of all *)
(* outcomes [st |-> state, err |-> error class] that its host commands,    *)
(* each of which may fail, and its own rollback code can lead to.          *)
(* Module Pool makes a specification of these operators, module Manager    *)
(* composes them with the client store.                                    *)
(***************************************************************************)
EXTENDS Integers, FiniteSets

CONSTANTS
  Profiles,       \* profile identities (ProfileKey)
  Keys,           \* client public keys
  Addrs,          \* client tunnel addresses, one /32 route each
  ListenPort,     \* cfg.ListenPort: the first automatically assigned port
  MaxPort,        \* the last valid UDP port
  MaxInterfaces,  \* maxIfaces: limit on device interfaces, 0 is no limit
  MaxFaults       \* bound: host commands that may fail within one operation

ASSUME PortAssumption == /\ ListenPort \in Nat \ {0}
                         /\ MaxPort \in Nat
ASSUME LimitAssumption == MaxInterfaces \in Nat /\ MaxFaults \in Nat

(***************************************************************************)
(* State.  The first five fields are the Pool structure; links, listen,    *)
(* kpeers, routes and masq are what the host kernel holds; faults counts   *)
(* the commands that failed in the current operation.  Interface awg<i> is *)
(* the number i.                                                           *)
(***************************************************************************)
NoName == -1

Iface == [name: Nat \cup {NoName}, port: Nat, count: Nat, peers: SUBSET Keys]

NoIface == [name |-> NoName, port |-> 0, count |-> 0, peers |-> {}]

States == [ifaces: [Profiles -> Iface],
           orphans: SUBSET [name: Nat, port: Nat],
           usedPorts: SUBSET Nat,
           nextIndex: Nat,
           masqAdded: BOOLEAN,
           links: SUBSET Nat,
           listen: SUBSET (Nat \X Nat),
           kpeers: SUBSET (Nat \X Keys),
           routes: [Addrs -> Nat \cup {NoName}],
           masq: Nat,
           faults: Nat]

\* A new Pool on a host that has no awg interface.
EmptyPool == [ifaces |-> [p \in Profiles |-> NoIface],
              orphans |-> {}, usedPorts |-> {}, nextIndex |-> 0,
              masqAdded |-> FALSE,
              links |-> {}, listen |-> {}, kpeers |-> {},
              routes |-> [a \in Addrs |-> NoName], masq |-> 0, faults |-> 0]

Tracked(s) == {p \in Profiles : s.ifaces[p].name # NoName}

(***************************************************************************)
(* Outcomes.  "failed" is a plain error after a failed host command,       *)
(* "rollbackFailed" an error that wraps ErrRollbackFailed, "refused" an    *)
(* anonymous precondition error; the others are the sentinel errors.       *)
(***************************************************************************)
Errors == {"ok", "failed", "rollbackFailed", "refused", "portInUse",
           "portConflict", "portShared", "maxInterfaces"}

Outcome(st, err) == [st |-> st, err |-> err]

Done(st) == Outcome(st, "ok")

\* Continue with F after success; return the error otherwise.
Then(outcomes, F(_)) ==
  UNION {IF o.err = "ok" THEN F(o.st) ELSE {o} : o \in outcomes}

\* Handle an error with H; success passes.
Catch(outcomes, H(_)) ==
  UNION {IF o.err = "ok" THEN {o} ELSE H(o) : o \in outcomes}

\* Mutant of rollbackFailure: a failed rollback is reported as a plain error.
rollbackFailureSwallowed(err, rollbackErr) == err

\* The error to report for err once its rollback ended with rollbackErr.
rollbackFailure(err, rollbackErr) ==
  IF rollbackErr = "ok" THEN err ELSE "rollbackFailed"

(***************************************************************************)
(* Host commands.  A command fails when the kernel state does not allow it *)
(* and may fail for any other reason; a failed command changes nothing.    *)
(***************************************************************************)
Faulted(s) == [s EXCEPT !.faults = @ + 1]

Command(s, allowed, effect) ==
  IF allowed
    THEN {Done(effect)} \cup {x \in {Outcome(Faulted(s), "failed")} : s.faults < MaxFaults}
    ELSE {Outcome(s, "failed")}

createInterface(s, n) ==
  Command(s, n \notin s.links, [s EXCEPT !.links = @ \cup {n}])

\* The host after the links in gone were deleted: ip link del takes the
\* peers, the socket and the routes of a link along.
Unlinked(s, gone) ==
  [s EXCEPT !.links = @ \ gone,
            !.listen = {l \in @ : l[1] \notin gone},
            !.kpeers = {x \in @ : x[1] \notin gone},
            !.routes = [a \in Addrs |->
                          IF s.routes[a] \in gone THEN NoName ELSE s.routes[a]]]

destroyInterface(s, n) == Command(s, n \in s.links, Unlinked(s, {n}))

configureDevice(s, n, port) ==
  Command(s, n \in s.links, [s EXCEPT !.listen = @ \cup {<<n, port>>}])

\* ip link set up binds the socket: refused while another link has the port.
configureInterfaceNetwork(s, n) ==
  Command(s, n \in s.links /\ \A l, r \in s.listen : l[1] = n /\ l[2] = r[2] => r[1] = n, s)

addMasquerade(s) ==
  Command(s, TRUE, [s EXCEPT !.masq = @ + 1, !.masqAdded = TRUE])

setPeerOnInterface(s, n, k) ==
  Command(s, n \in s.links, [s EXCEPT !.kpeers = @ \cup {<<n, k>>}])

removePeerOnlyFromInterface(s, n, k) ==
  Command(s, n \in s.links, [s EXCEPT !.kpeers = @ \ {<<n, k>>}])

\* ip route replace: one route per /32, whatever its device was.
replacePeerRoute(s, n, a) ==
  Command(s, n \in s.links, [s EXCEPT !.routes[a] = n])

\* ip route del ... dev n: refused when the route does not lead to n.
deletePeerRoute(s, n, a) ==
  Command(s, s.routes[a] = n, [s EXCEPT !.routes[a] = NoName])

addPeerToInterface(s, n, k, a) ==
  Then(setPeerOnInterface(s, n, k), LAMBDA t : replacePeerRoute(t, n, a))

\* Both commands are tried; an error of either is reported.
restorePeerAndRoute(s, n, k, a) ==
  UNION {{Outcome(r.st, IF o.err = "ok" THEN r.err ELSE o.err) :
            r \in replacePeerRoute(o.st, n, a)} :
         o \in setPeerOnInterface(s, n, k)}

\* A failed restore is joined to the route error, it is not a rollbackFailure.
removePeerFromInterface(s, n, k, a) ==
  Then(removePeerOnlyFromInterface(s, n, k),
       LAMBDA t : Catch(deletePeerRoute(t, n, a),
                        LAMBDA o : {Outcome(r.st, "failed") :
                                      r \in restorePeerAndRoute(o.st, n, k, a)}))

\* ip route show ... dev n; whether it shows a route is read from the state.
peerRouteExists(s, n) == Command(s, n \in s.links, s)

deletePartialRoute(s, n, a) ==
  Then(peerRouteExists(s, n),
       LAMBDA t : IF t.routes[a] = n THEN deletePeerRoute(t, n, a) ELSE {Done(t)})

\* Also returns peerRemoved.
cleanupPeerAfterFailedAdd(s, n, k, a) ==
  UNION {{[st |-> r.st, removed |-> o.err = "ok",
           err |-> IF o.err = "ok" THEN r.err ELSE o.err] :
            r \in deletePartialRoute(o.st, n, a)} :
         o \in removePeerOnlyFromInterface(s, n, k)}

(***************************************************************************)
(* Pool bookkeeping.                                                       *)
(***************************************************************************)
\* Mutant of trackPeer: a peer that is tracked already is counted again.
trackPeerRecounts(s, p, k) ==
  [s EXCEPT !.ifaces[p] = [@ EXCEPT !.count = @ + 1, !.peers = @ \cup {k}]]

trackPeer(s, p, k) ==
  LET i == s.ifaces[p]
  IN [s EXCEPT !.ifaces[p] =
        [i EXCEPT !.count = IF k \in i.peers THEN i.count ELSE i.count + 1,
                  !.peers = i.peers \cup {k}]]

\* Mutant of untrackPeer: the caller's decrement is repeated, without the floor.
untrackPeerTwice(s, p, k) ==
  [s EXCEPT !.ifaces[p] = [@ EXCEPT !.count = @ - 2, !.peers = @ \ {k}]]

untrackPeer(s, p, k) ==
  LET i == s.ifaces[p]
  IN [s EXCEPT !.ifaces[p] =
        [i EXCEPT !.count = IF k \in i.peers /\ i.count > 0 THEN i.count - 1 ELSE i.count,
                  !.peers = i.peers \ {k}]]

destroyTrackedInterface(s, p) ==
  Then(destroyInterface(s, s.ifaces[p].name),
       LAMBDA t : {Done([t EXCEPT !.usedPorts = @ \ {s.ifaces[p].port},
                                  !.ifaces[p] = NoIface])})

trackOrphanInterface(s, n, port) ==
  [s EXCEPT !.orphans = @ \cup {[name |-> n, port |-> port]},
            !.usedPorts = @ \cup {port}]

\* The ports a request may get: at most one, none when it is in use or when
\* the automatic range is exhausted.
resolvePort(s, req) ==
  IF req # 0
    THEN {req} \ s.usedPorts
    ELSE {q \in ListenPort..MaxPort :
            /\ q \notin s.usedPorts
            /\ \A r \in ListenPort..(q - 1) : r \in s.usedPorts}

\* Mutant of LimitReached: orphans do not count.
LimitReachedTrackedOnly(s) ==
  MaxInterfaces > 0 /\ Cardinality(Tracked(s)) >= MaxInterfaces

LimitReached(s) ==
  /\ MaxInterfaces > 0
  /\ Cardinality(Tracked(s)) + Cardinality(s.orphans) >= MaxInterfaces

\* The steps of getOrCreateInterface after the link exists.
bringUp(s, n, port) ==
  Then(configureDevice(s, n, port),
       LAMBDA t : Then(configureInterfaceNetwork(t, n),
                       LAMBDA u : IF u.masqAdded THEN {Done(u)} ELSE addMasquerade(u)))

\* Mutant of abandonInterface: a link that cannot be destroyed is forgotten.
abandonInterfaceForgets(s, n, port) ==
  {IF d.err = "ok" THEN Outcome(d.st, "failed") ELSE Outcome(d.st, "rollbackFailed") :
     d \in destroyInterface(s, n)}

\* A link that was not brought up is destroyed, or kept as an orphan.
abandonInterface(s, n, port) ==
  {IF d.err = "ok" THEN Outcome(d.st, "failed")
                   ELSE Outcome(trackOrphanInterface(d.st, n, port), "rollbackFailed") :
     d \in destroyInterface(s, n)}

registerInterface(s, p, n, port) ==
  [s EXCEPT !.ifaces[p] = [name |-> n, port |-> port, count |-> 0, peers |-> {}],
            !.usedPorts = @ \cup {port}]

newInterface(s, p, port) ==
  LET n == s.nextIndex
  IN Then(createInterface([s EXCEPT !.nextIndex = n + 1], n),
          LAMBDA t : Then(Catch(bringUp(t, n, port),
                                LAMBDA o : abandonInterface(o.st, n, port)),
                          LAMBDA u : {Done(registerInterface(u, p, n, port))}))

\* validateExistingInterfacePort
PortConflicts(s, p, req) == req # 0 /\ req # s.ifaces[p].port

getOrCreateInterface(s, p, req) ==
  IF p \in Tracked(s)
    THEN {Outcome(s, IF PortConflicts(s, p, req) THEN "portConflict" ELSE "ok")}
  ELSE IF req # 0 /\ req \in s.usedPorts THEN {Outcome(s, "portInUse")}
  ELSE IF LimitReached(s) THEN {Outcome(s, "maxInterfaces")}
  ELSE IF resolvePort(s, req) = {} THEN {Outcome(s, "refused")}
  ELSE UNION {newInterface(s, p, port) : port \in resolvePort(s, req)}

(***************************************************************************)
(* Public methods.                                                         *)
(***************************************************************************)
\* Mutant of undoFailedAdd: the peer that could not be removed is not tracked.
undoFailedAddUntracked(s, p, k, a) ==
  UNION {IF s.ifaces[p].count = 0
           THEN Catch(destroyTrackedInterface(c.st, p),
                      LAMBDA o : {Outcome(o.st, "rollbackFailed")})
           ELSE {Outcome(c.st, rollbackFailure("failed", c.err))} :
         c \in cleanupPeerAfterFailedAdd(s, s.ifaces[p].name, k, a)}

\* After a failed add: remove what was set, destroy a still empty interface,
\* track the peer if it could not be removed.
undoFailedAdd(s, p, k, a) ==
  LET n == s.ifaces[p].name
      kept(c, t) == IF c.removed THEN t ELSE trackPeer(t, p, k)
  IN UNION {IF s.ifaces[p].count = 0
              THEN {IF d.err = "ok" THEN Outcome(d.st, "failed")
                                    ELSE Outcome(kept(c, d.st), "rollbackFailed") :
                      d \in destroyTrackedInterface(c.st, p)}
              ELSE {Outcome(kept(c, c.st), rollbackFailure("failed", c.err))} :
            c \in cleanupPeerAfterFailedAdd(s, n, k, a)}

addPeerLocked(s, p, k, a) ==
  Then(Catch(addPeerToInterface(s, s.ifaces[p].name, k, a),
             LAMBDA o : undoFailedAdd(o.st, p, k, a)),
       LAMBDA t : {Done(trackPeer(t, p, k))})

\* AddPeer, and rollbackPeer under the lock of MigratePeer.
AddPeer(s, p, req, k, a) ==
  Then(getOrCreateInterface(s, p, req), LAMBDA t : addPeerLocked(t, p, k, a))

\* Destroy an interface that lost its last peer k, or put k back.
destroyOrRestore(s, p, k, a) ==
  Catch(destroyTrackedInterface(s, p),
        LAMBDA o : {Outcome(trackPeer(r.st, p, k), rollbackFailure("failed", r.err)) :
                      r \in restorePeerAndRoute(o.st, s.ifaces[p].name, k, a)})

\* The preconditions RemovePeer and MigratePeer check on the old profile.
HasPeer(s, p, k) ==
  p \in Tracked(s) /\ s.ifaces[p].count > 0 /\ k \in s.ifaces[p].peers

\* Mutant of RemovePeer: the interface goes while one peer is left.
RemovePeerEarlyDestroy(s, p, k, a) ==
  IF ~HasPeer(s, p, k)
    THEN {Outcome(s, "refused")}
    ELSE Then(removePeerFromInterface(s, s.ifaces[p].name, k, a),
              LAMBDA t : LET u == untrackPeer(t, p, k)
                         IN IF u.ifaces[p].count <= 1 THEN destroyOrRestore(u, p, k, a)
                                                      ELSE {Done(u)})

\* Mutant of RemovePeer: the interface is never destroyed.
RemovePeerKeepsEmpty(s, p, k, a) ==
  IF ~HasPeer(s, p, k)
    THEN {Outcome(s, "refused")}
    ELSE Then(removePeerFromInterface(s, s.ifaces[p].name, k, a),
              LAMBDA t : {Done(untrackPeer(t, p, k))})

RemovePeer(s, p, k, a) ==
  IF ~HasPeer(s, p, k)
    THEN {Outcome(s, "refused")}
    ELSE Then(removePeerFromInterface(s, s.ifaces[p].name, k, a),
              LAMBDA t : LET u == untrackPeer(t, p, k)
                         IN IF u.ifaces[p].count = 0 THEN destroyOrRestore(u, p, k, a)
                                                     ELSE {Done(u)})

rollbackNewPeer(s, q, k, a) ==
  IF k \notin s.ifaces[q].peers
    THEN {Outcome(s, "failed")}
    ELSE Then(removePeerFromInterface(s, s.ifaces[q].name, k, a),
              LAMBDA t : LET u == untrackPeer(t, q, k)
                         IN IF u.ifaces[q].count = 0 THEN destroyTrackedInterface(u, q)
                                                     ELSE {Done(u)})

\* Mutant of rollbackSharedMigration: the old route is not restored.
rollbackSharedMigrationNoRoute(s, p, q, k, a) ==
  UNION {{Outcome(r.st, IF o.err = "ok" THEN r.err ELSE o.err) :
            r \in setPeerOnInterface(o.st, s.ifaces[p].name, k)} :
         o \in rollbackNewPeer(s, q, k, a)}

\* Both halves are tried.
rollbackSharedMigration(s, p, q, k, a) ==
  UNION {{Outcome(r.st, IF o.err = "ok" THEN r.err ELSE o.err) :
            r \in restorePeerAndRoute(o.st, s.ifaces[p].name, k, a)} :
         o \in rollbackNewPeer(s, q, k, a)}

\* The old interface has no other peer: it is destroyed before the new one
\* is created, which may then take its port and its place in the limit.
migrateSolePeer(s, p, q, req, k, a) ==
  LET oldPort == s.ifaces[p].port
  IN Then(removePeerFromInterface(s, s.ifaces[p].name, k, a),
          LAMBDA t : Then(destroyOrRestore(untrackPeer(t, p, k), p, k, a),
          LAMBDA u : Catch(AddPeer(u, q, req, k, a),
          LAMBDA o : {Outcome(r.st, rollbackFailure(o.err, r.err)) :
                        r \in AddPeer(o.st, p, oldPort, k, a)})))

\* Mutant of migrateSharedPeer: the peer stays on the old interface.
migrateSharedPeerKeepsOld(s, p, q, req, k, a) ==
  Then(getOrCreateInterface(s, q, req), LAMBDA t : addPeerLocked(t, q, k, a))

\* The old interface keeps its other peers: the peer is added to the new one
\* first.  (The branch of the code for an old interface that becomes empty
\* here cannot be reached: it had more than one peer.)
migrateSharedPeer(s, p, q, req, k, a) ==
  LET n == s.ifaces[p].name
  IN Then(getOrCreateInterface(s, q, req),
          LAMBDA t : Then(Catch(addPeerLocked(t, q, k, a),
                                LAMBDA o : {Outcome(r.st, rollbackFailure(o.err, r.err)) :
                                              r \in replacePeerRoute(o.st, n, a)}),
          LAMBDA u : Then(Catch(removePeerOnlyFromInterface(u, n, k),
                                LAMBDA o : {Outcome(r.st, rollbackFailure(o.err, r.err)) :
                                              r \in rollbackSharedMigration(o.st, p, q, k, a)}),
          LAMBDA v : {Done(untrackPeer(v, p, k))})))

\* oldReq is the port the old profile requested (oldProfile.Params().Port).
MigratePeer(s, p, oldReq, q, req, k, a) ==
  IF ~HasPeer(s, p, k) THEN {Outcome(s, "refused")}
  ELSE IF p = q /\ oldReq = req THEN {Done(s)}
  ELSE IF p = q /\ s.ifaces[p].count > 1 THEN {Outcome(s, "portShared")}
  ELSE IF p # q /\ q \in Tracked(s) /\ PortConflicts(s, q, req)
    THEN {Outcome(s, "portConflict")}
  ELSE IF s.ifaces[p].count = 1 THEN migrateSolePeer(s, p, q, req, k, a)
                                ELSE migrateSharedPeer(s, p, q, req, k, a)

\* Close tries to destroy every tracked and every orphan interface; stuckP and
\* stuckO are the ones whose ip link del fails.  The MASQUERADE rule goes only
\* when nothing is left, and that may fail too.
closeInterfaces(s, stuckP, stuckO) ==
  LET goneP == Tracked(s) \ stuckP
      goneO == s.orphans \ stuckO
      ports == {s.ifaces[p].port : p \in goneP} \cup {o.port : o \in goneO}
      names == {s.ifaces[p].name : p \in goneP} \cup {o.name : o \in goneO}
      t     == Unlinked(s, names)
  IN [t EXCEPT !.ifaces = [p \in Profiles |-> IF p \in goneP THEN NoIface ELSE s.ifaces[p]],
               !.orphans = stuckO,
               !.usedPorts = @ \ ports,
               !.faults = @ + Cardinality(stuckP) + Cardinality(stuckO)]

\* Mutant of closeMasquerade: the rule stays.
closeMasqueradeNever(s) == {Done(s)}

\* Mutant of closeMasquerade: the rule goes while interfaces remain.
closeMasqueradeEarly(s) ==
  IF s.masqAdded
    THEN Catch(Command(s, s.masq > 0, [s EXCEPT !.masq = @ - 1, !.masqAdded = FALSE]),
               LAMBDA o : {Done(o.st)})
    ELSE {Done(s)}

closeMasquerade(s) ==
  IF s.masqAdded /\ Tracked(s) = {} /\ s.orphans = {}
    THEN Catch(Command(s, s.masq > 0, [s EXCEPT !.masq = @ - 1, !.masqAdded = FALSE]),
               LAMBDA o : {Done(o.st)})
    ELSE {Done(s)}

Close(s) ==
  UNION {closeMasquerade(closeInterfaces(s, stuck[1], stuck[2])) :
           stuck \in {x \in (SUBSET Tracked(s)) \X (SUBSET s.orphans) :
                        s.faults + Cardinality(x[1]) + Cardinality(x[2]) <= MaxFaults}}
=============================================================================
