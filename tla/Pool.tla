-------------------------------- MODULE Pool --------------------------------
(***************************************************************************)
(* The interface pool as a state machine: one action per public method of  *)
(* internal/awg/pool.go that changes state, called with any profile, port  *)
(* and key, while host commands fail.                                      *)
(***************************************************************************)
EXTENDS PoolOps

CONSTANTS
  AddrOf,     \* the tunnel address of each key
  Requests,   \* the ports a caller may request; 0 asks for an automatic one
  MaxIndex    \* bound: interfaces created in a behaviour

ASSUME AddrAssumption == /\ AddrOf \in [Keys -> Addrs]
                         /\ \A j, k \in Keys : AddrOf[j] = AddrOf[k] => j = k
ASSUME RequestAssumption == Requests \subseteq Nat

VARIABLES
  pool,   \* the Pool structure and the host state it controls
  last    \* the last call: method, key, profile it left or entered, result

vars == <<pool, last>>

NoCall == [op |-> "none"]

Calls == [op: {"AddPeer"}, key: Keys, to: Profiles, req: Nat, err: Errors]
           \cup [op: {"RemovePeer"}, key: Keys, from: Profiles, err: Errors]
           \cup [op: {"MigratePeer"}, key: Keys, from: Profiles, to: Profiles,
                 req: Nat, err: Errors]
           \cup [op: {"Close"}]
           \cup {NoCall}

Init == pool = EmptyPool /\ last = NoCall

\* Every operation starts with no failed command; a migration creates at most
\* two interfaces.
Fresh == [pool EXCEPT !.faults = 0]
Room == pool.nextIndex + 2 <= MaxIndex

\* The manager adds a freshly generated key, or puts back the key it has just
\* removed from the same profile (CreateClient and DeleteClient).
Addable(p, k) ==
  \/ \A q \in Profiles : k \notin pool.ifaces[q].peers
  \/ last.op = "RemovePeer" /\ last.err = "ok" /\ last.key = k /\ last.from = p

AddPeerCall(p, req, k) ==
  /\ Room
  /\ Addable(p, k)
  /\ \E o \in AddPeer(Fresh, p, req, k, AddrOf[k]) :
       /\ pool' = o.st
       /\ last' = [op |-> "AddPeer", key |-> k, to |-> p, req |-> req, err |-> o.err]

RemovePeerCall(p, k) ==
  \E o \in RemovePeer(Fresh, p, k, AddrOf[k]) :
    /\ pool' = o.st
    /\ last' = [op |-> "RemovePeer", key |-> k, from |-> p, err |-> o.err]

MigratePeerCall(p, oldReq, q, req, k) ==
  /\ Room
  /\ \E o \in MigratePeer(Fresh, p, oldReq, q, req, k, AddrOf[k]) :
       /\ pool' = o.st
       /\ last' = [op |-> "MigratePeer", key |-> k, from |-> p, to |-> q,
                   req |-> req, err |-> o.err]

CloseCall ==
  \E o \in Close(Fresh) : pool' = o.st /\ last' = [op |-> "Close"]

Next ==
  \/ \E p \in Profiles, req \in Requests, k \in Keys : AddPeerCall(p, req, k)
  \/ \E p \in Profiles, k \in Keys : RemovePeerCall(p, k)
  \/ \E p, q \in Profiles, oldReq, req \in Requests, k \in Keys :
       MigratePeerCall(p, oldReq, q, req, k)
  \/ CloseCall

Spec == Init /\ [][Next]_vars

-----------------------------------------------------------------------------
(***************************************************************************)
(* Invariants.                                                             *)
(***************************************************************************)
TypeOK == pool \in States /\ last \in Calls

\* The books of the pool agree with the host.
HostAccountedIn(s) ==
  /\ s.links = {s.ifaces[p].name : p \in Tracked(s)} \cup {o.name : o \in s.orphans}
  /\ s.usedPorts = {s.ifaces[p].port : p \in Tracked(s)} \cup {o.port : o \in s.orphans}
  /\ \A p, q \in Tracked(s) :
       p # q => /\ s.ifaces[p].name # s.ifaces[q].name
                /\ s.ifaces[p].port # s.ifaces[q].port
  /\ \A o, r \in s.orphans : o # r => o.name # r.name /\ o.port # r.port
  /\ \A p \in Tracked(s), o \in s.orphans :
       s.ifaces[p].name # o.name /\ s.ifaces[p].port # o.port
  /\ \A l \in s.listen :
       \/ \E p \in Tracked(s) : l = <<s.ifaces[p].name, s.ifaces[p].port>>
       \/ \E o \in s.orphans : l = <<o.name, o.port>>

\* No operation, however its commands and its rollback fail, loses sight of a
\* kernel interface or of its port: the links of the host are those of the
\* tracked and the orphan interfaces, usedPorts is the set of their ports, no
\* two of them share a name or a port, and nothing else listens.
HostAccounted == HostAccountedIn(pool)

LivePeersTrackedIn(s) ==
  \A x \in s.kpeers :
    \E p \in Tracked(s) : s.ifaces[p].name = x[1] /\ x[2] \in s.ifaces[p].peers

\* A peer that is live in the kernel is tracked on the profile of its
\* interface: no failed add, removal or migration leaves a peer that the pool
\* could not remove later, and none is left on an orphan.
LivePeersTracked == LivePeersTrackedIn(pool)

CountsPeersIn(s) ==
  \A p \in Profiles : s.ifaces[p].count = Cardinality(s.ifaces[p].peers)

\* peerCount, which decides whether an interface is destroyed and whether a
\* port change is refused, is the number of tracked peers after any sequence
\* of failed and repeated operations.
CountsPeers == CountsPeersIn(pool)

WithinLimitIn(s) ==
  MaxInterfaces > 0 =>
    Cardinality(Tracked(s)) + Cardinality(s.orphans) <= MaxInterfaces

\* Tracked and orphan interfaces together respect maxIfaces, rollbacks that
\* recreate an interface included.
WithinLimit == WithinLimitIn(pool)

MasqueradedIn(s) ==
  /\ s.masq = (IF s.masqAdded THEN 1 ELSE 0)
  /\ Tracked(s) # {} => s.masqAdded

\* While any interface is tracked its traffic is masqueraded, by exactly one
\* rule that masqAdded knows of.
Masqueraded == MasqueradedIn(pool)

\* The peer k is reachable through profile p: tracked, live on the interface,
\* which listens on its port, and routed to it.
Served(s, p, k) ==
  LET n == s.ifaces[p].name
  IN /\ p \in Tracked(s)
     /\ k \in s.ifaces[p].peers
     /\ <<n, k>> \in s.kpeers
     /\ <<n, s.ifaces[p].port>> \in s.listen
     /\ s.routes[AddrOf[k]] = n

(***************************************************************************)
(* Action properties.                                                      *)
(***************************************************************************)
\* A call for one key never disturbs another key, not even in a rollback that
\* fails: a peer that was reachable through p stays reachable through p, on the
\* same interface and the same port.
OthersUndisturbed ==
  [][last'.op # "Close" =>
       \A p \in Profiles, j \in Keys :
         (j # last'.key /\ Served(pool, p, j)) =>
           /\ Served(pool', p, j)
           /\ pool'.ifaces[p].name = pool.ifaces[p].name
           /\ pool'.ifaces[p].port = pool.ifaces[p].port]_vars

\* The call, which is not a migration to the same profile and port, returns
\* nil when no command fails.
WouldSucceed(call) ==
  LET s == [pool EXCEPT !.faults = MaxFaults]
      a == AddrOf[call.key]
  IN \E o \in IF call.op = "RemovePeer"
                THEN RemovePeer(s, call.from, call.key, a)
                ELSE MigratePeer(s, call.from, call.req + 1, call.to, call.req, call.key, a) :
       o.err = "ok"

\* One thing going wrong - a single failed command in a call that could be
\* carried out, or a call that cannot - costs no service: the peer is back on
\* its old profile and port, with its route, and no new interface is left behind.
SingleFaultRestores ==
  [][(/\ last'.op \in {"RemovePeer", "MigratePeer"} /\ last'.err # "ok"
      /\ pool'.faults = 0 \/ (pool'.faults = 1 /\ WouldSucceed(last'))) =>
       LET k == last'.key
           p == last'.from
       IN Served(pool, p, k) =>
            /\ Served(pool', p, k)
            /\ pool'.ifaces[p].port = pool.ifaces[p].port
            /\ Tracked(pool') \subseteq Tracked(pool)]_vars

TrackedOnce(k) ==
  \A p, q \in Profiles : k \in pool.ifaces[p].peers \cap pool.ifaces[q].peers => p = q

\* An error that does not report a failed rollback leaves every profile its
\* peers, and its port if it has any, and no new orphan, however many commands
\* failed - unless the key was still tracked twice after an earlier failed
\* rollback, when the duplicate may go.
PlainErrorKeepsBooks ==
  [][(last'.op # "Close" /\ last'.err \notin {"ok", "rollbackFailed"}) =>
       /\ pool'.orphans = pool.orphans
       /\ TrackedOnce(last'.key) =>
            \A p \in Profiles :
              /\ pool'.ifaces[p].peers = pool.ifaces[p].peers
              /\ pool.ifaces[p].peers # {} => pool'.ifaces[p].port = pool.ifaces[p].port]_vars

\* Success means service: after AddPeer or a migration to another profile
\* returns nil the peer is reachable through the new profile, on the requested
\* port, and is no longer on the profile it left.
SuccessServes ==
  [][(last'.op \in {"AddPeer", "MigratePeer"} /\ last'.err = "ok"
        /\ (last'.op = "MigratePeer" => last'.from # last'.to)) =>
       /\ Served(pool', last'.to, last'.key)
       /\ last'.req # 0 => pool'.ifaces[last'.to].port = last'.req
       /\ last'.op = "MigratePeer" => ~HasPeer(pool', last'.from, last'.key)]_vars
=============================================================================
