------------------------------ MODULE Manager ------------------------------
(***************************************************************************)
(* The client manager of internal/clients/manager.go over the client store *)
(* of storage.go, the LAN firewall of internal/awg/firewall.go and the     *)
(* interface pool (PoolOps), from process start to shutdown, crash and     *)
(* reboot.  Every call that mutates holds m.mu throughout, so a call is    *)
(* one step whose operator returns all outcomes its parts can lead to; the *)
(* restore at start-up is one step per peer.                               *)
(***************************************************************************)
EXTENDS PoolOps, Sequences

CONSTANTS
  IDs,            \* client IDs; the default LAN group of a client is its ID
  Groups,         \* LAN group IDs a caller may choose, "" for the default
  Variants,       \* server-side obfuscation parameter sets
  DefaultVariant, \* the one the server defaults give
  V31Variants,    \* the variants that protocol 2.0 rejects
  Overrides,      \* awg_params of a request: a variant, or Inherit
  Requests,       \* requested ports, 0 for an automatic one
  Extras,         \* client-only settings (routing, DNS, MTU, keepalive)
  HeaderKeys,     \* header protection keys, named by their IDs
  DefaultKey,     \* DefaultHeaderKeyID
  ServerIP,       \* host number of the server in the VPN network
  Broadcast,      \* host number of the broadcast address; the network is 0
  InitDisks,      \* what clients.json holds before the first start
  Crashes,        \* whether the process may die without closing the pool
  MaxIndex,       \* bound: interfaces created by one process
  MaxRules        \* bound: MASQUERADE rules left behind by earlier processes

Versions == {"2.0", "3.1"}
Inherit == "inherit"
NoKey == ""

\* What effectiveProfileForData makes of a client: the interface identity.
AllProfiles == [ver: {"2.0"}, var: Variants, hk: {NoKey}]
                 \cup [ver: {"3.1"}, var: Variants, hk: HeaderKeys]

ASSUME ProfileAssumption == Profiles = AllProfiles
ASSUME AddressAssumption ==
  /\ ServerIP \in Nat /\ Broadcast \in Nat
  /\ Addrs = {a \in 1..(Broadcast - 1) : a # ServerIP}
ASSUME KeyAssumption == DefaultKey \in HeaderKeys /\ DefaultVariant \in Variants
ASSUME InputAssumption == Requests \subseteq Nat /\ Overrides \subseteq Variants \cup {Inherit}

(***************************************************************************)
(* State.                                                                  *)
(***************************************************************************)
Clients == [id: IDs, ver: Versions \cup {""}, key: Keys, addr: Addrs,
            group: IDs \cup Groups \cup {""}, var: Variants \cup {Inherit}, port: Nat,
            extra: Extras, hk: HeaderKeys \cup {NoKey}]

\* StorageData; keys = {} is a file without the AWG 3.1 section.
Stored(cs, keys) == [clients |-> cs, keys |-> keys]
ClientsOf(d) == {d.clients[i] : i \in DOMAIN d.clients}

Files == [clients: Seq(Clients), keys: SUBSET HeaderKeys]

\* The header keys of a file with a 3.1 section: the default and the referenced.
KeysExact(d) ==
  d.keys # {} => d.keys = {DefaultKey} \cup {c.hk : c \in {x \in ClientsOf(d) : x.ver = "3.1"}}

\* Only this server and its older releases write clients.json.
ASSUME FileAssumption == \A d \in InitDisks : d \in Files /\ KeysExact(d)

VARIABLES
  m,      \* the process and the host: see NewProcess
  last,   \* the last call and its result
  dirty   \* a rollback failed since the last start

vars == <<m, last, dirty>>

\* An outcome [st, err] of a pool operation as one of the manager.
OnPool(s, outcomes) == {Outcome([s EXCEPT !.pool = o.st], o.err) : o \in outcomes}

\* A step outside the pool that may fail like a host command.
Attempt(s, effect, err) ==
  {Done(effect)} \cup {x \in {Outcome([s EXCEPT !.pool = Faulted(@)], err)} :
                         s.pool.faults < MaxFaults}

\* Storage.Save: the file is replaced by a rename, or not at all.
Save(s, d) == Attempt(s, [s EXCEPT !.disk = d], "save")

(***************************************************************************)
(* LAN firewall.  lan is the set of address pairs that may talk; without   *)
(* the AWG-LAN chain that is all of them.                                  *)
(***************************************************************************)
Open == Addrs \X Addrs

lanPairs(cs) ==
  {<<x[1].addr, x[2].addr>> : x \in {y \in cs \X cs : y[1].group = y[2].group}}

\* iptables-restore replaces the whole chain or nothing; renderLANFirewall
\* refuses an address that appears twice.  No peers: a chain that only drops.
ApplyLANIsolation(s, cs, err) ==
  IF \E c, e \in cs : c # e /\ c.addr = e.addr
    THEN {Outcome(s, err)}
    ELSE Attempt(s, [s EXCEPT !.lan = lanPairs(cs)], err)

\* Mutant of blockLAN: the LAN stays as it is.
blockLANSkipped(s) == {Done(s)}

blockLAN(s) == ApplyLANIsolation(s, {}, "blockLAN")

rebuildLAN(s) == ApplyLANIsolation(s, ClientsOf(s.data), "rebuildLAN")

(***************************************************************************)
(* Profiles and header keys.                                               *)
(***************************************************************************)
\* NormalizeOverridesForVersion
compatible(ver, var) == ver = "2.0" => var \notin V31Variants

effectiveProfile(c) ==
  [ver |-> c.ver,
   var |-> IF c.var = Inherit THEN DefaultVariant ELSE c.var,
   hk  |-> IF c.ver = "3.1" THEN c.hk ELSE NoKey]

\* resolveHeaderProtectionKey: a 3.1 client needs a stored key.
hasHeaderKey(d, c) == c.ver = "3.1" => c.hk \in d.keys

\* Mutant of markAndSweepHeaderKeys: marks and never sweeps.
markHeaderKeysOnly(d) == d

markAndSweepHeaderKeys(d) ==
  LET referenced == {c.hk : c \in {x \in ClientsOf(d) : x.ver = "3.1"}}
  IN [d EXCEPT !.keys = {h \in @ : h = DefaultKey \/ h \in referenced}]

(***************************************************************************)
(* The API calls on the manager.                                           *)
(***************************************************************************)
ClientIDs(s) == {c.id : c \in s.clients}
ClientOf(s, id) == CHOOSE c \in s.clients : c.id = id

\* The lowest free host number from 2 on; none when the network is full.
allocateIP(s) ==
  LET free == {a \in 2..(Broadcast - 1) : a # ServerIP /\ a \notin s.usedIPs}
  IN {a \in free : \A b \in free : a <= b}

\* Mutant of persistenceFailure: the rollback error is dropped.
persistenceFailureSaveOnly(outcomes) == {Outcome(o.st, "save") : o \in outcomes}

\* The error of a save whose device rollback had these outcomes.
persistenceFailure(outcomes) ==
  {Outcome(o.st, IF o.err = "ok" THEN "save" ELSE "saveRollback") : o \in outcomes}

\* Mutant of commitClient: the prospective data does not become m.data.
commitClientMapOnly(s, c, d) ==
  [s EXCEPT !.clients = {x \in @ : x.id # c.id} \cup {c}, !.usedIPs = @ \cup {c.addr}]

commitClient(s, c, d) ==
  [s EXCEPT !.clients = {x \in @ : x.id # c.id} \cup {c},
            !.usedIPs = @ \cup {c.addr},
            !.data = d]

\* The data with c appended, and with c in place of the record of its ID.
withClient(d, c) == [d EXCEPT !.clients = Append(@, c)]
withUpdated(d, c) ==
  [d EXCEPT !.clients = [i \in DOMAIN @ |-> IF @[i].id = c.id THEN c ELSE @[i]]]

\* The data with the records of ids in one group.
inGroup(c, ids, group) == IF c.id \in ids THEN [c EXCEPT !.group = group] ELSE c
withGroup(d, ids, group) ==
  [d EXCEPT !.clients = [i \in DOMAIN @ |-> inGroup(@[i], ids, group)]]

\* The data without the first record of the ID.
withoutClient(d, id) ==
  LET i == CHOOSE j \in DOMAIN d.clients :
             /\ d.clients[j].id = id
             /\ \A l \in DOMAIN d.clients : l < j => d.clients[l].id # id
  IN [d EXCEPT !.clients = SubSeq(@, 1, i - 1) \o SubSeq(@, i + 1, Len(@))]

\* Mutant of stageCreate: committed before it is saved.
stageCreateCommitsFirst(s, c) ==
  LET d == markAndSweepHeaderKeys(withClient(s.data, c))
      p == effectiveProfile(c)
  IN Then(blockLAN(s),
     LAMBDA t : Then(OnPool(commitClient(t, c, d), AddPeer(t.pool, p, c.port, c.key, c.addr)),
     LAMBDA u : Then(Catch(Save(u, d),
                           LAMBDA o : persistenceFailure(
                             OnPool(o.st, RemovePeer(o.st.pool, p, c.key, c.addr)))),
                     rebuildLAN)))

\* Block the LAN, add the peer, save, commit, rebuild the LAN.
stageCreate(s, c) ==
  LET d == markAndSweepHeaderKeys(withClient(s.data, c))
      p == effectiveProfile(c)
  IN Then(blockLAN(s),
     LAMBDA t : Then(OnPool(t, AddPeer(t.pool, p, c.port, c.key, c.addr)),
     LAMBDA u : Then(Catch(Save(u, d),
                           LAMBDA o : persistenceFailure(
                             OnPool(o.st, RemovePeer(o.st.pool, p, c.key, c.addr)))),
     LAMBDA v : rebuildLAN(commitClient(v, c, d)))))

\* r: the requested [id, ver, var, port, group, extra]; key: a new key.
CreateClient(s, r, key) ==
  IF r.id \in ClientIDs(s) THEN {Outcome(s, "exists")}
  ELSE IF ~compatible(r.ver, r.var) THEN {Outcome(s, "invalid")}
  ELSE IF r.ver = "3.1" /\ DefaultKey \notin s.data.keys THEN {Outcome(s, "headerKey")}
  ELSE IF allocateIP(s) = {} THEN {Outcome(s, "noAddress")}
  ELSE UNION {stageCreate(s, [id |-> r.id, ver |-> r.ver, key |-> key, addr |-> a,
                              group |-> IF r.group = "" THEN r.id ELSE r.group,
                              var |-> r.var, port |-> r.port, extra |-> r.extra,
                              hk |-> IF r.ver = "3.1" THEN DefaultKey ELSE NoKey]) :
                a \in allocateIP(s)}

\* The guarded transaction of an update that changes the interface.
migrateClient(s, c, next, d) ==
  LET p == effectiveProfile(c)
      q == effectiveProfile(next)
      oldPort == s.pool.ifaces[p].port
  IN IF p \notin Tracked(s.pool) THEN {Outcome(s, "refused")}
     ELSE Then(OnPool(s, MigratePeer(s.pool, p, c.port, q, next.port, c.key, c.addr)),
          LAMBDA u : Then(Catch(Save(u, d),
                                LAMBDA o : persistenceFailure(
                                  OnPool(o.st, MigratePeer(o.st.pool, q, next.port, p, oldPort,
                                                           c.key, c.addr)))),
          LAMBDA v : {Done(commitClient(v, next, d))}))

\* newKeys: the header key a regeneration adds, if any.  The guard of the
\* migration is a usage snapshot that must succeed.
applyClientUpdate(s, c, next, newKeys) ==
  LET d == markAndSweepHeaderKeys(withUpdated([s.data EXCEPT !.keys = @ \cup newKeys], next))
  IN IF ~hasHeaderKey(s.data, c) \/ ~hasHeaderKey(d, next) THEN {Outcome(s, "headerKey")}
     ELSE IF effectiveProfile(c) = effectiveProfile(next) /\ c.port = next.port
       THEN Then(Save(s, d), LAMBDA t : {Done(commitClient(t, next, d))})
       ELSE Then(Attempt(s, s, "snapshot"), LAMBDA t : migrateClient(t, c, next, d))

\* Mutant of headerKeyID: a client that goes back to 2.0 keeps its key.
headerKeyIDSticky(c, ver, reset) ==
  IF ver = "3.1" /\ (ver # c.ver \/ reset) THEN DefaultKey ELSE c.hk

\* The header key of a client that is updated to ver.
headerKeyID(c, ver, reset) ==
  IF ver = "2.0" THEN NoKey
  ELSE IF ver # c.ver \/ reset THEN DefaultKey ELSE c.hk

\* r: [id, ver, extra, params], params a replacement [kind, var, port], the
\* reset to the defaults by null, or the stored ones.
UpdateClient(s, r) ==
  LET c == ClientOf(s, r.id)
      reset == r.params.kind = "reset"
      var == IF reset THEN Inherit ELSE IF r.params.kind = "keep" THEN c.var ELSE r.params.var
      port == IF reset THEN 0 ELSE IF r.params.kind = "keep" THEN c.port ELSE r.params.port
  IN IF r.id \notin ClientIDs(s) THEN {Outcome(s, "notFound")}
     ELSE IF ~compatible(r.ver, var) THEN {Outcome(s, "invalid")}
     ELSE applyClientUpdate(s, c, [c EXCEPT !.ver = r.ver, !.var = var, !.port = port,
                                            !.extra = r.extra,
                                            !.hk = headerKeyID(c, r.ver, reset)], {})

\* A 2.0 client gets a variant of another profile, a 3.1 client a generated
\* variant and a header key whose ID is new.
RegenerateAWGParams(s, id, var, hk) ==
  LET c == ClientOf(s, id)
      next == [c EXCEPT !.var = var, !.hk = IF c.ver = "3.1" THEN hk ELSE @]
  IN IF id \notin ClientIDs(s) THEN {Outcome(s, "notFound")}
     ELSE IF c.ver = "2.0" /\ effectiveProfile(next) = effectiveProfile(c)
       THEN {Outcome(s, "unchanged")}
       ELSE applyClientUpdate(s, c, next, IF c.ver = "3.1" THEN {hk} ELSE {})

UpdateLANGroup(s, ids, group) ==
  LET d == withGroup(s.data, ids, group)
  IN IF ~(ids \subseteq ClientIDs(s)) THEN {Outcome(s, "notFound")}
     ELSE Then(blockLAN(s),
          LAMBDA t : Then(Save(t, d),
          LAMBDA u : rebuildLAN([u EXCEPT !.data = d,
                                          !.clients = {c \in @ : c.id \notin ids}
                                            \cup {c \in ClientsOf(d) : c.id \in ids}])))

DeleteClient(s, id) ==
  LET c == ClientOf(s, id)
      p == effectiveProfile(c)
      currentPort == s.pool.ifaces[p].port
      d == markAndSweepHeaderKeys(withoutClient(s.data, id))
  IN IF id \notin ClientIDs(s) THEN {Outcome(s, "notFound")}
     ELSE IF ~hasHeaderKey(s.data, c) THEN {Outcome(s, "headerKey")}
     ELSE IF p \notin Tracked(s.pool) THEN {Outcome(s, "refused")}
     ELSE Then(blockLAN(s),
          LAMBDA t : Then(OnPool(t, RemovePeer(t.pool, p, c.key, c.addr)),
          LAMBDA u : Then(Catch(Save(u, d),
                                LAMBDA o : persistenceFailure(
                                  OnPool(o.st, AddPeer(o.st.pool, p, currentPort, c.key, c.addr)))),
          LAMBDA v : rebuildLAN([v EXCEPT !.usedIPs = @ \ {c.addr},
                                          !.clients = @ \ {c},
                                          !.data = d]))))

(***************************************************************************)
(* Start, restore and stop.                                                *)
(***************************************************************************)
\* Mutant of resolveRestorePort: a requested port is taken as it is.
resolveRestorePortUnchecked(req, used) ==
  LET free == (ListenPort..MaxPort) \ used
  IN IF req # 0 THEN {req} ELSE {q \in free : \A r \in free : q <= r}

\* The lowest port from ListenPort on that no restored profile has, or the
\* requested one; none when there is no such port.
resolveRestorePort(req, used) ==
  LET free == (ListenPort..MaxPort) \ used
  IN IF req # 0 THEN {req} \ used ELSE {q \in free : \A r \in free : q <= r}

\* The port of each profile after the first i records, 0 for none; the empty
\* set when the records conflict.
restorePorts(cs) ==
  LET ports[i \in 0..Len(cs)] ==
        IF i = 0 THEN {[q \in Profiles |-> 0]}
        ELSE LET p == effectiveProfile(cs[i])
                 next(f) ==
                   LET taken == {q \in Profiles : f[q] # 0}
                   IN IF f[p] # 0 THEN {g \in {f} : cs[i].port \in {0, f[p]}}
                      ELSE IF MaxInterfaces > 0 /\ Cardinality(taken) >= MaxInterfaces THEN {}
                      ELSE {[f EXCEPT ![p] = port] :
                              port \in resolveRestorePort(cs[i].port, {f[q] : q \in taken})}
             IN UNION {next(f) : f \in ports[i - 1]}
  IN ports[Len(cs)]

validateRestoreInterfaces(cs) == restorePorts(cs) # {}

\* A record without a version is 2.0, one without a group gets its own.
normalizeClient(c) ==
  [c EXCEPT !.ver = IF @ = "" THEN "2.0" ELSE @,
            !.group = IF @ = "" THEN c.id ELSE @]

\* The file as PrepareRestorePlan completes it.
restoreData(d) ==
  Stored([i \in DOMAIN d.clients |-> normalizeClient(d.clients[i])],
         IF d.keys = {} THEN {DefaultKey} ELSE d.keys)

needsNormalization(d) ==
  d.keys = {} \/ \E c \in ClientsOf(d) : c.ver = "" \/ c.group = ""

\* PrepareRestorePlan accepts the file.
ValidPlan(d) ==
  LET e == restoreData(d)
  IN /\ d.keys = {} => \A c \in ClientsOf(d) : c.ver # "3.1"
     /\ DefaultKey \in e.keys
     /\ \A i, j \in DOMAIN e.clients :
          i # j => /\ e.clients[i].id # e.clients[j].id
                   /\ e.clients[i].addr # e.clients[j].addr
                   /\ e.clients[i].key # e.clients[j].key
     /\ \A c \in ClientsOf(e) : /\ c.addr \in Addrs
                                /\ compatible(c.ver, c.var)
                                /\ c.ver = "2.0" => c.hk = NoKey
                                /\ hasHeaderKey(e, c)
     /\ validateRestoreInterfaces(e.clients)

\* What is left on the host when the process ends: a new Pool knows none of it.
Residue(pool) ==
  [EmptyPool EXCEPT !.links = pool.links, !.listen = pool.listen, !.kpeers = pool.kpeers,
                    !.routes = pool.routes, !.masq = pool.masq, !.faults = pool.faults]

NoData == Stored(<<>>, {})

\* The host, its probe interfaces too, and the file; a process that has restored
\* nothing.
NewProcess(phase, pool, lan, disk, probes) ==
  [phase |-> phase, pool |-> pool, lan |-> lan, disk |-> disk, probes |-> probes,
   data |-> NoData, todo |-> <<>>, clients |-> {}, usedIPs |-> {}]

Exited(s) == NewProcess("down", Residue(s.pool), s.lan, s.disk, s.probes)

\* Mutant of closeAndExit: the pool is not closed.
closeAndExitLeavesPool(s, err) == {Outcome(Exited(s), err)}

\* pool.Close() and the end of the process, with the error err.
closeAndExit(s, err) == {Outcome(Exited([s EXCEPT !.pool = o.st]), err) : o \in Close(s.pool)}

\* The error of a cleanup that failed joins the one it came after.
joined(err) == IF err = "ok" THEN "cleanup" ELSE "runtimeCleanup"

\* The probe interface is deleted after err; there: whether it exists.
deleteProbe(s, there, err) ==
  IF ~there THEN {Outcome(s, joined(err))}
  ELSE {IF o.err = "ok" THEN Outcome(o.st, err) ELSE Outcome(o.st, joined(err)) :
          o \in Attempt(s, [s EXCEPT !.probes = @ - 1], "delete")}

\* Mutant of deleteRuntimeProbeInterface: it has what is left of the probe's time.
deleteRuntimeProbeInterfaceInTime(s, there, err) ==
  deleteProbe(s, there, err)
    \cup {o \in {Outcome(s, joined(err))} : err # "ok"}

\* The cleanup has a time limit of its own.
deleteRuntimeProbeInterface(s, there, err) == deleteProbe(s, there, err)

\* setconf, up and showconf, one of which fails, is killed by the timeout or
\* reads back another configuration; then the deferred cleanup.
probeCreatedRuntimeInterface(s) ==
  UNION {deleteRuntimeProbeInterface(o.st, TRUE, o.err) : o \in Attempt(s, s, "runtime")}

\* ip link add succeeds, or is refused, also for every random name that is tried;
\* when the timeout kills it nobody knows whether the interface exists.
probeRuntime(s) ==
  LET created(t) == [t EXCEPT !.probes = @ + 1]
      killed == {[s EXCEPT !.pool = Faulted(@)] : x \in {y \in {s} : s.pool.faults < MaxFaults}}
  IN Then(Attempt(s, created(s), "runtime"), probeCreatedRuntimeInterface)
       \cup UNION {deleteRuntimeProbeInterface(t, FALSE, "runtime")
                     \cup deleteRuntimeProbeInterface(created(t), TRUE, "runtime") : t \in killed}

\* The versions of the packages and tools, then the probe of the kernel module on
\* an interface with a random name.
checkRuntime(s) == Then(Attempt(s, s, "runtime"), probeRuntime)

\* runApplication up to NewPool, which installs the DROP-only chain first.
start(s) ==
  IF ~ValidPlan(s.disk) THEN {Outcome(s, "plan")}
  ELSE Then(checkRuntime(s),
            LAMBDA t : {IF o.err = "ok"
                          THEN Done([o.st EXCEPT !.phase = "restoring",
                                                 !.data = restoreData(s.disk),
                                                 !.todo = restoreData(s.disk).clients])
                          ELSE o : o \in blockLAN(t)})

\* NewManagerFromRestorePlan, one entry after the other; any error closes the
\* pool.
restorePeer(s) ==
  LET c == Head(s.todo)
  IN Then(Catch(OnPool(s, AddPeer(s.pool, effectiveProfile(c), c.port, c.key, c.addr)),
                LAMBDA o : closeAndExit(o.st, o.err)),
          LAMBDA t : {Done([t EXCEPT !.todo = Tail(@)])})

finishRestore(s) ==
  Then(Catch(Then(rebuildLAN(s),
                  LAMBDA t : IF needsNormalization(t.disk) THEN Save(t, t.data) ELSE {Done(t)}),
             LAMBDA o : closeAndExit(o.st, o.err)),
       LAMBDA t : {Done([t EXCEPT !.phase = "up", !.clients = ClientsOf(t.data),
                                  !.usedIPs = {c.addr : c \in ClientsOf(t.data)}])})

-----------------------------------------------------------------------------
(***************************************************************************)
(* The specification.                                                      *)
(***************************************************************************)
Init ==
  /\ \E d \in InitDisks : m = NewProcess("down", EmptyPool, Open, d, 0)
  /\ last = [op |-> "none", err |-> "ok"]
  /\ dirty = FALSE

\* Every call counts its own failed commands.
Fresh == [m EXCEPT !.pool.faults = 0]

Return(op, outcomes) ==
  \E o \in outcomes :
    /\ m' = o.st
    /\ last' = [op |-> op, err |-> o.err]
    /\ dirty' = (o.st.phase = "up" /\ (dirty \/ o.err \in {"rollbackFailed", "saveRollback"}))

Serving == m.phase = "up" /\ m.pool.nextIndex <= MaxIndex

\* A key that is in no store and on no interface.
NewKeys ==
  Keys \ ({c.key : c \in ClientsOf(m.disk)} \cup {x[2] : x \in m.pool.kpeers}
            \cup UNION {m.pool.ifaces[p].peers : p \in Profiles})

NewHeaderKeys ==
  HeaderKeys \ (m.data.keys \cup {p.hk : p \in Tracked(m.pool)})

Create ==
  /\ Serving
  /\ \E id \in IDs, ver \in Versions, var \in Overrides, port \in Requests,
        group \in Groups, extra \in Extras, key \in NewKeys :
       Return("create", CreateClient(Fresh, [id |-> id, ver |-> ver, var |-> var, port |-> port,
                                             group |-> group, extra |-> extra], key))

Replacements == [kind: {"keep", "reset"}] \cup [kind: {"set"}, var: Overrides, port: Requests]

Update ==
  /\ Serving
  /\ \E id \in IDs, ver \in Versions, extra \in Extras, params \in Replacements :
       Return("update", UpdateClient(Fresh, [id |-> id, ver |-> ver, extra |-> extra,
                                             params |-> params]))

Regenerate ==
  /\ Serving
  /\ \E id \in IDs, var \in Variants, hk \in NewHeaderKeys :
       \* H and S values are generated, 3.1-only overrides stay.
       /\ (var \in V31Variants) = (\E c \in m.clients : c.id = id /\ c.var \in V31Variants)
       /\ Return("regenerate", RegenerateAWGParams(Fresh, id, var, hk))

Group ==
  /\ Serving
  /\ \E ids \in (SUBSET IDs) \ {{}}, group \in Groups \ {""} :
       Return("group", UpdateLANGroup(Fresh, ids, group))

Delete == Serving /\ \E id \in IDs : Return("delete", DeleteClient(Fresh, id))

Start == m.phase = "down" /\ m.pool.masq <= MaxRules /\ Return("start", start(Fresh))

RestorePeer == m.phase = "restoring" /\ m.todo # <<>> /\ Return("restore", restorePeer(Fresh))

FinishRestore == m.phase = "restoring" /\ m.todo = <<>> /\ Return("restore", finishRestore(Fresh))

\* A signal, or the end of the HTTP server, which ends the process with an error.
Shutdown ==
  /\ m.phase = "up"
  /\ \E cause \in {"shutdown", "serverError"} : Return(cause, closeAndExit(Fresh, "ok"))

\* The process dies; interfaces, routes and rules stay on the host.
Crash ==
  /\ Crashes /\ m.phase # "down" /\ m.pool.masq <= MaxRules
  /\ Return("crash", {Done(Exited(Fresh))})

\* The host restarts with nothing but the file.
Reboot == Return("reboot", {Done(NewProcess("down", EmptyPool, Open, m.disk, 0))})

Next == \/ Create \/ Update \/ Regenerate \/ Group \/ Delete
        \/ Start \/ RestorePeer \/ FinishRestore \/ Shutdown \/ Crash \/ Reboot

Spec == Init /\ [][Next]_vars

\* The unit is started at boot and restarted on failure, not after a signal; a
\* process that has started restores entry after entry on its own.
FairSpec ==
  /\ Spec
  /\ WF_vars(Start /\ last.op # "shutdown")
  /\ WF_vars(RestorePeer)
  /\ WF_vars(FinishRestore)
-----------------------------------------------------------------------------
(***************************************************************************)
(* Invariants.                                                             *)
(***************************************************************************)
\* A running manager, its prospective-data copy and clients.json never drift
\* apart, whatever call failed at whatever point: the map of clients, the list
\* it would save next and the file hold the same records, usedIPs their
\* addresses, and no two of them share an ID, a key or an address.
MemoryMatchesDisk ==
  m.phase = "up" =>
    /\ m.data = m.disk
    /\ m.clients = ClientsOf(m.disk)
    /\ m.usedIPs = {c.addr : c \in m.clients}
    /\ \A i, j \in DOMAIN m.disk.clients :
         LET c == m.disk.clients[i]
             e == m.disk.clients[j]
         IN i # j => c.id # e.id /\ c.key # e.key /\ c.addr # e.addr

\* As long as no rollback failed since the start, the pool tracks exactly the
\* keys of the clients, each on the profile of its stored record.
PoolMatchesClients ==
  (m.phase = "up" /\ ~dirty) =>
    \A p \in Profiles :
      m.pool.ifaces[p].peers = {c.key : c \in {x \in m.clients : effectiveProfile(x) = p}}

\* The LAN fails closed: while a peer is live, in a restore and after a crash
\* too, two addresses may talk only if the file puts them in one group.
LanFailsClosed ==
  m.pool.kpeers # {} =>
    m.lan \subseteq lanPairs({normalizeClient(c) : c \in ClientsOf(m.disk)})

\* The file holds the default header key and every key a client refers to, and
\* no other, once it has a 3.1 section.
HeaderKeysExact == KeysExact(m.disk)

\* When no command fails and no process dies, every client in the file is served
\* by a running server, on one listening interface of its profile, and the host
\* holds nothing else: no orphan, no empty interface, no route without a client.
\* Exactly the clients of one group may talk, or nobody may: a call the pool
\* refused leaves the LAN closed until the next rebuild.
ServedExactly ==
  (MaxFaults = 0 /\ ~Crashes /\ m.phase = "up") =>
    LET name(c) == m.pool.ifaces[effectiveProfile(c)].name
        port(c) == m.pool.ifaces[effectiveProfile(c)].port
        cs == ClientsOf(m.disk)
    IN /\ m.pool.links = {name(c) : c \in cs}
       /\ m.pool.listen = {<<name(c), port(c)>> : c \in cs}
       /\ m.pool.kpeers = {<<name(c), c.key>> : c \in cs}
       /\ m.pool.routes = [a \in Addrs |->
                             IF \E c \in cs : c.addr = a
                               THEN name(CHOOSE c \in cs : c.addr = a) ELSE NoName]
       /\ \A c \in cs : c.port \in {0, port(c)}
       /\ m.lan \in {{}, lanPairs(cs)}

(***************************************************************************)
(* Action properties.                                                      *)
(***************************************************************************)
Calls == {"create", "update", "regenerate", "group", "delete"}

\* What PrepareRestorePlan accepts the pool does not refuse: a restore on a
\* host where no command fails ends with the server up.
PlanHolds ==
  [][(last'.op = "restore" /\ last'.err # "ok") => m'.pool.faults > 0]_vars

\* A start that fails or times out anywhere leaves no probe interface behind,
\* unless the command that deletes it failed as well, and then it says so.
ProbeRemoved ==
  [][m'.probes > m.probes =>
       \/ last'.err = "cleanup"
       \/ last'.err = "runtimeCleanup" /\ m'.pool.faults > 1]_vars

\* MASQUERADE rules that no process knows of.
RulesLeft(s) == s.pool.masq - (IF s.pool.masqAdded THEN 1 ELSE 0)

\* Only a process that dies, or one whose commands fail while it stops, leaves a
\* MASQUERADE rule behind; however often the server is restarted otherwise, the
\* rules do not pile up.
RulesDoNotPileUp ==
  [][RulesLeft(m') > RulesLeft(m) => last'.op = "crash" \/ m'.pool.faults > 0]_vars

\* Whatever Save has committed can be restored.
SavedStateRestores == [][last'.op = "start" => last'.err # "plan"]_vars

(***************************************************************************)
(* Liveness.                                                               *)
(***************************************************************************)
\* A service that was not stopped comes up again, unless the host or the
\* process keeps dying.
ServiceComesUp ==
  \/ []<>(last.op \in {"reboot", "crash"})
  \/ (m.phase = "down" /\ last.op # "shutdown") ~> (m.phase = "up" \/ last.op = "shutdown")

(***************************************************************************)
(* Refinement.  A running server answers from its memory, one that is down *)
(* keeps what the file says; then the LAN matters while a peer is live.    *)
(***************************************************************************)
Store == INSTANCE ClientStore WITH
  Records <- [id: IDs, ver: Versions, key: Keys, addr: Addrs, group: IDs \cup (Groups \ {""}),
              var: Variants \cup {Inherit}, port: Nat, extra: Extras,
              hk: HeaderKeys \cup {NoKey}],
  clients <- IF m.phase = "up" THEN m.clients
             ELSE {normalizeClient(c) : c \in ClientsOf(m.disk)},
  talk <- IF m.phase = "down" /\ m.pool.kpeers = {} THEN {} ELSE m.lan,
  reply <- IF last.op \notin Calls THEN [op |-> "none", res |-> "ok"]
           ELSE [op |-> last.op,
                 res |-> IF last.err = "ok" THEN "ok"
                         ELSE IF last.err = "rebuildLAN" THEN "committed" ELSE "error"]

\* Callers see an atomic and durable store: whatever command or save failed in a
\* call and wherever the process died between calls, a call had its whole effect
\* or none, no answer lies about it, and no restart loses or changes a record.
ImplementsStore == Store!StoreSpec
=============================================================================
