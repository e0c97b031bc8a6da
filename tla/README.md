# awg-server: TLA+ models, checks and proofs

awg-server manages AmneziaWG VPN clients on one Linux host: an HTTP API changes
a set of clients, which are kept in a JSON file, as peers of kernel interfaces,
as routes and as firewall rules. The state lives in four places that no
transaction spans, every step of which can fail, and a background collector
reads the kernel at the same time. Most of the models are about keeping these
places in agreement; the others are about what a client may set (parameters and
routing) and about the command that replaces the binary.

## The system

| Component | State | Operations | Modelled in |
|---|---|---|---|
| Interface pool, `internal/awg/pool.go`, `device.go` | interfaces per profile with port, peer count and peers; orphan interfaces; used ports; next index; masquerade flag; behind them links, sockets, peers, routes, NAT rules of the kernel | AddPeer, RemovePeer, MigratePeer, Close | `PoolOps`, `Pool`, `PoolEffects`, `PoolProofs`, `PoolService` |
| Client manager, `internal/clients/manager.go` | client map, used addresses, the data to save next | create, update, regenerate, LAN group, delete; restore plan and restore | `Manager`, which implements `ClientStore` (`ManagerProofs`, `ManagerService`); parameters in `Params` |
| Client storage, `internal/clients/storage.go` | `clients.json` | Load, Save (temporary file and rename), completion of older files | `Manager` (`disk`) |
| LAN firewall, `internal/awg/firewall.go` | the chain AWG-LAN | ApplyLANIsolation | `Manager` (`lan`) |
| Usage collector, `internal/usage/collector.go` | totals and last readings per key, `usage.json` | Collect, WithRequiredSnapshot, RemoveStats, Save, load | `Usage`, `UsageProofs` |
| Start and stop, `main.go` | phases of the process | plan, runtime check, restore, serve, final collection, close; the update command | `Manager`, `Usage`, `Updater` |
| HTTP API, `internal/api` | none of its own | one handler per call | `Manager`, `Usage` (the calls the handlers make) |
| Parameters, validation, profiles, DNS, `internal/awg`, `internal/config/range.go` | overrides per client, generated defaults | normalise, validate, generate, combine, identify | `Params`, `SettingsProofs` (a variant in `Manager`) |
| Client routing, `internal/clients/routing*.go` | a policy per client | normalise, compute AllowedIPs | `Routing`, `SettingsProofs` |
| Configuration, `internal/config/config.go` | environment variables | Load | `Params` (the constant `Envs`) |
| Runtime qualification, `internal/awg/runtime.go` | a probe interface | checkRuntime | `Manager` (`checkRuntime`, `probeRuntime`) |
| Updater, `internal/update` | the binary, a lock file, a temporary file | Check, Apply | `Updater`, `UpdaterProofs` |
| Installer, `scripts/install.sh` | packages, binary, unit, environment file | install with rollback | only its copy of the binary, in `Updater` |
| Key generation, release scripts | none at run time | | model values, not modelled |

How they interact. A handler calls the manager, which holds its mutex for the
whole call and calls the firewall, the pool (which holds its own mutex) and
`Storage.Save` in this order: close the LAN, change the device, save, commit in
memory, open the LAN again. `Save` is the commit point: an error before it is
rolled back on the device. An update that moves a peer to another interface
runs inside `Collector.WithRequiredSnapshot`, so that the counters are read
before the kernel peer goes. The collector goroutine dumps the interfaces every
minute under its guard `collectMu`, without the manager's mutex. At start the
saved clients are checked as a whole (the restore plan), then added one by one.

What is hard here: failures inside rollbacks; the accounting of what a failed
rollback leaves; ports and the interface limit while an interface is torn down
and recreated; the order of firewall and client changes; what a crash leaves on
the host; two copies of one decision (the restore plan and the pool);
collections in flight across migrations and deletions; counters that restart
from zero; settings that are valid alone and not together with defaults the
request does not show; forms of one value that must not become two after a
restart; address ranges that end at the last address; two updates and an
installer that replace the same file. `PROJECT.json` lists these hazards with their lines.

## Modules

### PoolOps and Pool

`PoolOps` translates `pool.go` and `device.go` function by function, under the
same names. As every public method holds `p.mu`, a method is one atomic step; but
its inside is sequential code over commands each of which may fail, and that
inside is what matters. So every function is an operator from a state to the
*set of outcomes* `[st, err]`; `Then` continues after success, `Catch` handles an
error, `Command` gives a command its two outcomes (a failed one changes nothing
and is counted in `faults`, at most `MaxFaults` per call). The error classes are
those a caller can tell apart: a plain error, an error that wraps
`ErrRollbackFailed`, the sentinels, and anonymous refusals.

The kernel is part of the state: links, listening sockets, live peers, one route
per client address, the number of masquerade rules. Commands have the
preconditions the kernel imposes (`ip link add` on an existing name, `ip route
del` of a route that leads elsewhere, `ip link set up` on a taken port). A device
removal takes its peers, socket and routes along.

`Pool` makes a state machine of the four methods with any arguments; `last`
records the call and its result. Its caller adds only keys that are tracked
nowhere or that it has just removed (`Addable`), which is how the manager calls
it.

Abstractions: preshared keys, private keys, addresses of the server and texts
of errors are left out; a profile is an opaque value. One branch of
`MigratePeer`, for a shared interface that becomes empty, is unreachable and left
out.

### Manager

The state `m` is the process (phase, pool, client map, used addresses, data to
save, entries still to restore) and the host (kernel part of the pool, LAN rules,
`clients.json`). A call is one step, built with the same outcome operators on
top of `PoolOps`. The restore at start is one step per peer, so that a crash may
fall between them. A client record keeps what decides its interface and its
firewall rules: version, parameter variant or inheritance, requested port,
header key, group, address; routing, DNS and MTU are one value, `extra`. A profile is
version, variant and header key, as in `canonicalProfileKey`. Some variants
exist only in protocol 3.1 and make a change to 2.0 fail. The LAN state is the
set of address pairs that may talk. `Crash` leaves the kernel state of the host
(`Residue`), `Reboot` only the file. The usage snapshot of a migration is a step
that may fail; its inside is `Usage`.

A start includes the qualification of the runtime: `probeRuntime` creates an
interface with a random name, configures it and deletes it, and a timeout may
kill any command, `ip link add` too, after which nobody knows whether the
interface exists. `probes` counts the probe interfaces on the host. A death of
the process inside the probe is not modelled.

### ClientStore

The specification of the API without its implementation: a durable set of
records, the address pairs that may talk, and the last answer. A call changes the
records in one step and says so ("ok", or "committed" when only the firewall
failed), or it answers "error" and changes none. `Manager` is shown to implement
it by the mapping `Store`: the records are the client map while the server
runs and the file (completed as a restore would) while it is down; the pairs are
the LAN rules, which matter while some peer is live in the kernel; the answer is
the error class of the call. Its callers are the handlers: the manager's error
tells "committed" from "error", while an HTTP client gets one generic 500 for
"committed" and for every "error" that is not a refusal, and must read the client again to know. Starts, restores, crashes, shutdowns and reboots are
stuttering steps or close the LAN.

### Usage

Here steps are what one lock covers: a dump, an application of the rows under
`c.mu`, the parts of a handler between the manager's lock and unlock. Threads are
the collector and `Handlers` requests. Pool and manager are reduced to what the
collector sees: which key is on which interface and its counter. Received and
sent bytes are handled by the same code and are one counter. `moved` and `due` are ghosts:
the bytes a key transferred in its life, and what its total would be if every byte
that was not lost with a kernel peer had been counted. `load` accepts everything that `Save`
writes (`Acceptable`), but it may fail: then `NewCollector` goes on without entries, and the
ghost `unread` says that the file still holds some this process has not seen, until its first
save replaces them. `SavedTotalsSurvive` excepts exactly that save. Without the exception,
the conjunct `~unread`, it is violated with `Faults`: a total is saved, the process stops, the
next one fails to load the file, logs that (`collector.go:44`), collects and saves, and
the total is gone. So the sentence of `docs/api.md:604` that "previously saved totals survive
restart" holds of restarts that can read the file, and of no others. A required snapshot of an
interface that was destroyed too late, see the hazards, is not modelled.

`Doubles` lets a failed rollback leave a peer on two interfaces. The collector
keeps one last reading per key and then takes each of the two counters for a
reset of the other, so that every collection adds one of them in full:
`NeverOverCounts` fails if `MCUsage.cfg` sets it. The safety runs leave it off,
`usage_locks` has it on.

### Params, Routing and Settings

`Params` is about the overrides of clients: `NormalizeOverridesForVersion` and the
validation behind it, the combination with defaults from the environment and
with generated values, `ValidateProfileForVersion`, the profile key and the
configuration an interface is given, and the record after a restart. A header is a
range of numbers, a `Uint16Range` keeps the three forms the code tells apart
(scalar, span, `off`), the six timing ranges are one field, the two toggles one,
I1 to I5 one with good and bad values. Random generation is a set of possible
values. Calls are atomic and the host does not fail here: that is the subject of
`Manager`. `Restart` may come with another configuration; one that leaves a stored
client without a valid profile stops the process, and the operator takes it back.

`Routing` translates the range arithmetic function by function over addresses of
`Width` bits, with the sums in a wider type as in the code. A loop is a function
from the number of rounds to what it has built so far; `sort.Slice` is any order
in which no range comes after one it precedes. The reference is set based: `Wanted` is the set of addresses a policy asks for, `CanonicalBlocks` the
largest aligned blocks inside a set.

`Settings` puts both in one specification. Policies concern one client only, so
each is looked at in an initial state of its own; `Answer` ends the request.

### Updater

Steps are what another process can come between: `Check` before the lock, then
under the lock the version at the path, manifest and signature, download,
verification, the second version check and the rename. A file is the version
it reports and whether the release workflow built it (then it has the public
key); its digest is the file. The release server may answer each request with
anything, `Publish` adds releases meanwhile, `Crash` may come before every step,
and the installer (`BeginInstall`, `EndInstall`) replaces the path without the lock.
A signature is taken to be unforgeable and a digest free of collisions. Versions
are three components of digits, compared as the code compares them; `Legacy`
releases have the asset names of an earlier generation and are rejected by
`verifyReleaseManifest`.

## Runs

| Run | Shows |
|---|---|
| `pool_faults` | two profiles, three keys, a limit of two, automatic ports 2 and 3, explicit ports 1 and 2, two failed commands per call: `HostAccounted`, `LivePeersTracked`, `CountsPeers`, `WithinLimit`, `Masqueraded`; no call disturbs another peer (`OthersUndisturbed`); one fault costs no service (`SingleFaultRestores`); a plain error leaves the books as they were (`PlainErrorKeepsBooks`); `SuccessServes` |
| `manager_faults` | two clients, both versions, an older file, two failures per call, crashes and reboots: memory equals file (`MemoryMatchesDisk`), the pool has the clients' keys unless a failed rollback was reported (`PoolMatchesClients`), `LanFailsClosed`, `HeaderKeysExact`; no probe interface and no masquerade rule stays without a failure or a crash (`ProbeRemoved`, `RulesDoNotPileUp`); callers see the store of `ClientStore` (`ImplementsStore`) |
| `manager_restart` | automatic ports, several variants, no failures: every saved state passes the next start's plan (`SavedStateRestores`), and the service comes up again (`ServiceComesUp`, liveness) |
| `restore_plan` | explicit ports too, no failures: what the plan accepts the pool does not refuse (`PlanHolds`), and after every call and restore the host holds what the saved clients need and nothing else, and lets exactly the clients of one group talk, or nobody after a refused call (`ServedExactly`) |
| `usage_faults` | two requests at a time, failing dumps, loads and saves, crashes: `NeverOverCounts`, `SnapshotIsNewest`; a saved total shrinks only at the first save of a process that could not load the file (`SavedTotalsSurvive`) |
| `usage_locks` | liveness: `RequestsEnd`, `SignalEnds` |
| `settings` | two clients, both versions, three configurations, every kind of override: profiles a peer can use (`ProfilesUsable`), an interface shared only by equals (`InterfaceMatchesClients`), no unlucky regeneration (`RegenerateAccepted`), nothing moves at a restart (`RestartChangesNothing`), a version change keeps or refuses (`SwitchKeepsOverrides`); some 36,000 routing policies: accepted ones are stored in a form that stays and renders (`PolicyStaysUsable`), after the VPN network, which comes first in every configuration, to exactly the addresses asked for (`RoutesExactly`) in the fewest blocks (`RoutesMinimal`) |
| `updater` | two runs, three releases, three faults: `InstalledIsVerified`, `NeverDowngrades`, `UpdatedMeansLatest`; liveness: `UpdateConverges` |

Four runs end in a counterexample on purpose; each is a finding in
`PROJECT.json` with the document it contradicts:

- `explicit_ports`: calls that the API accepts, with explicit and automatic ports
  mixed, save a state the next start refuses. The plan and the pool agree with
  each other (`restore_plan`), but the ports of the running pool depend on the
  order of calls and those of the plan on the order of records.
- `crash_restart`: after a process death with an interface present, each restart
  fails on that interface.
- `usage_resets`: a counter reset by a migration that overtakes its last reading
  before the next collection is not seen as reset, and bytes are lost.
- `usage_delete`: a collection in flight puts the entry of a deleted client back.

### Bounds

- `MaxFaults`: failed commands per call. Two is the first value at which a
  rollback fails; `pool_faults` and `manager_faults` use it. A command refused by
  the kernel state is not counted.
- `MaxIndex`: interfaces per behaviour (`Pool`, where a migration needs room for
  two) or per process (`Manager`). Four in `pool_faults` suffice for an orphan, a
  migration and its rollback.
- `MaxRules`: masquerade rules left by earlier processes; they only add up.
- `MaxBytes`: bytes per key. Two let a reset counter stay below, reach or pass its last
  reading; three are needed for the loss in `usage_resets`.
- `settings`: headers have two values per tier, so that generated ranges, single
  values and overrides meet; S values are around the forbidden difference `Gap`
  and around `MinS31`; one client tries all overrides, the other those that share
  an interface or stand in the way. Addresses have three bits: ranges that touch,
  overlap, repeat, cover the last address and reach over several others all occur
  with every block alone, every two blocks, and three single addresses with the first or
  the last one; the limits on entries and computed CIDRs are three, so that both bind.
- `updater`: two runs race; three releases with the tags 0.2.9, 0.2.10 and 0.10.0,
  so that text order is wrong at every step, the first with old asset names;
  three faults per behaviour allow a stale answer, a mixed-up asset and a death.
- `MaxInterfaces = 2` makes the limit bind with two profiles; automatic ports end
  at 3 so that the range is exhausted.

`VIEW` leaves out what no guard reads: the last call (except the successful
removal that `Addable` reads), its failure count, and the ghost `due` where the
property that needs it is not checked. Action properties are evaluated on steps,
before states are identified. Symmetry permutes IDs, keys, profiles, interfaces
and requests in safety runs; no definition names one of their values, and the
permutations of profiles in `Pool` are of opaque values. Liveness runs
use neither.

### Fairness

`Manager!FairSpec`: the unit is started at boot and restarted on failure
(`Restart=on-failure` in the unit that `install.sh` writes), not after a stop by
signal; a started process restores entry by entry without waiting for anyone.
`ServiceComesUp` makes no claim when the host or process dies again and again.

`Usage!FairSpec`: a thread that can go on does (weak fairness). A Go mutex hands
the lock to a waiter after a millisecond of starvation, so the steps that take a
lock which is free again and again have strong fairness. Requests, traffic,
signals, crashes and creations are not forced. Requests are assumed to end
within the ten seconds of the server's shutdown.

`Updater!Spec`: the command is run again and again (by a timer or an operator),
each step ends since every request and command has a timeout, and a copy that an
installer has begun goes on. Faults are bounded, so `UpdateConverges` speaks of the
time after the last one. Publishing, installing and dying are not forced.

## Proofs

Eight modules hold theorems, all of them checked by TLAPS down to the last leaf,
for every value of the constants that the named assumptions of the modules allow
(TLC evaluates those on every run). A module `XProofs` is about the module `X`;
`PoolService` and `ManagerService` are about the service that `Pool` and `Manager`
give. Every invariant and every safety property of a step that a passing run checks
is stated by a theorem, except `SavedStateRestores`, which is false in general.

| Module | Theorem | Statement |
|---|---|---|
| `PoolProofs` | `Invariance` | `Spec => []PoolInv`, the inductive invariant |
| | `TypeCorrect` | `Spec => []TypeOK` |
| | `HostStaysAccounted` | `Spec => []HostAccounted` |
| | `LivePeersStayTracked` | `Spec => []LivePeersTracked` |
| | `CountsStayExact` | `Spec => []CountsPeers` |
| | `LimitHolds` | `Spec => []WithinLimit` |
| | `MasqueradeHolds` | `Spec => []Masqueraded` |
| | `ErrorsKeepBooks` | `Spec => PlainErrorKeepsBooks` |
| `PoolService` | `ServiceInvariance` | `Spec => []ServiceInv`: tracked interfaces listen, besides `PoolInv` |
| | `OthersStayUndisturbed` | `Spec => OthersUndisturbed` |
| | `SuccessMeansService` | `Spec => SuccessServes` |
| | `SingleFaultCostsNothing` | `Spec => SingleFaultRestores` |
| `ManagerProofs` | `Invariance` | `Spec => []ManagerInv`, the inductive invariant |
| | `MemoryIsTheFile` | `Spec => []MemoryMatchesDisk` |
| | `PoolHasTheClients` | `Spec => []PoolMatchesClients` |
| | `LanIsClosed` | `Spec => []LanFailsClosed` |
| | `HeaderKeysSwept` | `Spec => []HeaderKeysExact` |
| | `ProbesCleaned` | `Spec => ProbeRemoved` |
| | `RulesAreFew` | `Spec => RulesDoNotPileUp` |
| | `Refinement` | `Spec => ImplementsStore`, the manager implements `ClientStore` |
| `ManagerService` | `Quietness` | if `MaxFaults = 0` and `~Crashes`: `Spec => [](ManagerInv /\ Calm)`, the inductive invariant |
| | `EveryClientServed` | `Spec => []ServedExactly` |
| | `PlanIsRestored` | if `MaxFaults = 0` and `~Crashes`: `Spec => PlanHolds` |
| `UsageProofs` | `Invariance` | `Spec => []UsageInv`, types, locks, keys and requests |
| | `TypeCorrect` | `Spec => []TypeOK` |
| | `TotalsSurvive` | `Spec => SavedTotalsSurvive` |
| | `CounterInvariance` | `~Doubles => (Spec => []CounterInv)` |
| | `NoOverCount` | `~Doubles => (Spec => []NeverOverCounts)` |
| | `SnapshotHolds` | `~Doubles => (Spec => []SnapshotIsNewest)` |
| `SettingsProofs` | `Profiles` | `SettingsSpec => []ProfilesUsable` |
| | `SharedInterfaces` | `SettingsSpec => []InterfaceMatchesClients` |
| | `Regenerating` | `SettingsSpec => []RegenerateAccepted` |
| | `Restarting` | `SettingsSpec => []RestartChangesNothing` |
| | `Switching` | `SettingsSpec => SwitchKeepsOverrides` |
| | `PolicyUsable` | `SettingsSpec => []PolicyStaysUsable` |
| | `RoutedAddresses` | `SettingsSpec => []RoutesExactly` |
| | `RoutedBlocks` | `SettingsSpec => []RoutesMinimal` |
| `UpdaterProofs` | `RunsAreSafe` | `Spec => [](TypeOK /\ SafeRuns)`, the inductive invariant |
| | `Typed` | `Spec => []TypeOK` |
| | `Verified` | `Spec => []InstalledIsVerified` |
| | `Latest` | `Spec => UpdatedMeansLatest` |
| | `NoDowngrade` | `Spec => NeverDowngrades` |

`PoolEffects` holds the lemmas about `PoolOps` that the proofs of the pool and of
the manager share.

### The pool

From `PortAssumption`, `LimitAssumption`, `AddrAssumption` and `RequestAssumption`.
None of the invariants is inductive alone. That a new interface does not collide
with an orphan needs that names are below `nextIndex`; that the count is exact
needs finite sets of peers; that an interface may be destroyed needs that only
its own profile has its name. `Books` joins them; `Inv` adds that live peers are
tracked. Inside an operation `Inv` is broken for a while, for the one key in
hand: `LiveBut` says so. The argument goes along the code: a command on peers and
routes is a `PeerStep`, which leaves the books alone (`PeerStepBooks`);
registration (`RawRegister`), orphans (`RawAbandon`), destruction
(`DestroyTracked`) and tracking (`TrackInv`, `UntrackInv`) each preserve `Books`;
a lemma per function of `pool.go` composes them, up to `AddPeerInv`,
`RemovePeerInv`, `MigratePeerInv` and `CloseInv`.

`PoolEffects` says what an operation does to the books when it succeeds, when it
fails, and when its rollback fails: success adds, removes or moves exactly the
one key it was asked for; a plain error leaves profiles, ports, peers and counts as
they were. It assumes nothing of the host but types, since `Manager` also starts a pool on
a host where an earlier process left interfaces.

`PoolService` follows the kernel through the same functions. `Undisturbed` says of
a step for key `k` at address `a` that every other peer that was served, on some
link and port, still is, and that no tracked interface stopped listening; it
composes, so each function of `pool.go` has one lemma. Commands for a peer touch
one peer entry and one route (`PeerUndisturbed`). Only `ip link del` could harm
somebody else, and it is used on two kinds of links: one whose profile has no
peer left (`DestroyUndisturbed`, from exact counts and unique names in `Books`),
and one that was just created under a number nobody has (`AbandonUndisturbed`).
`Reached` follows the key itself: when `addPeerLocked` succeeds it is live, routed
and tracked, and taking it off the old link afterwards does not undo that,
because the names of the two links differ. `SuccessServes` also claims a socket, on
an interface that may have been created many calls ago, so `Listening` is part of
the inductive invariant `ServiceInv`.

`SingleFaultCostsNothing` compares a failed call with the one that would have succeeded.
It counts: in a state that satisfies `Inv` the kernel allows every command the
pool gives, so an error costs a failed command (`Costs`, one lemma per function) unless
the pool refuses the interface it is asked for (`Refused`, `Rejected`). So a rollback
that costs nothing and is not refused succeeds, and the lemmas about the rollbacks say that
the peer is then back: nothing stays of an add that failed once (`Undone`, `Shrunk`);
an interface that was torn down can be made again on its old port (`VacatedRoom`); in
the shared case the old entry is still there or is put back (`Elsewhere`, `RestoreBack`).
A call that failed without a failed command was refused, and its rollback cost nothing. A
call with one failed command has spent it before the rollback, with one exception:
`migrateSolePeer` tears the old interface down, is refused the new one, and loses
the command on the way back. This cannot happen in a call that could be carried
out, since what is refused depends on the books alone (`RefusedBooks`, `SoleSucceeds`),
which are the same in both; it is what the hypothesis `WouldSucceed` is for.

### The manager

From the assumptions of the pool's operations and `ProfileAssumption`,
`AddressAssumption`, `KeyAssumption`, `InputAssumption` and `FileAssumption` (the
header keys in the file at the first start are the default one and those in use).
`MemoryMatchesDisk` is not inductive: that a failed save leaves memory as it was
needs that the prospective data of every call is a good file again (`GoodFile`:
no two records share an ID, a key or an address; the header keys are exactly
those in use; every record is normal), and `PoolMatchesClients` needs that a plain
error of the pool keeps every peer, the effect lemmas above. During a restore
the pool holds the clients that are already added and the rest is in `todo`;
after a failed rollback, which the ghost `dirty` records, the pool is no longer
claimed to match. `Refinement` maps every step of the manager to one step of `ClientStore` or to none:
a call that saved is the change of the records, one that did not is an error
that changes none, and the records survive a crash as they are those of the file.

`ManagerService` is about a host on which no command fails and a process that does not die
(`MaxFaults = 0`, `~Crashes`), the hypotheses that `ServedExactly` itself has and the
bounds of the run `restore_plan`: an interface that an earlier process left makes a
restore fail (run `crash_restart`). There the books of the pool
say exactly what the host holds (`Tidy`), so that the kernel refuses no command and
the effect of every operation is known to the last route: it succeeds, or the pool
refused it and nothing has changed but, after a migration that was undone, the name of an
interface. `Serves` relates the pool to a set of clients: their profiles are tracked,
with their keys, their ports and their routes, and nothing else is. Each transaction of
the manager takes a pool that serves the clients before to one that serves those
after (`SteadyCreate` to `SteadyDelete`), or, when it is refused, back to the
first set. The invariant `Quiet` has a part per phase: a running server is
`Steady`; a restore serves the clients it has added and is `OnPlan`; a process that is
down has left nothing (`Vacant`). `OnPlan` is what `PlanHolds` needs. The plan is a loop
that keeps the ports of the profiles seen so far; a plan that was accepted has a
`Path`, a choice of ports for each round, and by `PlanFollowed` the pool, whose used
ports, tracked profiles and limit are those of the plan at that round (`Follows`),
chooses the same port (`SameChoice`).

### The collector

From `BytesAssumption`, `NamesAssumption` and `KeysAssumption`. `UsageInv` is types,
owners of the two locks (`LockInv`), keys that have one client and are never
used again (`KeyInv`), what a request in flight holds (`RequestInv`) and that the entries
in memory are no less than the saved ones unless the file was not loaded (`FileInv`, guarded
by `unread`), from which `TotalsSurvive` follows. The counters need more: `CountInv` says that the total with the next reading of the
kernel's counter added is no more than was transferred, and `RowInv` says that a
row which a collection has dumped may still be applied, before the next reading and
also when the counter has grown or restarted since. `SnapshotInv` says that from the
required snapshot to the migration nobody else applies rows. The hypothesis
`~Doubles` leaves out peers that are on two interfaces after a failed rollback; without it
`NeverOverCounts` is false (see Usage above). What the loop over the rows of
a collection adds is proved by induction on the number of rows.

### Parameters

From `TierAssumption`, `SizeAssumption`, `KeyAssumption`, `InputAssumption` (Go's
types of requests, configurations and stored defaults) and `TextAssumption`. The
invariant `SettingsInv` has three parts. Every stored object is `Stable`: valid for its
version, ranges in canonical form, no DNS server twice, nothing marked as present. Such an
object is what normalising it again, for a restart (`RestoreKeeps`) or for
the other version (`StableKept`), gives back, unless it is refused; that the loop over the
DNS servers leaves distinct ones alone is an induction over the list
(`Distinct`). Every stored client has a valid profile under the configuration
that runs. And an interface is what its key says (`Shape`), so that it
does not matter which client it was created for. For `Regenerating`, `RedrawnValid`
shows that generated headers and sizes are valid beside any overrides that were:
tiers are disjoint, sizes are within all limits, and the forbidden pair is never
drawn. A valid profile has the disjoint values `ProfilesUsable` speaks of by
`ValidDistinguishable`.

### Routing

From `RoutingAssumption` and `PoliciesAssumption` (requests are lists of texts). A policy
does not change, so what is proved is about the functions, for every width of
addresses and every list. Each loop has an invariant over its rounds (`RoundsExist`,
`Induct`). That a sorted order exists, which `sorted` needs to be more than a choice from the
empty set, is an induction as well (`SortedRanges`). Merging gives ranges with
gaps between them and the same addresses (`Apart`, `MergedRanges`). A round of the
subtraction has written the addresses in front of the cursor that no exclusion holds
(`CutSo`), and the exclusions it has skipped end before the ranges still to come, which is
what the shared index of the code relies on. Splitting covers a range by aligned blocks,
one after the other (`SplitSo`). For `RoutedBlocks` each block must also be as large
as possible: the cursor is never the middle of an aligned block inside the range
(`Middle`), and two aligned blocks are disjoint or
nested (`NestedBlocks`); as the merged ranges do not touch, a block inside the wanted
addresses lies in one of them (`InsideOne`), and one that is larger than a written block
and meets it would hold the parent of that block (`LargerHoldsParent`), which reaches outside.
`PolicyUsable` follows from the facts that masking twice is masking once, that
removing repetitions twice is removing them once, and that the normalised
policy was computed before it was accepted.

### The updater

From `ProcAssumption`, `VersionAssumption`, `FaultAssumption`, `TagAssumption` and
`FileAssumption`. That the path never holds an empty file is part of `TypeOK`, and not inductive:
the rename needs that the temporary file passed verification. `SafeRuns` says
what a run has established at each step: past the manifest, a digest that belongs
to a release; past verification, a temporary file with that digest and the
version asked for. `Verified` and `Latest` follow with the list of steps that touch
the path (`PathSteps`) and the fact that only `Replace` reports an update
(`Renames`). For `NoDowngrade` two more facts are inductive together: `Locked` (a
run between the inspection and the rename holds the lock) and `SeenOlder` (what
the recheck saw is still at the path, unless an installer came in between); a
rename by another run would need the lock, which is the argument the code relies
on. The lemma `OrderKept` says that `compareStableVersions` orders tags as they
were published: two components of digits without leading zeros compare by length
and then digit by digit as the numbers they stand for (`ComponentOrder`), for any
number of digits.

### Induction

The library's induction rules take an operator as a parameter, which the
provers cannot instantiate. The proofs use least counterexamples instead: `Least`
(every nonempty set of naturals has a least element) follows from the
well-foundedness of `<`, and the set of numbers for which a statement fails, if
it is not empty, has a least member, which is neither 0 nor a successor. In this way
the loops over rows, DNS servers, digits, records of the restore plan and address
ranges are proved for lists of any length.

### Only model-checked

- Liveness (`ServiceComesUp`, `RequestsEnd`, `SignalEnds`, `UpdateConverges`): out
  of the prover's reach.
- `SavedStateRestores`: false in general (run `explicit_ports`), checked where ports
  are automatic.

## Not modelled

- Texts: JSON, iptables and awg configuration syntax, client configuration files,
  the syntax of decimal numbers and CPS tags, HTTP decoding, status codes and
  authentication.
- Ports and MTU among the parameters (ports are in `Manager`), curve keys.
- Loss of file contents in a host crash (there is no fsync; the documentation says so).
- What a damaged `usage.json` contains: it is loaded as it was saved, or the load fails.
- A death of the process inside a call of the manager: in `Manager` it falls between calls
  and between the steps of a restore.
- Another program that changes the same interfaces, routes or rules.
- A death of the process in the middle of the runtime probe.
- The timeout of the server's shutdown. A request that outlives it works on a pool
  that was closed, which `Pool` allows, and what it leaves is what a crash leaves.
- The installer's own transaction: a shell script over systemd, dpkg and backup files.

## Plan

Done, in this order: `PoolOps` and `Pool` with their proofs, since everything
else is built on the pool; `Manager`; `Usage`; the runtime probe; `ClientStore` and
its refinement; `Updater` with its proofs; `Params`, `Routing` and `Settings`; the
proofs of the manager with the refinement, of the collector and of the parameters;
the proofs about the service that the pool gives its peers, single failures included,
and the manager its clients; the proofs about routing.

Next:

1. `Lifecycle`: requests that outlive the shutdown timeout against `pool.Close`
   and the final collection; the empty interface that makes every required
   snapshot fail.
2. `Installer`: the host transaction and its rollback.
