------------------------------- MODULE Usage -------------------------------
(***************************************************************************)
(* The usage collector of internal/usage/collector.go and the threads that *)
(* meet in it: the collector goroutine, the HTTP handlers that delete a    *)
(* client or migrate its peer, the kernel counters and the end of the      *)
(* process.  A step is what one lock covers: the manager's mutex (mgr),    *)
(* the collector's guard (cmu), one awg show dump, one critical section    *)
(* under c.mu.  Received and sent bytes are treated alike, one counter     *)
(* stands for both.                                                        *)
(***************************************************************************)
EXTENDS Integers, Sequences, FiniteSets, SequencesExt

CONSTANTS
  IDs,            \* client IDs
  Keys,           \* public keys; a key is generated once
  Ifaces,         \* interface names
  Handlers,       \* HTTP requests in flight at one time
  Faults,         \* whether dumps, loads, saves and device rollbacks may fail
  Doubles,        \* whether a failed rollback may leave a peer on two interfaces
  Crashes,        \* whether the process may die
  MaxBytes        \* bound: bytes a peer transfers

ASSUME BytesAssumption == MaxBytes \in Nat

Collector == "collector"
Threads == Handlers \cup {Collector}
Nobody == "nobody"
NoKey == "nokey"
NoID == "noid"
Absent == -1
NoStats == [total |-> -1, last |-> -1]

ASSUME NamesAssumption == Collector \notin Handlers /\ Nobody \notin Threads /\ NoKey \notin Keys
ASSUME KeysAssumption == IsFiniteSet(Keys)

Rows == [key: Keys, raw: Nat, due: Nat]

VARIABLES
  raw,      \* the kernel: the counter of a peer on an interface, or Absent
  moved,    \* ghost: bytes a key has transferred in its life
  due,      \* ghost: what the total would be if a collection ended now
  client,   \* the manager: the key of each client
  fresh,    \* keys not yet generated
  stats,    \* c.stats: total and last raw counter of each key
  file,     \* usage.json
  unread,   \* ghost: the process could not load the entries of the file, nor has replaced it
  mgr,      \* holder of the manager's mutex
  cmu,      \* holder of collectMu
  th,       \* what each thread is doing
  phase     \* "up", "draining" requests after a signal, "final" collection

vars == <<raw, moved, due, client, fresh, stats, file, unread, mgr, cmu, th, phase>>

Idle == [pc |-> "idle", id |-> NoID, key |-> NoKey, todo |-> {}, rows |-> <<>>]

\* Thread t goes on with pc.
At(t, pc) == th' = [th EXCEPT ![t].pc = pc]
Finish(t) == th' = [th EXCEPT ![t] = Idle]

(***************************************************************************)
(* Counters.                                                               *)
(***************************************************************************)
\* Mutant of Accumulated: a new entry does not remember its first reading.
AccumulatedNoBase(st, row) ==
  LET s == st[row.key]
  IN [st EXCEPT ![row.key] =
        IF s = NoStats THEN [total |-> row.raw, last |-> 0]
        ELSE [total |-> s.total + IF row.raw < s.last THEN row.raw ELSE row.raw - s.last,
              last |-> row.raw]]

\* One row of a dump: a counter below the last reading was reset.
Accumulated(st, row) ==
  LET s == st[row.key]
  IN [st EXCEPT ![row.key] =
        IF s = NoStats THEN [total |-> row.raw, last |-> row.raw]
        ELSE [total |-> s.total + IF row.raw < s.last THEN row.raw ELSE row.raw - s.last,
              last |-> row.raw]]

\* All the rows of a collection, in their order.
AccumulatedAll(st, rows) ==
  LET after[n \in 0..Len(rows)] == IF n = 0 THEN st ELSE Accumulated(after[n - 1], rows[n])
  IN after[Len(rows)]

Active == {i \in Ifaces : \E k \in Keys : raw[<<i, k>>] # Absent}

\* Mutant of DumpRows: rows without a valid counter are not rejected.
DumpRowsUnchecked(i) ==
  SetToSeq({[key |-> k, raw |-> raw[<<i, k>>], due |-> due[k]] : k \in Keys})

\* ShowDump of interface i.
DumpRows(i) ==
  LET live == {k \in Keys : raw[<<i, k>>] # Absent}
  IN SetToSeq({[key |-> k, raw |-> raw[<<i, k>>], due |-> due[k]] : k \in live})

\* The kernel after k went from interface i to j: a new peer counts from zero.
Moved(k, i, j) ==
  [[raw EXCEPT ![<<i, k>>] = Absent] EXCEPT ![<<j, k>>] = IF @ = Absent THEN 0 ELSE @]

\* The interfaces of a peer: one, or two after a failed rollback, when a call
\* acts on one of them.
Homes(k) == {i \in Ifaces : raw[<<i, k>>] # Absent}

\* Bytes that were not collected go with the kernel peer.
TotalIn(entries, k) == IF entries[k] = NoStats THEN 0 ELSE entries[k].total
Collected(k) == TotalIn(stats, k)
DropUncollected(k) == due' = [due EXCEPT ![k] = Collected(k)]

(***************************************************************************)
(* Kernel and manager.                                                     *)
(***************************************************************************)
Traffic(i, k) ==
  /\ raw[<<i, k>>] # Absent /\ moved[k] < MaxBytes
  /\ raw' = [raw EXCEPT ![<<i, k>>] = @ + 1]
  /\ moved' = [moved EXCEPT ![k] = @ + 1]
  /\ due' = [due EXCEPT ![k] = @ + 1]
  /\ UNCHANGED <<client, fresh, stats, file, unread, mgr, cmu, th, phase>>

CreateClient(id, k, i) ==
  /\ phase = "up" /\ mgr = Nobody /\ client[id] = NoKey /\ k \in fresh
  /\ client' = [client EXCEPT ![id] = k]
  /\ fresh' = fresh \ {k}
  /\ raw' = [raw EXCEPT ![<<i, k>>] = 0]
  /\ UNCHANGED <<moved, due, stats, file, unread, mgr, cmu, th, phase>>

\* handleDeleteClient reads the client, deletes it by its ID and removes the
\* usage entry of the key it has read.
BeginDelete(t, id) ==
  /\ phase = "up" /\ th[t] = Idle /\ mgr = Nobody /\ client[id] # NoKey
  /\ th' = [th EXCEPT ![t] = [Idle EXCEPT !.pc = "delete", !.id = id, !.key = client[id]]]
  /\ UNCHANGED <<raw, moved, due, client, fresh, stats, file, unread, mgr, cmu, phase>>

DeleteGone(t) ==
  /\ th[t].pc = "delete" /\ mgr = Nobody /\ client[th[t].id] = NoKey
  /\ Finish(t)
  /\ UNCHANGED <<raw, moved, due, client, fresh, stats, file, unread, mgr, cmu, phase>>

\* The deletion is committed; its LAN rebuild may still fail.
DeleteCommitted(t) ==
  LET k == client[th[t].id]
  IN /\ th[t].pc = "delete" /\ mgr = Nobody /\ k # NoKey
     /\ client' = [client EXCEPT ![th[t].id] = NoKey]
     /\ \E i \in Homes(k) : raw' = [raw EXCEPT ![<<i, k>>] = Absent]
     /\ DropUncollected(k)
     /\ At(t, "removeStats") \/ (Faults /\ Finish(t))
     /\ UNCHANGED <<moved, fresh, stats, file, unread, mgr, cmu, phase>>

\* The save failed and the peer was added again, with new counters.
DeleteUndone(t) ==
  LET k == client[th[t].id]
  IN /\ Faults /\ th[t].pc = "delete" /\ mgr = Nobody /\ k # NoKey
     /\ \E i \in Homes(k) : raw' = Moved(k, i, i)
     /\ DropUncollected(k)
     /\ Finish(t)
     /\ UNCHANGED <<moved, client, fresh, stats, file, unread, mgr, cmu, phase>>

RemoveStats(t) ==
  /\ th[t].pc = "removeStats"
  /\ stats' = [stats EXCEPT ![th[t].key] = NoStats]
  /\ Finish(t)
  /\ UNCHANGED <<raw, moved, due, client, fresh, file, unread, mgr, cmu, phase>>

\* An update that changes the interface keeps the manager's mutex to its end.
BeginUpdate(t, id) ==
  /\ phase = "up" /\ th[t] = Idle /\ mgr = Nobody /\ client[id] # NoKey
  /\ mgr' = t
  /\ th' = [th EXCEPT ![t] = [Idle EXCEPT !.pc = "snapshot", !.id = id, !.key = client[id]]]
  /\ UNCHANGED <<raw, moved, due, client, fresh, stats, file, unread, cmu, phase>>

(***************************************************************************)
(* Collections.                                                            *)
(***************************************************************************)
StartDumps(t) ==
  /\ cmu' = t
  /\ th' = [th EXCEPT ![t].pc = "dump", ![t].todo = Active, ![t].rows = <<>>]

\* Mutant of Snapshot: the interfaces are listed and dumped outside the guard.
SnapshotUnguarded(t) ==
  /\ th[t].pc = "snapshot"
  /\ th' = [th EXCEPT ![t].pc = "dump", ![t].todo = Active, ![t].rows = <<>>]
  /\ UNCHANGED <<raw, moved, due, client, fresh, stats, file, unread, mgr, cmu, phase>>

\* WithRequiredSnapshot
Snapshot(t) ==
  /\ th[t].pc = "snapshot" /\ cmu = Nobody
  /\ StartDumps(t)
  /\ UNCHANGED <<raw, moved, due, client, fresh, stats, file, unread, mgr, phase>>

\* Collect, at the start, every 60 seconds and, by main, after the requests.
Collect ==
  /\ th[Collector].pc = "idle" /\ cmu = Nobody
  /\ phase = "up" \/ (phase = "draining" /\ \A t \in Handlers : th[t] = Idle)
  /\ StartDumps(Collector)
  /\ phase' = IF phase = "up" THEN "up" ELSE "final"
  /\ UNCHANGED <<raw, moved, due, client, fresh, stats, file, unread, mgr>>

Dump(t, i) ==
  /\ th[t].pc = "dump" /\ i \in th[t].todo /\ i \in Active
  /\ th' = [th EXCEPT ![t].todo = @ \ {i}, ![t].rows = @ \o DumpRows(i)]
  /\ UNCHANGED <<raw, moved, due, client, fresh, stats, file, unread, mgr, cmu, phase>>

\* A dump that fails, or shows no peer because the interface has just lost its
\* last one: Collect goes on without it.
DumpSkipped(i) ==
  /\ th[Collector].pc = "dump" /\ i \in th[Collector].todo /\ (Faults \/ i \notin Active)
  /\ th' = [th EXCEPT ![Collector].todo = @ \ {i}]
  /\ UNCHANGED <<raw, moved, due, client, fresh, stats, file, unread, mgr, cmu, phase>>

\* Mutant of SnapshotFailed: collectMu stays locked.
SnapshotFailedLocked(t) ==
  /\ t # Collector /\ th[t].pc = "dump"
  /\ \E i \in th[t].todo : Faults \/ i \notin Active
  /\ mgr' = Nobody
  /\ Finish(t)
  /\ UNCHANGED <<raw, moved, due, client, fresh, stats, file, unread, cmu, phase>>

\* Mutant of SnapshotFailed: the manager's mutex and the request hang.
SnapshotFailedKeepsManager(t) ==
  /\ t # Collector /\ th[t].pc = "dump"
  /\ \E i \in th[t].todo : Faults \/ i \notin Active
  /\ cmu' = Nobody
  /\ At(t, "hang")
  /\ UNCHANGED <<raw, moved, due, client, fresh, stats, file, unread, mgr, phase>>

\* The same for a required snapshot: the update is given up.
SnapshotFailed(t) ==
  /\ t # Collector /\ th[t].pc = "dump"
  /\ \E i \in th[t].todo : Faults \/ i \notin Active
  /\ mgr' = Nobody /\ cmu' = Nobody
  /\ Finish(t)
  /\ UNCHANGED <<raw, moved, due, client, fresh, stats, file, unread, phase>>

Apply(t) ==
  /\ th[t].pc = "dump" /\ th[t].todo = {}
  /\ stats' = AccumulatedAll(stats, th[t].rows)
  /\ IF t = Collector
       THEN /\ th' = [th EXCEPT ![t].pc = "save", ![t].rows = <<>>]
            /\ cmu' = Nobody
       ELSE At(t, "migrate") /\ UNCHANGED cmu
  /\ UNCHANGED <<raw, moved, due, client, fresh, file, unread, mgr, phase>>

\* The guarded action: the peer is on a new interface, or back on the old one
\* with new counters or untouched, or, after a failed rollback, on both.
Migrate(t) ==
  LET k == th[t].key
  IN /\ th[t].pc = "migrate"
     /\ \/ \E i \in Homes(k), j \in Ifaces : raw' = Moved(k, i, j) /\ DropUncollected(k)
        \/ Faults /\ UNCHANGED <<raw, due>>
        \/ /\ Doubles
           /\ \E i \in Ifaces \ Homes(k) : raw' = [raw EXCEPT ![<<i, k>>] = 0]
           /\ UNCHANGED due
     /\ mgr' = Nobody /\ cmu' = Nobody
     /\ Finish(t)
     /\ UNCHANGED <<moved, client, fresh, stats, file, unread, phase>>

Save ==
  /\ th[Collector].pc = "save"
  /\ \/ file' = stats /\ unread' = FALSE
     \/ Faults /\ UNCHANGED <<file, unread>>
  /\ At(Collector, IF phase = "final" THEN "exit" ELSE "idle")
  /\ UNCHANGED <<raw, moved, due, client, fresh, stats, mgr, cmu, phase>>

(***************************************************************************)
(* The process.                                                            *)
(***************************************************************************)
\* The server takes no new request and waits for the ones in flight, which are
\* assumed to end within the ten seconds it gives them.
Signal ==
  /\ phase = "up" /\ phase' = "draining"
  /\ UNCHANGED <<raw, moved, due, client, fresh, stats, file, unread, mgr, cmu, th>>

NoEntries == [k \in Keys |-> NoStats]

\* What load accepts of a file that can be read and parsed.  Save writes no null
\* entry, which load refuses as well.
Acceptable == \A k \in Keys : file[k] = NoStats \/ (file[k].total >= 0 /\ file[k].last >= 0)

\* Mutant of NewCollector: the file is not loaded, and no error is reported.
NewCollectorEmpty == stats' = NoEntries /\ unread' = FALSE

\* An error of load is logged, and the collector goes on without entries.
NewCollector ==
  \/ Acceptable /\ stats' = file /\ unread' = FALSE
  \/ (Faults \/ ~Acceptable) /\ stats' = NoEntries /\ unread' = (file # NoEntries)

\* The interfaces are gone and a new process restores the clients.  (A start over
\* interfaces that a crash left behind fails: that is Manager's subject.)
Restart ==
  /\ NewCollector
  /\ \E home \in [{k \in Keys : \E id \in IDs : client[id] = k} -> Ifaces] :
       raw' = [x \in Ifaces \X Keys |->
                 IF x[2] \in DOMAIN home /\ home[x[2]] = x[1] THEN 0 ELSE Absent]
  /\ due' = [k \in Keys |-> TotalIn(stats', k)]
  /\ mgr' = Nobody /\ cmu' = Nobody
  /\ th' = [t \in Threads |-> Idle]
  /\ phase' = "up"
  /\ UNCHANGED <<moved, client, fresh, file>>

Exit == th[Collector].pc = "exit" /\ Restart
Crash == Crashes /\ Restart

-----------------------------------------------------------------------------
Init ==
  /\ raw = [x \in Ifaces \X Keys |-> Absent]
  /\ moved = [k \in Keys |-> 0] /\ due = moved
  /\ client = [id \in IDs |-> NoKey]
  /\ fresh = Keys
  /\ stats = NoEntries /\ file = stats /\ unread = FALSE
  /\ mgr = Nobody /\ cmu = Nobody
  /\ th = [t \in Threads |-> Idle]
  /\ phase = "up"

Next ==
  \/ \E i \in Ifaces, k \in Keys : Traffic(i, k)
  \/ \E id \in IDs, k \in Keys, i \in Ifaces : CreateClient(id, k, i)
  \/ \E t \in Handlers, id \in IDs : BeginDelete(t, id) \/ BeginUpdate(t, id)
  \/ \E t \in Handlers : \/ DeleteGone(t) \/ DeleteCommitted(t) \/ DeleteUndone(t)
                         \/ RemoveStats(t) \/ Snapshot(t) \/ SnapshotFailed(t) \/ Migrate(t)
  \/ Collect \/ Save
  \/ \E i \in Ifaces : DumpSkipped(i)
  \/ \E t \in Threads : Apply(t) \/ \E i \in Ifaces : Dump(t, i)
  \/ Signal \/ Exit \/ Crash

Spec == Init /\ [][Next]_vars

\* A thread that can go on does; a Go mutex lets no waiter starve, so a lock
\* that is free again and again is acquired.  Requests and signals may never
\* come.
FairSpec ==
  /\ Spec
  /\ \A t \in Handlers :
       /\ SF_vars(DeleteGone(t) \/ DeleteCommitted(t) \/ DeleteUndone(t))
       /\ SF_vars(Snapshot(t))
       /\ WF_vars(RemoveStats(t) \/ Migrate(t) \/ SnapshotFailed(t))
  /\ \A t \in Threads : WF_vars(Apply(t) \/ \E i \in Ifaces : Dump(t, i))
  /\ SF_vars(Collect)
  /\ WF_vars(Save \/ \E i \in Ifaces : DumpSkipped(i))
  /\ WF_vars(Exit)

-----------------------------------------------------------------------------
(***************************************************************************)
(* Properties.                                                             *)
(***************************************************************************)
Entry == [total: Nat, last: Nat] \cup {NoStats}

TypeOK ==
  /\ \A x \in Ifaces \X Keys : raw[x] \in Nat \cup {Absent}
  /\ \A k \in Keys : moved[k] \in 0..MaxBytes /\ due[k] \in Nat
  /\ \A id \in IDs : client[id] \in Keys \cup {NoKey}
  /\ \A k \in Keys : stats[k] \in Entry /\ file[k] \in Entry
  /\ unread \in BOOLEAN
  /\ {mgr, cmu} \subseteq Threads \cup {Nobody}
  /\ \A t \in Threads : th[t].todo \subseteq Ifaces /\ ToSet(th[t].rows) \subseteq Rows
  /\ phase \in {"up", "draining", "final"}

\* No client is charged for bytes it did not transfer, through counter resets,
\* migrations, restarts and collections that race with them.
NeverOverCounts ==
  \A k \in Keys : \A s \in {stats[k], file[k]} : s # NoStats => s.total <= moved[k]

\* The required snapshot is still the newest reading when the guarded action
\* takes the kernel state of the peer away.
SnapshotIsNewest ==
  \A t \in Handlers : th[t].pc = "migrate" =>
    \A row \in ToSet(th[t].rows) : row.key = th[t].key => stats[row.key].last = row.raw

\* Over crashes, restarts and failed saves a saved entry goes and a saved total
\* shrinks in one case only: at the first save of a process that could not load
\* the file, which collector.go 44 logs and otherwise ignores.
SavedTotalsSurvive ==
  [][\A id \in IDs : LET k == client[id]
                     IN (~unread /\ k # NoKey /\ client'[id] = k /\ file[k] # NoStats) =>
                          file'[k] # NoStats /\ file'[k].total >= file[k].total]_vars

\* A collection that has dumped a client's counter counts every byte it shows.
EveryByteCounted ==
  [][\A t \in Threads : (th[t].pc = "dump" /\ th'[t].pc \in {"save", "migrate"}) =>
       \A row \in ToSet(th[t].rows) :
         (\E id \in IDs : client[id] = row.key) => stats'[row.key].total >= row.due]_vars

\* When nothing is in progress, every usage entry is that of a client.
NoStaleStats ==
  (\A t \in Threads : th[t] = Idle) =>
    \A k \in Keys : stats[k] # NoStats => \E id \in IDs : client[id] = k

\* Every request ends: nobody waits for a lock for ever.
RequestsEnd == \A t \in Handlers : (th[t] # Idle) ~> (th[t] = Idle)

\* A signalled process ends, however many requests hold its locks.
SignalEnds == (phase = "draining") ~> (phase = "up")
=============================================================================
