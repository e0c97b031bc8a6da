---------------------------- MODULE UsageProofs ----------------------------
(***************************************************************************)
(* Proofs about module Usage, for every set of clients, keys, interfaces   *)
(* and requests in flight, and any number of bytes, failures, crashes and  *)
(* restarts.                                                               *)
(*                                                                         *)
(* The argument: a row that was dumped and is not yet applied, and a       *)
(* counter that was not yet dumped, may each be added to the total of a    *)
(* key without exceeding what the key has transferred (RowInv, CountInv).  *)
(* collectMu keeps the rows of one collection apart from every other       *)
(* collection and from every migration (LockInv), and keys that are never  *)
(* reused keep a late RemoveStats away from living clients (KeyInv).       *)
(***************************************************************************)
EXTENDS Usage, FiniteSetTheorems, WellFoundedInduction, TLAPS

Steps == {"idle", "delete", "removeStats", "snapshot", "dump", "migrate", "save", "exit"}

ThreadStates == [pc: Steps, id: IDs \cup {NoID}, key: Keys \cup {NoKey}, todo: SUBSET Ifaces,
                 rows: Seq(Rows)]

Types ==
  /\ raw \in [Ifaces \X Keys -> Nat \cup {Absent}]
  /\ moved \in [Keys -> 0..MaxBytes] /\ due \in [Keys -> Nat]
  /\ client \in [IDs -> Keys \cup {NoKey}]
  /\ fresh \subseteq Keys
  /\ stats \in [Keys -> Entry] /\ file \in [Keys -> Entry] /\ unread \in BOOLEAN
  /\ mgr \in Threads \cup {Nobody} /\ cmu \in Threads \cup {Nobody}
  /\ th \in [Threads -> ThreadStates]
  /\ phase \in {"up", "draining", "final"}

\* Who holds which lock.
LockInv ==
  /\ th[Collector].pc \in {"idle", "dump", "save", "exit"}
  /\ \A t \in Threads : th[t].pc \in {"dump", "migrate"} => cmu = t
  /\ \A t \in Handlers : th[t].pc \in {"snapshot", "dump", "migrate"} => mgr = t

\* A key has one client at most, and comes from fresh.
KeyInv ==
  /\ \A x, y \in IDs : client[x] # NoKey /\ client[x] = client[y] => x = y
  /\ \A x \in IDs : client[x] \notin fresh
  /\ \A i \in Ifaces, k \in Keys : raw[<<i, k>>] # Absent => k \notin fresh

\* The key a request has read is that of its client, or of nobody any more.
RequestInv ==
  \A t \in Handlers :
    /\ th[t].pc \in {"delete", "snapshot", "dump", "migrate"} => th[t].id \in IDs
    /\ th[t].pc \in {"delete", "removeStats", "snapshot", "dump", "migrate"} =>
         th[t].key \in Keys \ fresh
    /\ th[t].pc = "delete" => \A x \in IDs : client[x] = th[t].key => x = th[t].id
    /\ th[t].pc = "removeStats" => \A x \in IDs : client[x] # th[t].key
    /\ th[t].pc \in {"snapshot", "dump", "migrate"} => client[th[t].id] = th[t].key

\* What is on disk of a client, of a future one too, is in memory, unless it could
\* not be loaded.
FileInv ==
  ~unread =>
    \A k \in Keys : (k \in fresh \/ \E x \in IDs : client[x] = k) =>
      (file[k] # NoStats => stats[k] # NoStats /\ stats[k].total >= file[k].total)

\* The required snapshot is the newest reading.
SnapshotInv ==
  \A t \in Handlers : th[t].pc = "migrate" =>
    \A n \in DOMAIN th[t].rows :
      th[t].rows[n].key = th[t].key => stats[th[t].key].last = th[t].rows[n].raw

\* Bytes between two readings of a counter, as the collector computes them.
Delta(last, r) == IF r < last THEN r ELSE r - last

\* The total after one more reading.
Total(s, r) == IF s = NoStats THEN r ELSE s.total + Delta(s.last, r)

\* A peer is on one interface, and no counter shows more than was transferred.
CountInv ==
  /\ \A i, j \in Ifaces, k \in Keys :
       raw[<<i, k>>] # Absent /\ raw[<<j, k>>] # Absent => i = j
  /\ \A k \in Keys : stats[k] # NoStats => stats[k].total <= moved[k]
  /\ \A k \in Keys : file[k] # NoStats => file[k].total <= moved[k]
  /\ \A i \in Ifaces, k \in Keys : raw[<<i, k>>] # Absent =>
       raw[<<i, k>>] <= moved[k] /\ Total(stats[k], raw[<<i, k>>]) <= moved[k]

\* A row may still be applied, with what its counter shows since or without.
Applicable(row) ==
  LET k == row.key
      r == row.raw
  IN /\ r <= moved[k] /\ Total(stats[k], r) <= moved[k]
     /\ \A i \in Ifaces : raw[<<i, k>>] # Absent =>
          /\ r + Delta(r, raw[<<i, k>>]) <= moved[k]
          /\ Total(stats[k], r) + Delta(r, raw[<<i, k>>]) <= moved[k]

OnePerKey(rows) == \A j, l \in DOMAIN rows : rows[j].key = rows[l].key => j = l

\* The rows of a collection: one per key, none of an interface still to dump.
RowInv ==
  \A t \in Threads : th[t].pc = "dump" =>
    /\ \A n \in DOMAIN th[t].rows :
         /\ Applicable(th[t].rows[n])
         /\ th[t].rows[n].key \notin fresh
         /\ \A i \in th[t].todo : raw[<<i, th[t].rows[n].key>>] = Absent
    /\ OnePerKey(th[t].rows)

\* The inductive invariant, and its part on the counters, for peers that are on
\* one interface.
UsageInv == Types /\ LockInv /\ KeyInv /\ RequestInv /\ FileInv
CounterInv == CountInv /\ RowInv /\ SnapshotInv

-----------------------------------------------------------------------------
(***************************************************************************)
(* Rows and readings.                                                      *)
(***************************************************************************)
\* Every nonempty set of naturals has a least element: what induction over the
\* rows of a collection rests on.
LEMMA Least ==
  ASSUME NEW T, T \subseteq Nat, T # {}
  PROVE  \E n \in T : \A k \in T : n <= k
<1> DEFINE R == OpToRel(<, Nat)
<1>1. IsWellFoundedOn(R, Nat)
  BY NatLessThanWellFounded, Zenon
<1>2. \A x, y \in Nat : x < y => <<x, y>> \in R
  BY DEF OpToRel
<1> HIDE DEF R
<1>3. PICK n \in T : \A k \in T : ~(<<k, n>> \in R)
  BY <1>1, WFMin
<1>4. \A k \in T : ~(k < n)
  BY <1>2, <1>3
<1> QED BY <1>4

\* What one reading makes of an entry.
Read(s, r) == [total |-> Total(s, r), last |-> r]

\* A reading changes the entry of its key only.
LEMMA OneRow ==
  ASSUME NEW st \in [Keys -> Entry], NEW row \in Rows
  PROVE  /\ Accumulated(st, row) \in [Keys -> Entry]
         /\ Accumulated(st, row)[row.key] = Read(st[row.key], row.raw)
         /\ \A k \in Keys \ {row.key} : Accumulated(st, row)[k] = st[k]
<1> DEFINE s == st[row.key]
           e == IF s = NoStats THEN [total |-> row.raw, last |-> row.raw]
                ELSE [total |-> s.total + IF row.raw < s.last THEN row.raw ELSE row.raw - s.last,
                      last |-> row.raw]
<1>1. row.key \in Keys /\ row.raw \in Nat /\ s \in Entry
  BY DEF Rows
<1>2. Accumulated(st, row) = [st EXCEPT ![row.key] = e]
  BY DEF Accumulated
<1>3. e = Read(s, row.raw)
  BY <1>1 DEF Read, Total, Delta
<1>4. e \in Entry
  <2>1. CASE s = NoStats
    BY <1>1, <2>1 DEF Entry
  <2>2. CASE s # NoStats
    <3>1. s.total \in Nat /\ s.last \in Nat
      BY <1>1, <2>2 DEF Entry
    <3>2. s.total + (IF row.raw < s.last THEN row.raw ELSE row.raw - s.last) \in Nat
      BY <1>1, <3>1
    <3> QED BY <1>1, <2>2, <3>2 DEF Entry
  <2> QED BY <2>1, <2>2
<1> HIDE DEF e
<1> QED BY <1>1, <1>2, <1>3, <1>4

\* The entries after the first n rows.
After(st, rows, f, n) ==
  f = [i \in 0..n |-> IF i = 0 THEN st ELSE Accumulated(f[i - 1], rows[i])]

\* The recursion of AccumulatedAll defines a function.
LEMMA AfterExists ==
  ASSUME NEW st, NEW rows, NEW n \in Nat
  PROVE  \E f : After(st, rows, f, n)
<1> DEFINE T == {i \in Nat : ~\E f : After(st, rows, f, i)}
<1>1. SUFFICES ASSUME T # {} PROVE FALSE
  OBVIOUS
<1>2. T \subseteq Nat
  OBVIOUS
<1> HIDE DEF T
<1>3. PICK l \in T : \A k \in T : l <= k
  BY <1>1, <1>2, Least
<1>4. l \in Nat /\ ~\E f : After(st, rows, f, l)
  BY <1>3 DEF T
<1>5. CASE l = 0
  <2> DEFINE f == [i \in 0..0 |-> st]
  <2>1. f = [i \in 0..0 |-> IF i = 0 THEN st ELSE Accumulated(f[i - 1], rows[i])]
    OBVIOUS
  <2> QED BY <1>4, <1>5, <2>1 DEF After
<1>6. CASE l # 0
  <2>1. l - 1 \in Nat /\ l - 1 \notin T
    BY <1>3, <1>4, <1>6
  <2>2. PICK g : After(st, rows, g, l - 1)
    BY <2>1 DEF T
  <2> DEFINE last == Accumulated(g[l - 1], rows[l])
             f == [i \in 0..l |-> IF i = l THEN last ELSE g[i]]
  <2>3. \A i \in 0..(l - 1) : g[i] = IF i = 0 THEN st ELSE Accumulated(g[i - 1], rows[i])
    BY <2>2 DEF After
  <2>4. \A i \in 0..l : f[i] = IF i = 0 THEN st ELSE Accumulated(f[i - 1], rows[i])
    <3> TAKE i \in 0..l
    <3>1. CASE i = l
      <4>1. f[i] = last /\ f[i - 1] = g[l - 1]
        BY <1>4, <1>6, <3>1
      <4> QED BY <1>6, <3>1, <4>1
    <3>2. CASE i # l
      <4>1. f[i] = g[i] /\ i \in 0..(l - 1)
        BY <1>4, <3>2
      <4>2. i # 0 => f[i - 1] = g[i - 1]
        BY <1>4, <3>2
      <4> QED BY <2>3, <4>1, <4>2
    <3> QED BY <3>1, <3>2
  <2>5. f = [i \in 0..l |-> IF i = 0 THEN st ELSE Accumulated(f[i - 1], rows[i])]
    BY <2>4
  <2> QED BY <1>4, <2>5 DEF After
<1> QED BY <1>5, <1>6

\* g is st after the first n rows have been read: nothing is lost, and with one
\* row per key each has exactly the effect of its reading.
ReadRows(st, rows, g, n) ==
  /\ g \in [Keys -> Entry]
  /\ \A k \in Keys : st[k] # NoStats => g[k] # NoStats /\ g[k].total >= st[k].total
  /\ OnePerKey(rows) =>
       /\ \A i \in 1..n : g[rows[i].key] = Read(st[rows[i].key], rows[i].raw)
       /\ \A k \in Keys : (\A i \in 1..n : rows[i].key # k) => g[k] = st[k]

\* A reading never lowers a total.
LEMMA ReadGrows ==
  ASSUME NEW s \in Entry, NEW r \in Nat
  PROVE  /\ Read(s, r) # NoStats /\ Read(s, r).total \in Nat /\ Read(s, r).last = r
         /\ Read(s, r).total = Total(s, r)
         /\ s # NoStats => Read(s, r).total >= s.total
<1>1. s # NoStats => s.total \in Nat /\ s.last \in Nat
  BY DEF Entry
<1>2. Total(s, r) \in Nat /\ (s # NoStats => Total(s, r) >= s.total)
  BY <1>1 DEF Total, Delta
<1>3. Read(s, r).total = Total(s, r) /\ Read(s, r).last = r
  BY DEF Read
<1>4. NoStats.last = -1
  BY DEF NoStats
<1>5. Read(s, r) # NoStats
  BY <1>3, <1>4
<1> QED BY <1>2, <1>3, <1>5

\* One more row is read.
LEMMA ReadNext ==
  ASSUME NEW st \in [Keys -> Entry], NEW rows \in Seq(Rows), NEW n \in 1..Len(rows),
         NEW g, ReadRows(st, rows, g, n - 1)
  PROVE  ReadRows(st, rows, Accumulated(g, rows[n]), n)
<1> DEFINE row == rows[n]
           h == Accumulated(g, row)
<1>1. row \in Rows /\ DOMAIN rows = 1..Len(rows) /\ Len(rows) \in Nat
  OBVIOUS
<1>2. g \in [Keys -> Entry] /\ row.key \in Keys /\ row.raw \in Nat
  BY <1>1 DEF ReadRows, Rows
<1>3. ASSUME OnePerKey(rows), NEW i \in 1..(n - 1)
      PROVE  rows[i].key # row.key /\ rows[i].key \in Keys
  <2>1. i \in DOMAIN rows /\ n \in DOMAIN rows /\ i # n
    BY <1>1
  <2>2. rows[i] \in Rows
    BY <2>1
  <2> QED BY <1>3, <2>1, <2>2 DEF Rows, OnePerKey
<1> HIDE DEF row
<1>4. /\ h \in [Keys -> Entry]
      /\ h[row.key] = Read(g[row.key], row.raw)
      /\ \A k \in Keys \ {row.key} : h[k] = g[k]
  BY <1>1, <1>2, OneRow
<1> HIDE DEF h
<1>5. ASSUME NEW k \in Keys, st[k] # NoStats
      PROVE  h[k] # NoStats /\ h[k].total >= st[k].total
  <2>1. g[k] # NoStats /\ g[k].total >= st[k].total
    BY <1>5 DEF ReadRows
  <2>2. CASE k # row.key
    BY <1>4, <2>1, <2>2
  <2>3. CASE k = row.key
    <3>1. g[k] \in Entry /\ st[k] \in Entry
      BY <1>2
    <3>2. Read(g[k], row.raw) # NoStats /\ Read(g[k], row.raw).total >= g[k].total
      BY <1>2, <2>1, <3>1, ReadGrows
    <3>3. st[k].total \in Nat /\ g[k].total \in Nat /\ Read(g[k], row.raw).total \in Nat
      BY <1>2, <1>5, <2>1, <3>1, ReadGrows DEF Entry
    <3> QED BY <1>4, <2>1, <2>3, <3>2, <3>3
  <2> QED BY <2>2, <2>3
<1>6. ASSUME OnePerKey(rows)
      PROVE  /\ \A i \in 1..n : h[rows[i].key] = Read(st[rows[i].key], rows[i].raw)
             /\ \A k \in Keys : (\A i \in 1..n : rows[i].key # k) => h[k] = st[k]
  <2>1. /\ \A i \in 1..(n - 1) : g[rows[i].key] = Read(st[rows[i].key], rows[i].raw)
        /\ \A k \in Keys : (\A i \in 1..(n - 1) : rows[i].key # k) => g[k] = st[k]
    BY <1>6 DEF ReadRows
  <2>2. g[row.key] = st[row.key]
    BY <1>2, <1>3, <1>6, <2>1
  <2>3. ASSUME NEW i \in 1..n PROVE h[rows[i].key] = Read(st[rows[i].key], rows[i].raw)
    <3>1. CASE i = n
      BY <1>4, <2>2, <3>1 DEF row
    <3>2. CASE i # n
      <4>1. i \in 1..(n - 1)
        BY <3>2
      <4>2. h[rows[i].key] = g[rows[i].key]
        BY <1>3, <1>4, <1>6, <4>1
      <4> QED BY <2>1, <4>1, <4>2
    <3> QED BY <3>1, <3>2
  <2>4. ASSUME NEW k \in Keys, \A i \in 1..n : rows[i].key # k PROVE h[k] = st[k]
    <3>1. k # row.key
      BY <2>4 DEF row
    <3>2. \A i \in 1..(n - 1) : rows[i].key # k
      BY <2>4
    <3> QED BY <1>4, <2>1, <3>1, <3>2
  <2> QED BY <2>3, <2>4
<1>7. ReadRows(st, rows, h, n)
  BY <1>4, <1>5, <1>6 DEF ReadRows
<1> QED BY <1>7 DEF h, row

\* What a collection makes of the entries.
LEMMA AllRows ==
  ASSUME NEW st \in [Keys -> Entry], NEW rows \in Seq(Rows)
  PROVE  ReadRows(st, rows, AccumulatedAll(st, rows), Len(rows))
<1> DEFINE L == Len(rows)
           f == CHOOSE g : After(st, rows, g, L)
<1>1. L \in Nat
  OBVIOUS
<1>2. AccumulatedAll(st, rows) = f[L]
  BY DEF AccumulatedAll, After
<1>3. After(st, rows, f, L)
  <2>1. \E g : After(st, rows, g, L)
    BY <1>1, AfterExists
  <2> QED BY <2>1, Zenon
<1> HIDE DEF f
<1>4. \A i \in 0..L : f[i] = IF i = 0 THEN st ELSE Accumulated(f[i - 1], rows[i])
  BY <1>3 DEF After
<1> DEFINE T == {i \in 0..L : ~ReadRows(st, rows, f[i], i)}
<1>5. SUFFICES ASSUME T # {} PROVE FALSE
  BY <1>1, <1>2
<1>6. T \subseteq Nat
  OBVIOUS
<1> HIDE DEF T
<1>7. PICK n \in T : \A k \in T : n <= k
  BY <1>5, <1>6, Least
<1>8. n \in 0..L /\ ~ReadRows(st, rows, f[n], n)
  BY <1>7 DEF T
<1>9. n # 0
  <2>1. ReadRows(st, rows, st, 0)
    <3>1. \A k \in Keys : st[k] # NoStats => st[k].total \in Nat
      BY DEF Entry
    <3> QED BY <3>1 DEF ReadRows
  <2> QED BY <1>1, <1>4, <1>8, <2>1
<1>10. n \in 1..L /\ n - 1 \in 0..L /\ n - 1 \notin T
  BY <1>1, <1>7, <1>8, <1>9
<1>11. ReadRows(st, rows, f[n - 1], n - 1)
  BY <1>10 DEF T
<1>12. ReadRows(st, rows, Accumulated(f[n - 1], rows[n]), n)
  BY <1>10, <1>11, ReadNext
<1>13. f[n] = Accumulated(f[n - 1], rows[n])
  BY <1>4, <1>8, <1>9
<1> QED BY <1>8, <1>12, <1>13

\* A finite set in the order SetToSeq chooses: each element once.
LEMMA Listed ==
  ASSUME NEW S, IsFiniteSet(S)
  PROVE  LET q == SetToSeq(S)
         IN /\ q \in Seq(S)
            /\ \A i, j \in DOMAIN q : q[i] = q[j] => i = j
<1> DEFINE n == Cardinality(S)
<1>1. n \in Nat
  BY FS_CardinalityType
<1>2. \E f \in [1..n -> S] : IsInjective(f)
  <2>1. ExistsBijection(1..n, S)
    BY FS_NatBijection, FS_CountingElements
  <2>2. PICK f \in Bijection(1..n, S) : TRUE
    BY <2>1 DEF ExistsBijection
  <2>3. f \in [1..n -> S] /\ IsInjective(f)
    BY <2>2 DEF Bijection, Injection, Surjection, IsInjective
  <2> QED BY <2>3
<1> DEFINE q == CHOOSE f \in [1..n -> S] : IsInjective(f)
<1>3. q \in [1..n -> S] /\ IsInjective(q)
  BY <1>2, Zenon
<1>4. SetToSeq(S) = q
  BY DEF SetToSeq
<1> HIDE DEF q
<1>5. q \in Seq(S)
  BY <1>1, <1>3
<1>6. \A i, j \in DOMAIN q : q[i] = q[j] => i = j
  BY <1>3 DEF IsInjective
<1> QED BY <1>4, <1>5, <1>6

\* The rows of a dump: one for each live peer of the interface.
LEMMA DumpedRows ==
  ASSUME Types, NEW i \in Ifaces
  PROVE  /\ DumpRows(i) \in Seq(Rows) /\ OnePerKey(DumpRows(i))
         /\ \A n \in DOMAIN DumpRows(i) :
              /\ DumpRows(i)[n].key \in Keys
              /\ raw[<<i, DumpRows(i)[n].key>>] # Absent
              /\ DumpRows(i)[n].raw = raw[<<i, DumpRows(i)[n].key>>]
<1> DEFINE live == {k \in Keys : raw[<<i, k>>] # Absent}
           S == {[key |-> k, raw |-> raw[<<i, k>>], due |-> due[k]] : k \in live}
           q == SetToSeq(S)
<1>1. DumpRows(i) = q
  BY DEF DumpRows
<1>2. IsFiniteSet(S)
  <2>1. IsFiniteSet(live)
    BY KeysAssumption, FS_Subset
  <2> DEFINE f == [k \in live |-> [key |-> k, raw |-> raw[<<i, k>>], due |-> due[k]]]
  <2>2. S = {f[k] : k \in live}
    OBVIOUS
  <2>3. f \in Surjection(live, S)
    BY <2>2 DEF Surjection
  <2> HIDE DEF live, S, f
  <2> QED BY <2>1, <2>3, FS_Surjection
<1>3. \A x \in S : /\ x \in Rows /\ x.key \in Keys /\ raw[<<i, x.key>>] # Absent
                   /\ x.raw = raw[<<i, x.key>>] /\ x.due = due[x.key]
  <2> TAKE x \in S
  <2>1. PICK k \in live : x = [key |-> k, raw |-> raw[<<i, k>>], due |-> due[k]]
    OBVIOUS
  <2>2. k \in Keys /\ raw[<<i, k>>] \in Nat /\ due[k] \in Nat /\ raw[<<i, k>>] # Absent
    BY DEF Types, Absent
  <2> HIDE DEF live
  <2>3. x.key = k /\ x.raw = raw[<<i, k>>] /\ x.due = due[k]
    BY <2>1
  <2>4. x \in Rows
    BY <2>1, <2>2 DEF Rows
  <2> QED BY <2>2, <2>3, <2>4
<1>4. ASSUME NEW x \in S, NEW y \in S, x.key = y.key
      PROVE  x = y
  <2>1. PICK k \in live : x = [key |-> k, raw |-> raw[<<i, k>>], due |-> due[k]]
    OBVIOUS
  <2>2. PICK l \in live : y = [key |-> l, raw |-> raw[<<i, l>>], due |-> due[l]]
    OBVIOUS
  <2>3. k = l
    BY <1>4, <2>1, <2>2
  <2> QED BY <2>1, <2>2, <2>3
<1> HIDE DEF S
<1>5. q \in Seq(S) /\ \A j, l \in DOMAIN q : q[j] = q[l] => j = l
  BY <1>2, Listed
<1> HIDE DEF q
<1>6. \A n \in DOMAIN q : q[n] \in S
  BY <1>5
<1>7. q \in Seq(Rows)
  <2>1. Len(q) \in Nat /\ DOMAIN q = 1..Len(q)
    BY <1>5
  <2>2. q = [n \in 1..Len(q) |-> q[n]]
    BY <1>5
  <2>3. \A n \in 1..Len(q) : q[n] \in Rows
    BY <1>3, <1>6, <2>1
  <2> QED BY <2>1, <2>2, <2>3
<1>8. OnePerKey(q)
  BY <1>4, <1>5, <1>6 DEF OnePerKey
<1> QED BY <1>1, <1>3, <1>6, <1>7, <1>8

-----------------------------------------------------------------------------
(***************************************************************************)
(* Every step keeps the invariant.                                         *)
(***************************************************************************)
\* Traffic moves the counters only.
LEMMA TrafficInv ==
  ASSUME UsageInv, NEW i \in Ifaces, NEW k \in Keys, Traffic(i, k)
  PROVE  UsageInv'
<1> USE DEF UsageInv
<1>1. /\ raw' = [raw EXCEPT ![<<i, k>>] = @ + 1] /\ raw[<<i, k>>] # Absent
      /\ moved' = [moved EXCEPT ![k] = @ + 1] /\ moved[k] < MaxBytes
      /\ due' = [due EXCEPT ![k] = @ + 1]
      /\ UNCHANGED <<client, fresh, stats, file, unread, mgr, cmu, th, phase>>
  BY DEF Traffic
<1>2. Types'
  BY <1>1, BytesAssumption DEF Types
<1>3. LockInv' /\ RequestInv' /\ FileInv'
  BY <1>1 DEF LockInv, RequestInv, FileInv
<1>4. KeyInv'
  BY <1>1 DEF KeyInv, Types
<1> QED BY <1>2, <1>3, <1>4

\* A new client has a key that nobody had.
LEMMA CreateInv ==
  ASSUME UsageInv, NEW id \in IDs, NEW k \in Keys, NEW i \in Ifaces, CreateClient(id, k, i)
  PROVE  UsageInv'
<1> USE DEF UsageInv
<1>1. /\ raw' = [raw EXCEPT ![<<i, k>>] = 0] /\ k \in fresh /\ client[id] = NoKey
      /\ client' = [client EXCEPT ![id] = k] /\ fresh' = fresh \ {k} /\ mgr = Nobody
      /\ UNCHANGED <<moved, due, stats, file, unread, mgr, cmu, th, phase>>
  BY DEF CreateClient
<1>2. Types'
  BY <1>1 DEF Types
<1>3. LockInv'
  BY <1>1 DEF LockInv
<1>4. KeyInv'
  BY <1>1, NamesAssumption DEF KeyInv, Types
<1>5. RequestInv'
  BY <1>1, NamesAssumption DEF RequestInv, Types, KeyInv, LockInv, Threads
<1>6. FileInv'
  BY <1>1, NamesAssumption DEF FileInv, KeyInv, Types
<1> QED BY <1>2, <1>3, <1>4, <1>5, <1>6

\* A request starts.
LEMMA StartType ==
  ASSUME NEW pc \in Steps, NEW id \in IDs, NEW k \in Keys
  PROVE  LET x == [Idle EXCEPT !.pc = pc, !.id = id, !.key = k]
         IN x.pc = pc /\ x.id = id /\ x.key = k /\ x \in ThreadStates
<1>1. Idle \in ThreadStates
  BY DEF Idle, ThreadStates, Steps
<1> QED BY <1>1 DEF ThreadStates

\* The request reads its client.
LEMMA BeginInv ==
  ASSUME UsageInv, NEW t \in Handlers, NEW id \in IDs, NEW pc \in {"delete", "snapshot"},
         client[id] # NoKey, mgr = Nobody,
         th' = [th EXCEPT ![t] = [Idle EXCEPT !.pc = pc, !.id = id, !.key = client[id]]],
         mgr' = IF pc = "snapshot" THEN t ELSE mgr,
         UNCHANGED <<raw, moved, due, client, fresh, stats, file, unread, cmu, phase>>
  PROVE  UsageInv'
<1> USE DEF UsageInv
<1> DEFINE k == client[id]
           x == [Idle EXCEPT !.pc = pc, !.id = id, !.key = k]
<1>1. k \in Keys /\ pc \in Steps
  BY DEF Types, Steps
<1>2. x.pc = pc /\ x.id = id /\ x.key = k /\ x \in ThreadStates
  <2> HIDE DEF k
  <2> QED BY <1>1, StartType
<1>3. th' = [th EXCEPT ![t] = x]
  OBVIOUS
<1> HIDE DEF x
<1>4. t \in Threads /\ t # Collector /\ t # Nobody
  BY NamesAssumption DEF Threads
<1>5. /\ th' \in [Threads -> ThreadStates] /\ th'[t] = x
      /\ \A u \in Threads \ {t} : th'[u] = th[u]
  BY <1>2, <1>3, <1>4 DEF Types
<1>6. Types'
  BY <1>4, <1>5 DEF Types
<1>7. LockInv'
  <2>1. \A u \in Handlers : th[u].pc \notin {"snapshot", "dump", "migrate"}
    BY NamesAssumption DEF LockInv, Threads
  <2>2. th'[Collector] = th[Collector]
    BY <1>4, <1>5 DEF Threads
  <2>3. \A u \in Handlers : th'[u].pc \in {"snapshot", "dump", "migrate"} => u = t /\ pc = "snapshot"
    BY <1>2, <1>5, <2>1 DEF Threads
  <2>4. \A u \in Threads : th'[u].pc \in {"dump", "migrate"} => th'[u] = th[u]
    BY <1>2, <1>5
  <2> QED BY <2>2, <2>3, <2>4 DEF LockInv
<1>8. KeyInv' /\ FileInv'
  BY DEF KeyInv, FileInv
<1>9. RequestInv'
  BY <1>1, <1>2, <1>4, <1>5 DEF RequestInv, KeyInv, Threads
<1> QED BY <1>6, <1>7, <1>8, <1>9

\* A thread is idle again.
LEMMA FinishType ==
  ASSUME Types, NEW t \in Threads, Finish(t)
  PROVE  /\ th' \in [Threads -> ThreadStates] /\ th'[t] = Idle /\ Idle.pc = "idle"
         /\ \A u \in Threads \ {t} : th'[u] = th[u]
<1>1. Idle \in ThreadStates /\ Idle.pc = "idle"
  BY DEF Idle, ThreadStates, Steps
<1> QED BY <1>1 DEF Finish, Types

\* A thread goes on.
LEMMA AtType ==
  ASSUME Types, NEW t \in Threads, NEW pc \in Steps, At(t, pc)
  PROVE  /\ th' \in [Threads -> ThreadStates] /\ th'[t].pc = pc
         /\ th'[t].id = th[t].id /\ th'[t].key = th[t].key /\ th'[t].todo = th[t].todo
         /\ th'[t].rows = th[t].rows
         /\ \A u \in Threads \ {t} : th'[u] = th[u]
<1> DEFINE x == [th[t] EXCEPT !.pc = pc]
<1>1. th[t] \in ThreadStates
  BY DEF Types
<1>2. /\ x \in ThreadStates /\ x.pc = pc /\ x.id = th[t].id /\ x.key = th[t].key
      /\ x.todo = th[t].todo /\ x.rows = th[t].rows
  BY <1>1 DEF ThreadStates
<1>3. th' = [th EXCEPT ![t] = x]
  BY DEF At
<1> HIDE DEF x
<1> QED BY <1>2, <1>3 DEF Types

\* A request that ends changes no key.
LEMMA DeleteGoneInv ==
  ASSUME UsageInv, NEW t \in Handlers, DeleteGone(t)
  PROVE  UsageInv'
<1> USE DEF UsageInv
<1>1. t \in Threads /\ t # Collector
  BY NamesAssumption DEF Threads
<1>2. UNCHANGED <<raw, moved, due, client, fresh, stats, file, unread, mgr, cmu, phase>>
  BY DEF DeleteGone
<1>3. /\ th' \in [Threads -> ThreadStates] /\ th'[t].pc = "idle"
      /\ \A u \in Threads \ {t} : th'[u] = th[u]
  BY <1>1, FinishType DEF DeleteGone
<1>4. Types'
  BY <1>2, <1>3 DEF Types
<1>5. LockInv'
  BY <1>1, <1>2, <1>3 DEF LockInv, Threads
<1>6. KeyInv' /\ FileInv'
  BY <1>2 DEF KeyInv, FileInv
<1>7. RequestInv'
  BY <1>2, <1>3 DEF RequestInv, Threads
<1> QED BY <1>4, <1>5, <1>6, <1>7

\* A deletion takes a client and its peer away.
LEMMA DeleteCommittedInv ==
  ASSUME UsageInv, NEW t \in Handlers, DeleteCommitted(t)
  PROVE  UsageInv'
<1> USE DEF UsageInv
<1> DEFINE id == th[t].id
           k == client[id]
<1>1. t \in Threads /\ t # Collector
  BY NamesAssumption DEF Threads
<1>2. th[t].pc = "delete" /\ mgr = Nobody /\ k # NoKey /\ id \in IDs /\ k \in Keys
  BY DEF DeleteCommitted, RequestInv, Types
<1>3. /\ client' = [client EXCEPT ![id] = NoKey]
      /\ \E i \in Ifaces : raw' = [raw EXCEPT ![<<i, k>>] = Absent]
      /\ due' = [due EXCEPT ![k] = Collected(k)]
      /\ UNCHANGED <<moved, fresh, stats, file, unread, mgr, cmu, phase>>
  BY DEF DeleteCommitted, DropUncollected, Homes
<1>4. /\ th' \in [Threads -> ThreadStates]
      /\ th'[t].pc = "idle" \/ (th'[t].pc = "removeStats" /\ th'[t].key = th[t].key)
      /\ \A u \in Threads \ {t} : th'[u] = th[u]
  <2>1. CASE Finish(t)
    BY <1>1, <2>1, FinishType
  <2>2. CASE At(t, "removeStats")
    <3> DEFINE pc == "removeStats"
    <3>1. At(t, pc) /\ pc \in Steps
      BY <2>2 DEF Steps
    <3> HIDE DEF pc
    <3>2. /\ th' \in [Threads -> ThreadStates] /\ th'[t].pc = pc /\ th'[t].key = th[t].key
          /\ \A u \in Threads \ {t} : th'[u] = th[u]
      BY <1>1, <3>1, AtType
    <3> QED BY <3>2 DEF pc
  <2> QED BY <2>1, <2>2 DEF DeleteCommitted
<1> HIDE DEF id, k
<1>5. Collected(k) \in Nat
  BY <1>2 DEF Types, Collected, TotalIn, Entry
<1>6. Types'
  <2>1. PICK i \in Ifaces : raw' = [raw EXCEPT ![<<i, k>>] = Absent]
    BY <1>3
  <2> QED BY <1>2, <1>3, <1>4, <1>5, <2>1 DEF Types
<1>7. LockInv'
  BY <1>1, <1>3, <1>4 DEF LockInv, Threads
<1>8. KeyInv'
  <2>1. PICK i \in Ifaces : raw' = [raw EXCEPT ![<<i, k>>] = Absent]
    BY <1>3
  <2>2. NoKey \notin fresh
    BY NamesAssumption DEF Types
  <2> QED BY <1>2, <1>3, <2>1, <2>2 DEF KeyInv, Types
<1>9. FileInv'
  BY <1>2, <1>3, NamesAssumption DEF FileInv, Types
<1>10. RequestInv'
  <2>1. \A x \in IDs : client'[x] # NoKey => client'[x] = client[x] /\ x # id
    BY <1>2, <1>3 DEF Types
  <2>2. \A u \in Handlers : th[u].pc \notin {"snapshot", "dump", "migrate"}
    BY <1>2, NamesAssumption DEF LockInv, Threads
  <2>3. \A u \in Handlers : th'[u].pc \notin {"snapshot", "dump", "migrate"}
    BY <1>4, <2>2 DEF Threads
  <2>4. \A u \in Handlers : th'[u].pc = "delete" => u # t /\ th'[u] = th[u]
    BY <1>4 DEF Threads
  <2>5. \A u \in Handlers : th'[u].pc = "removeStats" =>
          /\ th'[u].key \in Keys \ fresh
          /\ \A x \in IDs : client'[x] # th'[u].key
    <3> SUFFICES ASSUME NEW u \in Handlers, th'[u].pc = "removeStats"
                 PROVE  /\ th'[u].key \in Keys \ fresh
                        /\ \A x \in IDs : client'[x] # th'[u].key
      OBVIOUS
    <3>1. CASE u = t
      <4>1. th'[t].key = th[t].key /\ th[t].key \in Keys \ fresh
        BY <1>2, <1>4, <3>1 DEF RequestInv
      <4>2. \A x \in IDs : client[x] = th[t].key => x = id
        BY <1>2 DEF RequestInv, id
      <4> QED BY <2>1, <3>1, <4>1, <4>2, NamesAssumption
    <3>2. CASE u # t
      <4>1. th'[u] = th[u] /\ th[u].pc = "removeStats"
        BY <1>4, <3>2 DEF Threads
      <4> QED BY <2>1, <4>1, NamesAssumption DEF RequestInv
    <3> QED BY <3>1, <3>2
  <2>6. \A u \in Handlers : th'[u].pc = "delete" =>
          /\ th'[u].id \in IDs /\ th'[u].key \in Keys \ fresh
          /\ \A x \in IDs : client'[x] = th'[u].key => x = th'[u].id
    BY <2>1, <2>4, NamesAssumption DEF RequestInv
  <2> QED BY <1>3, <2>3, <2>5, <2>6 DEF RequestInv
<1> QED BY <1>6, <1>7, <1>8, <1>9, <1>10

\* The steps of a request that holds the manager's mutex.
Guarded == {"snapshot", "dump", "migrate"}

\* Thread t goes on, or ends, and takes no lock from another thread.
Goes(t) ==
  /\ th' \in [Threads -> ThreadStates]
  /\ \A u \in Threads \ {t} : /\ th'[u] = th[u]
                              /\ cmu = u => cmu' = u
                              /\ mgr = u => mgr' = u
  /\ th'[t].pc \in {"dump", "migrate"} => cmu' = t
  /\ t = Collector => th'[t].pc \in {"idle", "dump", "save", "exit"}
  /\ t # Collector => \/ th'[t].pc = "idle"
                      \/ /\ th[t].pc \in Guarded /\ th'[t].pc \in Guarded /\ mgr' = t
                         /\ th'[t].id = th[t].id /\ th'[t].key = th[t].key

\* Such a step keeps the locks and the keys of the requests in order.
LEMMA GoesInv ==
  ASSUME UsageInv, NEW t \in Threads, Goes(t), UNCHANGED <<client, fresh>>
  PROVE  LockInv' /\ RequestInv'
<1> USE DEF UsageInv
<1>1. Handlers \subseteq Threads /\ Collector \in Threads
  BY DEF Threads
<1>2. LockInv'
  <2>1. th'[Collector].pc \in {"idle", "dump", "save", "exit"}
    BY <1>1 DEF Goes, LockInv
  <2>2. \A u \in Threads : th'[u].pc \in {"dump", "migrate"} => cmu' = u
    BY DEF Goes, LockInv
  <2>3. ASSUME NEW u \in Handlers, th'[u].pc \in Guarded PROVE mgr' = u
    <3>1. u # Collector
      BY NamesAssumption
    <3>2. CASE u = t
      BY <2>3, <3>1, <3>2 DEF Goes, Guarded
    <3>3. CASE u # t
      BY <1>1, <2>3, <3>3 DEF Goes, LockInv, Guarded
    <3> QED BY <3>2, <3>3
  <2> QED BY <2>1, <2>2, <2>3 DEF LockInv, Guarded
<1>3. RequestInv'
  <2> SUFFICES ASSUME NEW u \in Handlers
               PROVE  /\ th'[u].pc \in {"delete"} \cup Guarded => th'[u].id \in IDs
                      /\ th'[u].pc \in {"delete", "removeStats"} \cup Guarded =>
                           th'[u].key \in Keys \ fresh
                      /\ th'[u].pc = "delete" => \A x \in IDs : client[x] = th'[u].key => x = th'[u].id
                      /\ th'[u].pc = "removeStats" => \A x \in IDs : client[x] # th'[u].key
                      /\ th'[u].pc \in Guarded => client[th'[u].id] = th'[u].key
    BY DEF RequestInv, Guarded
  <2>1. u # Collector /\ u \in Threads
    BY <1>1, NamesAssumption
  <2>2. CASE u # t
    <3>1. th'[u] = th[u]
      BY <2>1, <2>2 DEF Goes
    <3> QED BY <3>1 DEF RequestInv, Guarded
  <2>3. CASE u = t /\ th'[t].pc = "idle"
    BY <2>3 DEF Guarded
  <2>4. CASE /\ u = t /\ th[t].pc \in Guarded /\ th'[t].pc \in Guarded
             /\ th'[t].id = th[t].id /\ th'[t].key = th[t].key
    BY <2>4 DEF RequestInv, Guarded
  <2> QED BY <2>1, <2>2, <2>3, <2>4 DEF Goes
<1> QED BY <1>2, <1>3

\* A thread ends and releases what it holds.
LEMMA FinishGoes ==
  ASSUME UsageInv, NEW t \in Threads, Finish(t),
         \/ UNCHANGED <<mgr, cmu>>
         \/ cmu = t /\ mgr = t /\ cmu' = Nobody /\ mgr' = Nobody
  PROVE  Goes(t)
<1>1. /\ th' \in [Threads -> ThreadStates] /\ th'[t].pc = "idle"
      /\ \A u \in Threads \ {t} : th'[u] = th[u]
  BY FinishType DEF UsageInv
<1>2. \A u \in Threads \ {t} : (cmu = u => cmu' = u) /\ (mgr = u => mgr' = u)
  OBVIOUS
<1> QED BY <1>1, <1>2 DEF Goes

\* A deletion that is undone gives its peer new counters.
LEMMA DeleteUndoneInv ==
  ASSUME UsageInv, NEW t \in Handlers, DeleteUndone(t)
  PROVE  UsageInv'
<1> USE DEF UsageInv
<1> DEFINE k == client[th[t].id]
<1>1. t \in Threads /\ t # Collector
  BY NamesAssumption DEF Threads
<1>2. k \in Keys /\ th[t].id \in IDs
  BY DEF DeleteUndone, RequestInv, Types
<1>3. /\ due' = [due EXCEPT ![k] = Collected(k)]
      /\ UNCHANGED <<moved, client, fresh, stats, file, unread, mgr, cmu, phase>>
  BY DEF DeleteUndone, DropUncollected
<1>4. PICK i \in Ifaces : raw' = Moved(k, i, i)
  BY DEF DeleteUndone, Homes
<1>5. Goes(t)
  BY <1>1, <1>3, FinishGoes DEF DeleteUndone
<1>6. k \notin fresh
  BY <1>2 DEF KeyInv
<1> HIDE DEF k
<1>7. Collected(k) \in Nat
  BY <1>2 DEF Types, Collected, TotalIn, Entry
<1>8. /\ raw' \in [Ifaces \X Keys -> Nat \cup {Absent}]
      /\ \A j \in Ifaces, l \in Keys : l # k => raw'[<<j, l>>] = raw[<<j, l>>]
  BY <1>2, <1>4 DEF Moved, Types
<1>9. Types'
  BY <1>2, <1>3, <1>5, <1>7, <1>8 DEF Types, Goes
<1>10. LockInv' /\ RequestInv'
  BY <1>1, <1>3, <1>5, GoesInv
<1>11. KeyInv' /\ FileInv'
  BY <1>3, <1>6, <1>8 DEF KeyInv, FileInv
<1> QED BY <1>9, <1>10, <1>11

\* RemoveStats takes the entry of a key that no client has any more.
LEMMA RemoveStatsInv ==
  ASSUME UsageInv, NEW t \in Handlers, RemoveStats(t)
  PROVE  UsageInv'
<1> USE DEF UsageInv
<1>1. t \in Threads /\ t # Collector
  BY NamesAssumption DEF Threads
<1>2. /\ th[t].pc = "removeStats" /\ stats' = [stats EXCEPT ![th[t].key] = NoStats]
      /\ UNCHANGED <<raw, moved, due, client, fresh, file, unread, mgr, cmu, phase>>
  BY DEF RemoveStats
<1>3. Goes(t)
  BY <1>1, <1>2, FinishGoes DEF RemoveStats
<1>4. Types'
  BY <1>2, <1>3 DEF Types, Goes, Entry
<1>5. LockInv' /\ RequestInv'
  BY <1>1, <1>2, <1>3, GoesInv
<1>6. KeyInv'
  BY <1>2 DEF KeyInv
<1>7. th[t].key \notin fresh /\ \A x \in IDs : client[x] # th[t].key
  BY <1>2 DEF RequestInv
<1>8. FileInv'
  BY <1>2, <1>7 DEF FileInv, Types
<1> QED BY <1>4, <1>5, <1>6, <1>8

\* A thread that goes on with its collection.
Collecting(x, pc, todo, rows) == [x EXCEPT !.pc = pc, !.todo = todo, !.rows = rows]

\* Its fields.
LEMMA SetFields ==
  ASSUME NEW x \in ThreadStates, NEW pc \in Steps, NEW todo \in SUBSET Ifaces,
         NEW rows \in Seq(Rows)
  PROVE  LET y == Collecting(x, pc, todo, rows)
         IN /\ y \in ThreadStates /\ y.pc = pc /\ y.todo = todo /\ y.rows = rows
            /\ y.id = x.id /\ y.key = x.key
<1> DEFINE R == Seq(Rows)
           D == SUBSET Ifaces
           I == IDs \cup {NoID}
           K == Keys \cup {NoKey}
           y == Collecting(x, pc, todo, rows)
<1>1. ThreadStates = [pc: Steps, id: I, key: K, todo: D, rows: R]
  BY DEF ThreadStates
<1>2. rows \in R /\ todo \in D
  OBVIOUS
<1> HIDE DEF R, D, I, K
<1> DEFINE v == [x EXCEPT !.pc = pc]
           w == [v EXCEPT !.todo = todo]
<1>3. v \in ThreadStates /\ v.pc = pc /\ v.id = x.id /\ v.key = x.key
  BY <1>1
<1>4. y = [w EXCEPT !.rows = rows]
  BY DEF Collecting
<1> HIDE DEF v
<1>5. w \in ThreadStates /\ w.pc = pc /\ w.todo = todo /\ w.id = x.id /\ w.key = x.key
  BY <1>1, <1>2, <1>3
<1> HIDE DEF w, y
<1>6. /\ y \in ThreadStates /\ y.pc = pc /\ y.todo = todo /\ y.rows = rows
      /\ y.id = x.id /\ y.key = x.key
  BY <1>1, <1>2, <1>4, <1>5
<1> QED BY <1>6 DEF y

\* A thread that keeps its list of interfaces.
LEMMA SameTodo ==
  ASSUME NEW x \in ThreadStates, NEW pc, NEW rows
  PROVE  [x EXCEPT !.pc = pc, !.rows = rows] = Collecting(x, pc, x.todo, rows)
<1>1. [[x EXCEPT !.pc = pc] EXCEPT !.todo = x.todo] = [x EXCEPT !.pc = pc]
  BY DEF ThreadStates
<1> QED BY <1>1 DEF Collecting

\* A thread changes its collection.
LEMMA CollectType ==
  ASSUME Types, NEW t \in Threads, NEW pc \in Steps, NEW todo \in SUBSET Ifaces,
         NEW rows \in Seq(Rows),
         th' = [th EXCEPT ![t] = Collecting(th[t], pc, todo, rows)]
  PROVE  /\ th' \in [Threads -> ThreadStates]
         /\ th'[t].pc = pc /\ th'[t].todo = todo /\ th'[t].rows = rows
         /\ th'[t].id = th[t].id /\ th'[t].key = th[t].key
         /\ \A u \in Threads \ {t} : th'[u] = th[u]
<1> DEFINE x == th[t]
           y == Collecting(x, pc, todo, rows)
<1>1. x \in ThreadStates
  BY DEF Types
<1>2. th' = [th EXCEPT ![t] = y]
  OBVIOUS
<1> HIDE DEF x
<1>3. /\ y \in ThreadStates /\ y.pc = pc /\ y.todo = todo /\ y.rows = rows
      /\ y.id = x.id /\ y.key = x.key
  BY <1>1, SetFields
<1> HIDE DEF y
<1> QED BY <1>2, <1>3 DEF x, Types

\* A step of one thread that touches no counter, key or entry.
LEMMA QuietInv ==
  ASSUME UsageInv, NEW t \in Threads, Goes(t), mgr' \in {mgr, Nobody}, cmu' \in {cmu, t, Nobody},
         phase' \in {"up", "draining", "final"},
         UNCHANGED <<raw, moved, due, client, fresh, stats, file, unread>>
  PROVE  UsageInv'
<1> USE DEF UsageInv
<1>1. Types'
  BY DEF Types, Goes
<1>2. LockInv' /\ RequestInv'
  BY GoesInv
<1>3. KeyInv' /\ FileInv'
  BY DEF KeyInv, FileInv
<1> QED BY <1>1, <1>2, <1>3

\* A collection starts with the interfaces that have peers.
LEMMA StartDumpsType ==
  ASSUME Types, NEW t \in Threads, StartDumps(t)
  PROVE  /\ th' \in [Threads -> ThreadStates] /\ cmu' = t
         /\ th'[t].pc = "dump" /\ th'[t].todo = Active /\ th'[t].rows = <<>>
         /\ th'[t].id = th[t].id /\ th'[t].key = th[t].key
         /\ \A u \in Threads \ {t} : th'[u] = th[u]
<1> DEFINE pc == "dump"
           rows == <<>>
<1>1. pc \in Steps /\ Active \in SUBSET Ifaces
  BY DEF Steps, Active
<1>1a. rows \in Seq(Rows)
  OBVIOUS
<1>2. th' = [th EXCEPT ![t] = Collecting(th[t], pc, Active, rows)]
  BY DEF StartDumps, Collecting, Types
<1> HIDE DEF pc, rows
<1>3. /\ th' \in [Threads -> ThreadStates]
      /\ th'[t].pc = pc /\ th'[t].todo = Active /\ th'[t].rows = rows
      /\ th'[t].id = th[t].id /\ th'[t].key = th[t].key
      /\ \A u \in Threads \ {t} : th'[u] = th[u]
  BY <1>1, <1>1a, <1>2, CollectType
<1> QED BY <1>3 DEF pc, rows, StartDumps

\* A required snapshot takes the collector's guard.
LEMMA SnapshotInvariant ==
  ASSUME UsageInv, NEW t \in Handlers, Snapshot(t)
  PROVE  UsageInv'
<1> USE DEF UsageInv
<1>1. t \in Threads /\ t # Collector
  BY NamesAssumption DEF Threads
<1>2. /\ th[t].pc = "snapshot" /\ cmu = Nobody /\ mgr = t
      /\ UNCHANGED <<raw, moved, due, client, fresh, stats, file, unread, mgr, phase>>
  BY DEF Snapshot, LockInv
<1>3. /\ th' \in [Threads -> ThreadStates] /\ cmu' = t /\ th'[t].pc = "dump"
      /\ th'[t].id = th[t].id /\ th'[t].key = th[t].key
      /\ \A u \in Threads \ {t} : th'[u] = th[u]
  BY <1>1, StartDumpsType DEF Snapshot
<1>4. Goes(t)
  BY <1>1, <1>2, <1>3, NamesAssumption DEF Goes, Guarded
<1> QED BY <1>1, <1>2, <1>3, <1>4, QuietInv DEF Types

\* So does a collection.
LEMMA CollectInv ==
  ASSUME UsageInv, Collect
  PROVE  UsageInv'
<1> USE DEF UsageInv
<1>1. Collector \in Threads
  BY DEF Threads
<1>2. /\ cmu = Nobody /\ phase' \in {"up", "draining", "final"}
      /\ UNCHANGED <<raw, moved, due, client, fresh, stats, file, unread, mgr>>
  BY DEF Collect
<1>3. /\ th' \in [Threads -> ThreadStates] /\ cmu' = Collector /\ th'[Collector].pc = "dump"
      /\ \A u \in Threads \ {Collector} : th'[u] = th[u]
  BY <1>1, StartDumpsType DEF Collect
<1>4. Goes(Collector)
  BY <1>2, <1>3, NamesAssumption DEF Goes
<1> QED BY <1>1, <1>2, <1>3, <1>4, QuietInv

\* A collection crosses an interface off its list, with its rows or without.
LEMMA DumpType ==
  ASSUME Types, NEW t \in Threads, NEW i \in Ifaces, Dump(t, i) \/ (t = Collector /\ DumpSkipped(i))
  PROVE  /\ th' \in [Threads -> ThreadStates]
         /\ th'[t].pc = "dump" /\ th'[t].todo = th[t].todo \ {i}
         /\ \/ Dump(t, i) /\ th'[t].rows = th[t].rows \o DumpRows(i)
            \/ th'[t].rows = th[t].rows
         /\ th'[t].id = th[t].id /\ th'[t].key = th[t].key
         /\ \A u \in Threads \ {t} : th'[u] = th[u]
<1> DEFINE x == th[t]
           pc == x.pc
           todo == x.todo \ {i}
           rows == IF Dump(t, i) THEN x.rows \o DumpRows(i) ELSE x.rows
<1>1. x \in ThreadStates /\ pc = "dump"
  BY DEF Types, Dump, DumpSkipped
<1>2. pc \in Steps /\ todo \in SUBSET Ifaces /\ x.rows \in Seq(Rows)
  BY <1>1 DEF ThreadStates, Steps
<1>3. DumpRows(i) \in Seq(Rows)
  BY DumpedRows
<1>4. rows \in Seq(Rows)
  BY <1>2, <1>3
<1>5. th' = [th EXCEPT ![t] = Collecting(th[t], pc, todo, rows)]
  <2>1. CASE Dump(t, i)
    BY <1>1, <2>1 DEF Dump, Collecting, Types, ThreadStates
  <2>2. CASE ~Dump(t, i)
    BY <1>1, <2>2 DEF DumpSkipped, Collecting, Types, ThreadStates
  <2> QED BY <2>1, <2>2
<1>6. rows = x.rows \/ (Dump(t, i) /\ rows = x.rows \o DumpRows(i))
  OBVIOUS
<1> HIDE DEF pc, todo, rows
<1>7. /\ th' \in [Threads -> ThreadStates]
      /\ th'[t].pc = pc /\ th'[t].todo = todo /\ th'[t].rows = rows
      /\ th'[t].id = th[t].id /\ th'[t].key = th[t].key
      /\ \A u \in Threads \ {t} : th'[u] = th[u]
  BY <1>2, <1>4, <1>5, CollectType
<1> QED BY <1>1, <1>6, <1>7 DEF todo

\* A dump, or a skipped one, changes nothing but the collection.
LEMMA DumpInv ==
  ASSUME UsageInv, NEW t \in Threads, NEW i \in Ifaces, Dump(t, i) \/ (t = Collector /\ DumpSkipped(i))
  PROVE  UsageInv'
<1> USE DEF UsageInv
<1>1. /\ th[t].pc = "dump"
      /\ UNCHANGED <<raw, moved, due, client, fresh, stats, file, unread, mgr, cmu, phase>>
  BY DEF Dump, DumpSkipped
<1>2. /\ th' \in [Threads -> ThreadStates] /\ th'[t].pc = "dump"
      /\ th'[t].id = th[t].id /\ th'[t].key = th[t].key
      /\ \A u \in Threads \ {t} : th'[u] = th[u]
  BY DumpType
<1>3. cmu = t /\ (t # Collector => mgr = t)
  BY <1>1 DEF LockInv, Threads
<1>4. Goes(t)
  BY <1>1, <1>2, <1>3 DEF Goes, Guarded
<1> QED BY <1>1, <1>4, QuietInv DEF Types

\* A required snapshot that fails releases both locks.
LEMMA SnapshotFailedInv ==
  ASSUME UsageInv, NEW t \in Handlers, SnapshotFailed(t)
  PROVE  UsageInv'
<1> USE DEF UsageInv
<1>1. t \in Threads /\ t # Collector
  BY NamesAssumption DEF Threads
<1>2. /\ th[t].pc = "dump" /\ mgr' = Nobody /\ cmu' = Nobody
      /\ UNCHANGED <<raw, moved, due, client, fresh, stats, file, unread, phase>>
  BY DEF SnapshotFailed
<1>3. cmu = t /\ mgr = t
  BY <1>1, <1>2 DEF LockInv
<1>4. Goes(t)
  BY <1>1, <1>2, <1>3, FinishGoes DEF SnapshotFailed
<1> QED BY <1>1, <1>2, <1>4, QuietInv DEF Types

\* A collection is added to the entries: none of them shrinks.
LEMMA ApplyInv ==
  ASSUME UsageInv, NEW t \in Threads, Apply(t)
  PROVE  UsageInv'
<1> USE DEF UsageInv
<1> DEFINE rows == th[t].rows
<1>1. /\ th[t].pc = "dump" /\ stats' = AccumulatedAll(stats, rows)
      /\ UNCHANGED <<raw, moved, due, client, fresh, file, unread, mgr, phase>>
  BY DEF Apply
<1>2. rows \in Seq(Rows) /\ stats \in [Keys -> Entry]
  BY DEF Types, ThreadStates
<1> HIDE DEF rows
<1>3. ReadRows(stats, rows, stats', Len(rows))
  BY <1>1, <1>2, AllRows
<1>4. cmu = t /\ (t # Collector => mgr = t)
  BY <1>1 DEF LockInv, Threads
<1>5. Goes(t) /\ cmu' \in {cmu, Nobody}
  <2>1. CASE t = Collector
    <3> DEFINE pc == "save"
               todo == th[t].todo
               none == <<>>
    <3>1. th' = [th EXCEPT ![t] = Collecting(th[t], pc, todo, none)] /\ cmu' = Nobody
      <4> DEFINE x == th[t]
      <4>1. x \in ThreadStates
        BY DEF Types
      <4>2. th' = [th EXCEPT ![t] = [x EXCEPT !.pc = pc, !.rows = none]] /\ cmu' = Nobody
        BY <2>1 DEF Apply, Types
      <4> HIDE DEF x, pc, none
      <4>3. [x EXCEPT !.pc = pc, !.rows = none] = Collecting(x, pc, x.todo, none)
        BY <4>1, SameTodo
      <4> QED BY <4>2, <4>3 DEF x
    <3>2. pc \in Steps /\ todo \in SUBSET Ifaces
      BY DEF Steps, Types, ThreadStates
    <3>3. none \in Seq(Rows)
      OBVIOUS
    <3> HIDE DEF pc, todo, none
    <3>4. /\ th' \in [Threads -> ThreadStates] /\ th'[t].pc = pc
          /\ \A u \in Threads \ {t} : th'[u] = th[u]
      BY <3>1, <3>2, <3>3, CollectType
    <3>5. th'[t].pc = "save"
      BY <3>4 DEF pc
    <3>6. \A u \in Threads \ {t} : (cmu = u => cmu' = u) /\ (mgr = u => mgr' = u)
      BY <1>1, <1>4
    <3> QED BY <2>1, <3>1, <3>4, <3>5, <3>6 DEF Goes
  <2>2. CASE t # Collector
    <3> DEFINE pc == "migrate"
    <3>1. At(t, pc) /\ cmu' = cmu /\ pc \in Steps
      BY <2>2 DEF Apply, Steps
    <3> HIDE DEF pc
    <3>2. /\ th' \in [Threads -> ThreadStates] /\ th'[t].pc = pc
          /\ th'[t].id = th[t].id /\ th'[t].key = th[t].key
          /\ \A u \in Threads \ {t} : th'[u] = th[u]
      BY <3>1, AtType
    <3> QED BY <1>1, <1>4, <2>2, <3>1, <3>2 DEF Goes, Guarded, pc
  <2> QED BY <2>1, <2>2
<1>6. Types'
  BY <1>1, <1>3, <1>5 DEF Types, Goes, ReadRows
<1>7. LockInv' /\ RequestInv'
  BY <1>1, <1>5, GoesInv
<1>8. KeyInv'
  BY <1>1 DEF KeyInv
<1>9. FileInv'
  <2> SUFFICES ASSUME ~unread, NEW k \in Keys, k \in fresh \/ \E x \in IDs : client[x] = k,
                      file[k] # NoStats
               PROVE  stats'[k] # NoStats /\ stats'[k].total >= file[k].total
    BY <1>1 DEF FileInv
  <2>1. stats[k] # NoStats /\ stats[k].total >= file[k].total
    BY DEF FileInv
  <2>2. stats'[k] # NoStats /\ stats'[k].total >= stats[k].total
    BY <1>3, <2>1 DEF ReadRows
  <2>3. stats'[k].total \in Nat /\ stats[k].total \in Nat /\ file[k].total \in Nat
    BY <1>6, <2>1, <2>2 DEF Types, Entry
  <2> QED BY <2>1, <2>2, <2>3
<1> QED BY <1>6, <1>7, <1>8, <1>9

\* The guarded action moves the peer of one client, or puts it on two interfaces.
LEMMA MigrateInv ==
  ASSUME UsageInv, NEW t \in Handlers, Migrate(t)
  PROVE  UsageInv'
<1> USE DEF UsageInv
<1> DEFINE k == th[t].key
<1>1. t \in Threads /\ t # Collector
  BY NamesAssumption DEF Threads
<1>2. /\ th[t].pc = "migrate" /\ mgr' = Nobody /\ cmu' = Nobody /\ Finish(t)
      /\ UNCHANGED <<moved, client, fresh, stats, file, unread, phase>>
  BY DEF Migrate
<1>3. cmu = t /\ mgr = t
  BY <1>1, <1>2 DEF LockInv
<1>4. k \in Keys \ fresh
  BY <1>2 DEF RequestInv
<1>5. Goes(t)
  BY <1>1, <1>2, <1>3, FinishGoes
<1>6. \/ \E i, j \in Ifaces : raw' = Moved(k, i, j) /\ DropUncollected(k)
      \/ UNCHANGED <<raw, due>>
      \/ (\E i \in Ifaces : raw' = [raw EXCEPT ![<<i, k>>] = 0]) /\ UNCHANGED due
  BY DEF Migrate, Homes
<1> HIDE DEF k
<1>7. Collected(k) \in Nat
  BY <1>4 DEF Types, Collected, TotalIn, Entry
<1>8. /\ raw' \in [Ifaces \X Keys -> Nat \cup {Absent}] /\ due' \in [Keys -> Nat]
      /\ \A j \in Ifaces, l \in Keys : l # k => raw'[<<j, l>>] = raw[<<j, l>>]
  <2>1. ASSUME NEW i \in Ifaces, NEW j \in Ifaces, raw' = Moved(k, i, j), DropUncollected(k)
        PROVE  <1>8!:
    BY <1>4, <1>7, <2>1 DEF Moved, Types, DropUncollected
  <2>2. CASE UNCHANGED <<raw, due>>
    BY <2>2 DEF Types
  <2>3. ASSUME NEW i \in Ifaces, raw' = [raw EXCEPT ![<<i, k>>] = 0], UNCHANGED due
        PROVE  <1>8!:
    BY <1>4, <2>3 DEF Types
  <2> QED BY <1>6, <2>1, <2>2, <2>3
<1>9. Types'
  BY <1>2, <1>5, <1>8 DEF Types, Goes
<1>10. LockInv' /\ RequestInv'
  BY <1>1, <1>2, <1>5, GoesInv
<1>11. KeyInv' /\ FileInv'
  BY <1>2, <1>4, <1>8 DEF KeyInv, FileInv
<1> QED BY <1>9, <1>10, <1>11

\* The file is replaced by what is in memory.
LEMMA SaveInv ==
  ASSUME UsageInv, Save
  PROVE  UsageInv'
<1> USE DEF UsageInv
<1> DEFINE pc == IF phase = "final" THEN "exit" ELSE "idle"
<1>1. Collector \in Threads
  BY DEF Threads
<1>2. /\ \/ file' = stats /\ unread' = FALSE
         \/ UNCHANGED <<file, unread>>
      /\ UNCHANGED <<raw, moved, due, client, fresh, stats, mgr, cmu, phase>>
      /\ At(Collector, pc) /\ pc \in Steps /\ pc \in {"idle", "exit"}
  BY DEF Save, Steps
<1> HIDE DEF pc
<1>3. /\ th' \in [Threads -> ThreadStates] /\ th'[Collector].pc = pc
      /\ \A u \in Threads \ {Collector} : th'[u] = th[u]
  BY <1>1, <1>2, AtType
<1>4. Goes(Collector)
  BY <1>2, <1>3 DEF Goes
<1>5. Types'
  <2>1. unread' \in BOOLEAN /\ file' \in [Keys -> Entry]
    BY <1>2 DEF Types
  <2> QED BY <1>2, <1>3, <2>1 DEF Types
<1>6. LockInv' /\ RequestInv'
  BY <1>1, <1>2, <1>4, GoesInv
<1>7. KeyInv'
  BY <1>2 DEF KeyInv
<1>8. FileInv'
  <2>1. \A k \in Keys : stats[k] # NoStats => stats[k].total \in Nat
    BY DEF Types, Entry
  <2>2. CASE file' = stats
    BY <1>2, <2>1, <2>2 DEF FileInv
  <2>3. CASE UNCHANGED <<file, unread>>
    BY <1>2, <2>3 DEF FileInv
  <2> QED BY <1>2, <2>2, <2>3
<1> QED BY <1>5, <1>6, <1>7, <1>8

\* A new process has the saved entries, or it knows that it could not load them.
LEMMA Loaded ==
  ASSUME Types, NewCollector
  PROVE  /\ stats' = file \/ stats' = NoEntries
         /\ unread' \in BOOLEAN
         /\ unread' = FALSE => stats' = file
<1>1. \A k \in Keys : file[k] \in Entry
  BY DEF Types
<1>2. Acceptable
  BY <1>1 DEF Acceptable, Entry
<1>3. CASE stats' = file /\ unread' = FALSE
  BY <1>3
<1>4. CASE stats' = NoEntries /\ unread' = (file # NoEntries)
  BY <1>4
<1> QED BY <1>2, <1>3, <1>4 DEF NewCollector

\* A new process has the clients and no request.
LEMMA RestartInv ==
  ASSUME UsageInv, Restart
  PROVE  UsageInv'
<1> USE DEF UsageInv
<1>1. /\ mgr' = Nobody /\ cmu' = Nobody /\ phase' = "up"
      /\ th' = [t \in Threads |-> Idle]
      /\ due' = [k \in Keys |-> TotalIn(stats', k)]
      /\ UNCHANGED <<moved, client, fresh, file>>
  BY DEF Restart
<1>2. PICK home \in [{k \in Keys : \E id \in IDs : client[id] = k} -> Ifaces] :
        raw' = [x \in Ifaces \X Keys |->
                  IF x[2] \in DOMAIN home /\ home[x[2]] = x[1] THEN 0 ELSE Absent]
  BY DEF Restart
<1>3. \A i \in Ifaces, k \in Keys : raw'[<<i, k>>] # Absent => \E id \in IDs : client[id] = k
  BY <1>2
<1>4. raw' \in [Ifaces \X Keys -> Nat \cup {Absent}]
  BY <1>2
<1>5. Idle \in ThreadStates /\ Idle.pc = "idle"
  BY DEF Idle, ThreadStates, Steps
<1>6. /\ stats' = file \/ stats' = NoEntries
      /\ unread' \in BOOLEAN
      /\ unread' = FALSE => stats' = file
  BY Loaded DEF Restart
<1>7. /\ stats' \in [Keys -> Entry]
      /\ \A k \in Keys : stats'[k] # NoStats => stats'[k].total \in Nat
  BY <1>6 DEF Types, Entry, NoEntries
<1>8. due' \in [Keys -> Nat]
  BY <1>1, <1>7 DEF TotalIn
<1>9. Types'
  BY <1>1, <1>4, <1>5, <1>6, <1>7, <1>8 DEF Types
<1>10. \A t \in Threads : th'[t].pc = "idle"
  BY <1>1, <1>5
<1>11. LockInv' /\ RequestInv'
  BY <1>10 DEF LockInv, RequestInv, Threads
<1>12. KeyInv'
  BY <1>1, <1>3 DEF KeyInv
<1>13. FileInv'
  <2>1. \A k \in Keys : file[k] # NoStats => file[k].total >= file[k].total
    BY DEF Types, Entry
  <2> SUFFICES ASSUME ~unread' PROVE FileInv'
    BY DEF FileInv
  <2>2. stats' = file
    BY <1>6
  <2> QED BY <1>1, <2>1, <2>2 DEF FileInv
<1> QED BY <1>9, <1>11, <1>12, <1>13

\* Every step keeps the invariant.
LEMMA NextInv ==
  ASSUME UsageInv, [Next]_vars
  PROVE  UsageInv'
<1>1. CASE UNCHANGED vars
  BY <1>1 DEF vars, UsageInv, Types, LockInv, KeyInv, RequestInv, FileInv
<1>2. ASSUME NEW i \in Ifaces, NEW k \in Keys, Traffic(i, k) PROVE UsageInv'
  BY <1>2, TrafficInv
<1>3. ASSUME NEW id \in IDs, NEW k \in Keys, NEW i \in Ifaces, CreateClient(id, k, i) PROVE UsageInv'
  BY <1>3, CreateInv
<1>4. ASSUME NEW t \in Handlers, NEW id \in IDs, BeginDelete(t, id) PROVE UsageInv'
  <2> DEFINE pc == "delete"
  <2>1. /\ client[id] # NoKey /\ mgr = Nobody /\ pc \in {"delete", "snapshot"}
        /\ th' = [th EXCEPT ![t] = [Idle EXCEPT !.pc = pc, !.id = id, !.key = client[id]]]
        /\ mgr' = IF pc = "snapshot" THEN t ELSE mgr
        /\ UNCHANGED <<raw, moved, due, client, fresh, stats, file, unread, cmu, phase>>
    BY <1>4 DEF BeginDelete
  <2> HIDE DEF pc
  <2> QED BY <2>1, BeginInv
<1>5. ASSUME NEW t \in Handlers, NEW id \in IDs, BeginUpdate(t, id) PROVE UsageInv'
  <2> DEFINE pc == "snapshot"
  <2>1. /\ client[id] # NoKey /\ mgr = Nobody /\ pc \in {"delete", "snapshot"}
        /\ th' = [th EXCEPT ![t] = [Idle EXCEPT !.pc = pc, !.id = id, !.key = client[id]]]
        /\ mgr' = IF pc = "snapshot" THEN t ELSE mgr
        /\ UNCHANGED <<raw, moved, due, client, fresh, stats, file, unread, cmu, phase>>
    BY <1>5 DEF BeginUpdate
  <2> HIDE DEF pc
  <2> QED BY <2>1, BeginInv
<1>6. ASSUME NEW t \in Handlers, DeleteGone(t) PROVE UsageInv'
  BY <1>6, DeleteGoneInv
<1>7. ASSUME NEW t \in Handlers, DeleteCommitted(t) PROVE UsageInv'
  BY <1>7, DeleteCommittedInv
<1>8. ASSUME NEW t \in Handlers, DeleteUndone(t) PROVE UsageInv'
  BY <1>8, DeleteUndoneInv
<1>9. ASSUME NEW t \in Handlers, RemoveStats(t) PROVE UsageInv'
  BY <1>9, RemoveStatsInv
<1>10. ASSUME NEW t \in Handlers, Snapshot(t) PROVE UsageInv'
  BY <1>10, SnapshotInvariant
<1>11. ASSUME NEW t \in Handlers, SnapshotFailed(t) PROVE UsageInv'
  BY <1>11, SnapshotFailedInv
<1>12. ASSUME NEW t \in Handlers, Migrate(t) PROVE UsageInv'
  BY <1>12, MigrateInv
<1>13. CASE Collect
  BY <1>13, CollectInv
<1>14. CASE Save
  BY <1>14, SaveInv
<1>15. ASSUME NEW i \in Ifaces, DumpSkipped(i) PROVE UsageInv'
  BY <1>15, DumpInv DEF Threads
<1>16. ASSUME NEW t \in Threads, Apply(t) PROVE UsageInv'
  BY <1>16, ApplyInv
<1>17. ASSUME NEW t \in Threads, NEW i \in Ifaces, Dump(t, i) PROVE UsageInv'
  BY <1>17, DumpInv
<1>18. CASE Signal
  BY <1>18 DEF Signal, UsageInv, Types, LockInv, KeyInv, RequestInv, FileInv
<1>19. CASE Restart
  BY <1>19, RestartInv
<1> QED BY <1>1, <1>2, <1>3, <1>4, <1>5, <1>6, <1>7, <1>8, <1>9, <1>10, <1>11, <1>12, <1>13,
           <1>14, <1>15, <1>16, <1>17, <1>18, <1>19 DEF Next, Exit, Crash

\* It holds when the process starts for the first time.
LEMMA InitInv ==
  ASSUME Init
  PROVE  UsageInv
<1>1. Idle \in ThreadStates /\ Idle.pc = "idle"
  BY DEF Idle, ThreadStates, Steps
<1>2. Types
  <2>1. stats \in [Keys -> Entry] /\ file \in [Keys -> Entry] /\ unread \in BOOLEAN
    BY DEF Init, NoEntries, Entry
  <2> QED BY <1>1, <2>1, BytesAssumption DEF Init, Types
<1>3. \A t \in Threads : th[t].pc = "idle"
  BY <1>1 DEF Init
<1>4. LockInv /\ RequestInv
  BY <1>3 DEF LockInv, RequestInv, Threads
<1>5. KeyInv /\ FileInv
  BY NamesAssumption DEF Init, NoEntries, KeyInv, FileInv
<1> QED BY <1>2, <1>4, <1>5 DEF UsageInv

-----------------------------------------------------------------------------
(***************************************************************************)
(* Counters, while every peer is on one interface.                         *)
(***************************************************************************)
\* What a counter adds: at most what it shows, and at most one byte more when
\* one more is transferred.
LEMMA DeltaFacts ==
  ASSUME NEW a \in Nat, NEW b \in Nat
  PROVE  /\ Delta(a, b) \in Nat /\ Delta(a, b) <= b /\ Delta(a, b + 1) <= Delta(a, b) + 1
         /\ Delta(a, b + 1) \in Nat /\ Delta(a, 0) = 0 /\ Delta(b, b) = 0
BY DEF Delta

\* The same for a total.
LEMMA TotalFacts ==
  ASSUME NEW s \in Entry, NEW r \in Nat
  PROVE  /\ Total(s, r) \in Nat /\ Total(s, r + 1) <= Total(s, r) + 1 /\ Total(s, r + 1) \in Nat
         /\ Total(s, 0) = IF s = NoStats THEN 0 ELSE s.total
         /\ Total(NoStats, r) = r
<1>1. CASE s = NoStats
  BY <1>1 DEF Total
<1>2. CASE s # NoStats
  <2>1. s.total \in Nat /\ s.last \in Nat
    BY <1>2 DEF Entry
  <2>2. /\ Delta(s.last, r) \in Nat /\ Delta(s.last, r + 1) \in Nat
        /\ Delta(s.last, r + 1) <= Delta(s.last, r) + 1 /\ Delta(s.last, 0) = 0
    BY <2>1, DeltaFacts
  <2>3. /\ Total(s, r) = s.total + Delta(s.last, r)
        /\ Total(s, r + 1) = s.total + Delta(s.last, r + 1)
        /\ Total(s, 0) = s.total + Delta(s.last, 0)
        /\ Total(NoStats, r) = r
    BY <1>2 DEF Total
  <2> QED BY <1>2, <2>1, <2>2, <2>3
<1> QED BY <1>1, <1>2

\* The types the arithmetic below needs.
LEMMA CountTypes ==
  ASSUME Types
  PROVE  /\ \A i \in Ifaces, k \in Keys : raw[<<i, k>>] # Absent => raw[<<i, k>>] \in Nat
         /\ \A k \in Keys : moved[k] \in Nat /\ stats[k] \in Entry /\ file[k] \in Entry
         /\ \A k \in Keys : stats[k] # NoStats => stats[k].total \in Nat /\ stats[k].last \in Nat
         /\ \A k \in Keys : file[k] # NoStats => file[k].total \in Nat
         /\ \A t \in Threads : th[t].rows \in Seq(Rows)
         /\ \A t \in Threads : \A n \in DOMAIN th[t].rows :
              th[t].rows[n].key \in Keys /\ th[t].rows[n].raw \in Nat
<1>1. \A i \in Ifaces, k \in Keys : raw[<<i, k>>] # Absent => raw[<<i, k>>] \in Nat
  BY DEF Types
<1>2. \A k \in Keys : moved[k] \in Nat /\ stats[k] \in Entry /\ file[k] \in Entry
  BY BytesAssumption DEF Types
<1>3. /\ \A k \in Keys : stats[k] # NoStats => stats[k].total \in Nat /\ stats[k].last \in Nat
      /\ \A k \in Keys : file[k] # NoStats => file[k].total \in Nat
  BY <1>2 DEF Entry
<1>4. \A t \in Threads : th[t].rows \in Seq(Rows)
  BY DEF Types, ThreadStates
<1>5. \A t \in Threads : \A n \in DOMAIN th[t].rows : th[t].rows[n] \in Rows
  BY <1>4
<1> QED BY <1>1, <1>2, <1>3, <1>4, <1>5 DEF Rows

\* Threads that are in a collection or hold one are left alone.
CollectionsKept == \A t \in Threads : th'[t].pc \in {"dump", "migrate"} => th'[t] = th[t]

\* Traffic: each side grows by one byte.
LEMMA TrafficCount ==
  ASSUME UsageInv, CounterInv, NEW i \in Ifaces, NEW k \in Keys, Traffic(i, k)
  PROVE  CounterInv'
<1> USE DEF UsageInv, CounterInv
<1>1. /\ raw' = [raw EXCEPT ![<<i, k>>] = @ + 1] /\ raw[<<i, k>>] # Absent
      /\ moved' = [moved EXCEPT ![k] = @ + 1]
      /\ UNCHANGED <<client, fresh, stats, file, unread, mgr, cmu, th, phase>>
  BY DEF Traffic
<1>2. /\ \A j \in Ifaces, l \in Keys : j # i \/ l # k => raw'[<<j, l>>] = raw[<<j, l>>]
      /\ raw'[<<i, k>>] = raw[<<i, k>>] + 1 /\ moved'[k] = moved[k] + 1
      /\ \A l \in Keys : l # k => moved'[l] = moved[l]
      /\ raw[<<i, k>>] \in Nat
  BY <1>1 DEF Types
<1>3. \A j \in Ifaces, l \in Keys : raw'[<<j, l>>] # Absent => raw[<<j, l>>] # Absent
  BY <1>1, <1>2
<1>4. \A l \in Keys : moved[l] \in Nat /\ moved'[l] \in Nat /\ moved'[l] >= moved[l]
  BY <1>2, CountTypes
<1>5. \A j \in Ifaces : raw'[<<j, k>>] # Absent => j = i
  BY <1>1, <1>3 DEF CountInv
<1>6. ASSUME NEW j \in Ifaces, NEW l \in Keys, raw'[<<j, l>>] # Absent
      PROVE  raw'[<<j, l>>] <= moved'[l] /\ Total(stats[l], raw'[<<j, l>>]) <= moved'[l]
  <2>1. /\ raw[<<j, l>>] <= moved[l] /\ Total(stats[l], raw[<<j, l>>]) <= moved[l]
        /\ raw[<<j, l>>] \in Nat /\ stats[l] \in Entry
    BY <1>3, <1>6, CountTypes DEF CountInv
  <2>2. CASE l # k
    BY <1>2, <2>1, <2>2
  <2>3. CASE l = k
    <3> DEFINE r == raw[<<i, k>>]
               s == stats[k]
    <3>1. j = i /\ r \in Nat /\ s \in Entry /\ r <= moved[k] /\ Total(s, r) <= moved[k]
      BY <1>5, <1>6, <2>1, <2>3
    <3> HIDE DEF r, s
    <3>2. Total(s, r) \in Nat /\ Total(s, r + 1) <= Total(s, r) + 1 /\ Total(s, r + 1) \in Nat
      BY <3>1, TotalFacts
    <3>3. r + 1 <= moved'[k] /\ Total(s, r + 1) <= moved'[k]
      BY <1>2, <1>4, <3>1, <3>2
    <3> QED BY <1>2, <2>3, <3>1, <3>3 DEF r, s
  <2> QED BY <2>2, <2>3
<1>7. CountInv'
  <2>1. \A j, h \in Ifaces, l \in Keys :
          raw'[<<j, l>>] # Absent /\ raw'[<<h, l>>] # Absent => j = h
    BY <1>3 DEF CountInv
  <2>2. \A l \in Keys : /\ stats[l] # NoStats => stats[l].total <= moved'[l]
                        /\ file[l] # NoStats => file[l].total <= moved'[l]
    <3> TAKE l \in Keys
    <3>1. /\ stats[l] # NoStats => stats[l].total <= moved[l] /\ stats[l].total \in Nat
          /\ file[l] # NoStats => file[l].total <= moved[l] /\ file[l].total \in Nat
      BY CountTypes DEF CountInv
    <3> QED BY <1>4, <3>1
  <2> QED BY <1>1, <1>6, <2>1, <2>2 DEF CountInv
<1>8. RowInv'
  <2> SUFFICES ASSUME NEW t \in Threads, th[t].pc = "dump", NEW n \in DOMAIN th[t].rows
               PROVE  /\ Applicable(th[t].rows[n])'
                      /\ \A j \in th[t].todo : raw'[<<j, th[t].rows[n].key>>] = Absent
    BY <1>1 DEF RowInv
  <2> DEFINE row == th[t].rows[n]
             l == row.key
             r == row.raw
             s == stats[l]
  <2>1. Applicable(row) /\ \A j \in th[t].todo : raw[<<j, l>>] = Absent
    BY DEF RowInv
  <2>2. l \in Keys /\ r \in Nat /\ s \in Entry /\ th[t].todo \subseteq Ifaces
    BY CountTypes, Zenon DEF Types, ThreadStates
  <2>3. \A j \in th[t].todo : raw'[<<j, l>>] = Absent
    BY <1>3, <2>1, <2>2
  <2>4. r <= moved[l] /\ Total(s, r) <= moved[l]
    BY <2>1, ZenonT(40) DEF Applicable
  <2>5. \A j \in Ifaces : raw[<<j, l>>] # Absent =>
          r + Delta(r, raw[<<j, l>>]) <= moved[l] /\ Total(s, r) + Delta(r, raw[<<j, l>>]) <= moved[l]
    BY <2>1 DEF Applicable
  <2>6. row' = row /\ l' = l /\ r' = r /\ s' = s
    BY <1>1
  <2> HIDE DEF l, r, s
  <2>7. Total(s, r) \in Nat
    BY <2>2, TotalFacts
  <2>8. r <= moved'[l] /\ Total(s, r) <= moved'[l]
    BY <1>4, <2>2, <2>4, <2>7
  <2>9. ASSUME NEW j \in Ifaces, raw'[<<j, l>>] # Absent
        PROVE  /\ r + Delta(r, raw'[<<j, l>>]) <= moved'[l]
               /\ Total(s, r) + Delta(r, raw'[<<j, l>>]) <= moved'[l]
    <3> DEFINE c == raw[<<j, l>>]
    <3>1. c \in Nat /\ r + Delta(r, c) <= moved[l] /\ Total(s, r) + Delta(r, c) <= moved[l]
      BY <1>3, <2>2, <2>5, <2>9, CountTypes
    <3>2. CASE l # k
      BY <1>2, <2>2, <3>1, <3>2
    <3>3. CASE l = k
      <4>1. j = i /\ raw'[<<j, l>>] = c + 1 /\ moved'[l] = moved[l] + 1
        BY <1>2, <1>5, <2>9, <3>3
      <4> HIDE DEF c
      <4>2. /\ Delta(r, c) \in Nat /\ Delta(r, c + 1) \in Nat
            /\ Delta(r, c + 1) <= Delta(r, c) + 1
        BY <2>2, <3>1, DeltaFacts
      <4> DEFINE M == moved[l]
                 T == Total(s, r)
                 D == Delta(r, c)
                 E == Delta(r, c + 1)
      <4>3. /\ M \in Nat /\ T \in Nat /\ D \in Nat /\ E \in Nat /\ r \in Nat
            /\ E <= D + 1 /\ r + D <= M /\ T + D <= M
        BY <1>4, <2>2, <2>7, <3>1, <4>2, Zenon
      <4> HIDE DEF M, T, D, E
      <4>4. r + E <= M + 1 /\ T + E <= M + 1
        BY <4>3
      <4> QED BY <4>1, <4>4 DEF M, T, E
    <3> QED BY <3>2, <3>3
  <2>10. Applicable(row)'
    BY <2>6, <2>8, <2>9, Zenon DEF Applicable, l, r, s
  <2> QED BY <2>3, <2>10 DEF l
<1>9. SnapshotInv'
  BY <1>1 DEF SnapshotInv
<1> QED BY <1>7, <1>8, <1>9

\* Counters that are reset, or go away, charge nobody.
LEMMA ResetCount ==
  ASSUME UsageInv, CounterInv, CollectionsKept, fresh' \subseteq fresh,
         \A i \in Ifaces, k \in Keys : raw'[<<i, k>>] \in {raw[<<i, k>>], Absent, 0},
         \A i, j \in Ifaces, k \in Keys :
           raw'[<<i, k>>] # Absent /\ raw'[<<j, k>>] # Absent => i = j,
         \A t \in Threads : th[t].pc = "dump" /\ th'[t] = th[t] =>
           \A n \in DOMAIN th[t].rows, i \in th[t].todo : raw'[<<i, th[t].rows[n].key>>] = Absent,
         file' \in {file, stats}, UNCHANGED <<moved, stats>>
  PROVE  CounterInv'
<1> USE DEF UsageInv, CounterInv
<1>1. \A k \in Keys : /\ stats[k] # NoStats => stats[k].total <= moved[k]
                      /\ file'[k] # NoStats => file'[k].total <= moved[k]
  BY DEF CountInv
<1>2. ASSUME NEW i \in Ifaces, NEW k \in Keys, raw'[<<i, k>>] # Absent
      PROVE  raw'[<<i, k>>] <= moved[k] /\ Total(stats[k], raw'[<<i, k>>]) <= moved[k]
  <2>1. CASE raw'[<<i, k>>] = raw[<<i, k>>]
    BY <1>2, <2>1 DEF CountInv
  <2>2. CASE raw'[<<i, k>>] = 0
    <3>1. moved[k] \in Nat /\ stats[k] \in Entry
      BY CountTypes
    <3>2. Total(stats[k], 0) = IF stats[k] = NoStats THEN 0 ELSE stats[k].total
      BY <3>1, TotalFacts
    <3> QED BY <1>1, <2>2, <3>1, <3>2
  <2> QED BY <1>2, <2>1, <2>2
<1>3. CountInv'
  BY <1>1, <1>2 DEF CountInv
<1>4. RowInv'
  <2> SUFFICES ASSUME NEW t \in Threads, th'[t].pc = "dump"
               PROVE  /\ \A n \in DOMAIN th'[t].rows :
                           /\ Applicable(th[t].rows[n])'
                           /\ th'[t].rows[n].key \notin fresh'
                           /\ \A i \in th'[t].todo : raw'[<<i, th'[t].rows[n].key>>] = Absent
                      /\ OnePerKey(th'[t].rows)
    BY DEF RowInv, OnePerKey
  <2>1. th'[t] = th[t] /\ th[t].pc = "dump"
    BY DEF CollectionsKept
  <2>2. /\ OnePerKey(th'[t].rows)
        /\ \A n \in DOMAIN th'[t].rows :
             /\ th'[t].rows[n].key \notin fresh'
             /\ \A i \in th'[t].todo : raw'[<<i, th'[t].rows[n].key>>] = Absent
    <3>1. OnePerKey(th[t].rows) /\ \A n \in DOMAIN th[t].rows : th[t].rows[n].key \notin fresh
      BY <2>1, Zenon DEF RowInv
    <3>2. \A n \in DOMAIN th[t].rows, i \in th[t].todo : raw'[<<i, th[t].rows[n].key>>] = Absent
      BY <2>1, Zenon
    <3> QED BY <2>1, <3>1, <3>2, Zenon
  <2>3. ASSUME NEW n \in DOMAIN th[t].rows PROVE Applicable(th[t].rows[n])'
    <3> DEFINE row == th[t].rows[n]
               l == row.key
               r == row.raw
               s == stats[l]
    <3>1. Applicable(row)
      BY <2>1 DEF RowInv
    <3>2. l \in Keys /\ r \in Nat /\ s \in Entry
      BY CountTypes, Zenon
    <3>3. r <= moved[l] /\ Total(s, r) <= moved[l]
      BY <3>1, ZenonT(40) DEF Applicable
    <3>4. \A j \in Ifaces : raw[<<j, l>>] # Absent =>
            /\ r + Delta(r, raw[<<j, l>>]) <= moved[l]
            /\ Total(s, r) + Delta(r, raw[<<j, l>>]) <= moved[l]
      BY <3>1 DEF Applicable
    <3>5. row' = row /\ l' = l /\ r' = r /\ s' = s
      BY <2>1
    <3> HIDE DEF row, l, r, s
    <3>6. Total(s, r) \in Nat /\ Delta(r, 0) = 0
      BY <3>2, TotalFacts, DeltaFacts
    <3>7. \A j \in Ifaces : raw'[<<j, l>>] # Absent =>
            /\ r + Delta(r, raw'[<<j, l>>]) <= moved[l]
            /\ Total(s, r) + Delta(r, raw'[<<j, l>>]) <= moved[l]
      BY <3>2, <3>3, <3>4, <3>6
    <3> QED BY <3>3, <3>5, <3>7, Zenon DEF Applicable, row, l, r, s
  <2> QED BY <2>1, <2>2, <2>3
<1>5. SnapshotInv'
  <2> SUFFICES ASSUME NEW t \in Handlers, th'[t].pc = "migrate"
               PROVE  \A n \in DOMAIN th'[t].rows :
                        th'[t].rows[n].key = th'[t].key =>
                          stats[th'[t].key].last = th'[t].rows[n].raw
    BY DEF SnapshotInv
  <2>1. th'[t] = th[t]
    BY DEF CollectionsKept, Threads
  <2> QED BY <2>1 DEF SnapshotInv
<1> QED BY <1>3, <1>4, <1>5

\* A step that touches no counter.
LEMMA QuietCount ==
  ASSUME UsageInv, CounterInv, CollectionsKept, file' \in {file, stats},
         UNCHANGED <<raw, moved, stats, fresh>>
  PROVE  CounterInv'
<1>1. \A i, j \in Ifaces, k \in Keys :
        raw'[<<i, k>>] # Absent /\ raw'[<<j, k>>] # Absent => i = j
  BY DEF CounterInv, CountInv
<1>2. \A t \in Threads : th[t].pc = "dump" /\ th'[t] = th[t] =>
        \A n \in DOMAIN th[t].rows, i \in th[t].todo : raw'[<<i, th[t].rows[n].key>>] = Absent
  BY DEF CounterInv, RowInv
<1> QED BY <1>1, <1>2, ResetCount

\* A new peer counts from zero.
LEMMA CreateCount ==
  ASSUME UsageInv, CounterInv, NEW id \in IDs, NEW k \in Keys, NEW i \in Ifaces,
         CreateClient(id, k, i)
  PROVE  CounterInv'
<1> USE DEF UsageInv, CounterInv
<1>1. /\ raw' = [raw EXCEPT ![<<i, k>>] = 0] /\ k \in fresh /\ fresh' = fresh \ {k}
      /\ UNCHANGED <<moved, due, stats, file, unread, mgr, cmu, th, phase>>
  BY DEF CreateClient
<1>2. CollectionsKept /\ fresh' \subseteq fresh /\ file' \in {file, stats}
  BY <1>1 DEF CollectionsKept
<1>3. /\ \A j \in Ifaces, l \in Keys : l # k => raw'[<<j, l>>] = raw[<<j, l>>]
      /\ \A j \in Ifaces : raw[<<j, k>>] = Absent
      /\ \A j \in Ifaces : raw'[<<j, k>>] = IF j = i THEN 0 ELSE Absent
  BY <1>1 DEF Types, KeyInv
<1>4. /\ \A j \in Ifaces, l \in Keys : raw'[<<j, l>>] \in {raw[<<j, l>>], Absent, 0}
      /\ \A j, h \in Ifaces, l \in Keys :
           raw'[<<j, l>>] # Absent /\ raw'[<<h, l>>] # Absent => j = h
  BY <1>3 DEF CountInv
<1>5. ASSUME NEW t \in Threads, th[t].pc = "dump", NEW n \in DOMAIN th[t].rows, NEW j \in th[t].todo
      PROVE  raw'[<<j, th[t].rows[n].key>>] = Absent
  <2>1. th[t].rows[n].key \notin fresh /\ raw[<<j, th[t].rows[n].key>>] = Absent
    BY <1>5 DEF RowInv
  <2>2. th[t].rows[n].key \in Keys /\ j \in Ifaces
    BY <1>5, CountTypes DEF Types, ThreadStates
  <2> QED BY <1>1, <1>3, <2>1, <2>2
<1> QED BY <1>1, <1>2, <1>4, <1>5, ResetCount

\* A deletion takes one counter away, or resets it.
LEMMA DeleteCount ==
  ASSUME UsageInv, CounterInv, NEW t \in Handlers, DeleteCommitted(t) \/ DeleteUndone(t)
  PROVE  CounterInv'
<1> USE DEF UsageInv, CounterInv
<1> DEFINE k == client[th[t].id]
<1>1. t \in Threads /\ t # Collector
  BY NamesAssumption DEF Threads
<1>2. k \in Keys
  BY DEF DeleteCommitted, DeleteUndone, RequestInv, Types
<1>3. UNCHANGED <<moved, fresh, stats, file, unread, mgr, cmu, phase>>
  BY DEF DeleteCommitted, DeleteUndone
<1>4. PICK i \in Homes(k) : raw' = [raw EXCEPT ![<<i, k>>] = Absent] \/ raw' = Moved(k, i, i)
  BY DEF DeleteCommitted, DeleteUndone
<1>5. CollectionsKept
  <2>1. CASE Finish(t)
    <3>1. th'[t].pc = "idle" /\ \A u \in Threads \ {t} : th'[u] = th[u]
      BY <1>1, <2>1, FinishType
    <3> QED BY <3>1 DEF CollectionsKept
  <2>2. CASE At(t, "removeStats")
    <3> DEFINE pc == "removeStats"
    <3>1. At(t, pc) /\ pc \in Steps
      BY <2>2 DEF Steps
    <3> HIDE DEF pc
    <3>2. th'[t].pc = pc /\ \A u \in Threads \ {t} : th'[u] = th[u]
      BY <1>1, <3>1, AtType
    <3>3. th'[t].pc = "removeStats"
      BY <3>2 DEF pc
    <3> QED BY <3>2, <3>3 DEF CollectionsKept
  <2> QED BY <2>1, <2>2 DEF DeleteCommitted, DeleteUndone
<1> HIDE DEF k
<1>6. i \in Ifaces /\ raw[<<i, k>>] # Absent
  BY <1>4 DEF Homes
<1>7. /\ \A j \in Ifaces, l \in Keys : j # i \/ l # k => raw'[<<j, l>>] = raw[<<j, l>>]
      /\ raw'[<<i, k>>] \in {Absent, 0}
  BY <1>2, <1>4, <1>6 DEF Types, Moved
<1>8. \A j \in Ifaces, l \in Keys :
        /\ raw'[<<j, l>>] \in {raw[<<j, l>>], Absent, 0}
        /\ raw[<<j, l>>] = Absent => raw'[<<j, l>>] = Absent
  BY <1>6, <1>7
<1>9. \A j, h \in Ifaces, l \in Keys :
        raw'[<<j, l>>] # Absent /\ raw'[<<h, l>>] # Absent => j = h
  BY <1>8 DEF CountInv
<1>10. ASSUME NEW u \in Threads, th[u].pc = "dump", NEW n \in DOMAIN th[u].rows, NEW j \in th[u].todo
       PROVE  raw'[<<j, th[u].rows[n].key>>] = Absent
  <2>1. raw[<<j, th[u].rows[n].key>>] = Absent
    BY <1>10 DEF RowInv
  <2>2. th[u].rows[n].key \in Keys /\ j \in Ifaces
    BY <1>10, CountTypes DEF Types, ThreadStates
  <2> QED BY <1>8, <2>1, <2>2
<1> QED BY <1>3, <1>5, <1>8, <1>9, <1>10, ResetCount

\* RemoveStats forgets the entry of a key whose client is gone.
LEMMA RemoveStatsCount ==
  ASSUME UsageInv, CounterInv, NEW t \in Handlers, RemoveStats(t)
  PROVE  CounterInv'
<1> USE DEF UsageInv, CounterInv
<1> DEFINE k == th[t].key
<1>1. t \in Threads
  BY DEF Threads
<1>2. /\ th[t].pc = "removeStats" /\ stats' = [stats EXCEPT ![k] = NoStats] /\ Finish(t)
      /\ UNCHANGED <<raw, moved, due, client, fresh, file, unread, mgr, cmu, phase>>
  BY DEF RemoveStats
<1>3. k \in Keys /\ \A x \in IDs : client[x] # k
  BY <1>2 DEF RequestInv
<1>4. th'[t].pc = "idle" /\ \A u \in Threads \ {t} : th'[u] = th[u]
  BY <1>1, <1>2, FinishType
<1> HIDE DEF k
<1>5. \A l \in Keys : stats'[l] = IF l = k THEN NoStats ELSE stats[l]
  BY <1>2, <1>3 DEF Types
<1>6. \A r \in Nat : Total(NoStats, r) = r
  BY DEF Total
<1>7. CountInv'
  BY <1>2, <1>5, <1>6, CountTypes DEF CountInv
<1>8. RowInv'
  <2> SUFFICES ASSUME NEW u \in Threads, th'[u].pc = "dump"
               PROVE  /\ \A n \in DOMAIN th'[u].rows :
                           /\ Applicable(th[u].rows[n])'
                           /\ th'[u].rows[n].key \notin fresh'
                           /\ \A i \in th'[u].todo : raw'[<<i, th'[u].rows[n].key>>] = Absent
                      /\ OnePerKey(th'[u].rows)
    BY DEF RowInv, OnePerKey
  <2>1. th'[u] = th[u] /\ th[u].pc = "dump"
    BY <1>4
  <2>2. ASSUME NEW n \in DOMAIN th[u].rows PROVE Applicable(th[u].rows[n])'
    <3> DEFINE row == th[u].rows[n]
               l == row.key
               r == row.raw
    <3>1. Applicable(row)
      BY <2>1 DEF RowInv
    <3>2. l \in Keys /\ r \in Nat
      BY CountTypes, Zenon
    <3>3. /\ r <= moved[l] /\ Total(stats[l], r) <= moved[l]
          /\ \A j \in Ifaces : raw[<<j, l>>] # Absent =>
               /\ r + Delta(r, raw[<<j, l>>]) <= moved[l]
               /\ Total(stats[l], r) + Delta(r, raw[<<j, l>>]) <= moved[l]
      BY <3>1, Zenon DEF Applicable
    <3>4. row' = row /\ l' = l /\ r' = r
      BY <2>1
    <3> HIDE DEF row, l, r
    <3>5. Total(stats'[l], r) = IF l = k THEN r ELSE Total(stats[l], r)
      BY <1>5, <1>6, <3>2
    <3>6. /\ r <= moved[l] /\ Total(stats'[l], r) <= moved[l]
          /\ \A j \in Ifaces : raw[<<j, l>>] # Absent =>
               /\ r + Delta(r, raw[<<j, l>>]) <= moved[l]
               /\ Total(stats'[l], r) + Delta(r, raw[<<j, l>>]) <= moved[l]
      BY <3>3, <3>5
    <3> QED BY <1>2, <3>4, <3>6, Zenon DEF Applicable, row, l, r
  <2> QED BY <1>2, <2>1, <2>2 DEF RowInv
<1>9. SnapshotInv'
  <2> SUFFICES ASSUME NEW u \in Handlers, th'[u].pc = "migrate"
               PROVE  \A n \in DOMAIN th'[u].rows :
                        th'[u].rows[n].key = th'[u].key =>
                          stats'[th'[u].key].last = th'[u].rows[n].raw
    BY DEF SnapshotInv
  <2>1. th'[u] = th[u]
    BY <1>4 DEF Threads
  <2>2. th[u].key \in Keys /\ th[u].key # k
    BY <1>3, <2>1 DEF RequestInv
  <2>3. stats'[th[u].key] = stats[th[u].key]
    BY <1>5, <2>2
  <2> QED BY <2>1, <2>3 DEF SnapshotInv
<1> QED BY <1>7, <1>8, <1>9


\* A collection starts without rows.
LEMMA StartCount ==
  ASSUME UsageInv, CounterInv, NEW t \in Threads, StartDumps(t), cmu = Nobody,
         UNCHANGED <<raw, moved, fresh, stats, file, unread>>
  PROVE  CounterInv'
<1> USE DEF UsageInv, CounterInv
<1>1. /\ th'[t].pc = "dump" /\ th'[t].rows = <<>>
      /\ \A u \in Threads \ {t} : th'[u] = th[u]
  BY StartDumpsType
<1>2. \A u \in Threads : th[u].pc \notin {"dump", "migrate"}
  BY NamesAssumption DEF LockInv, Threads
<1>3. CountInv'
  BY DEF CountInv
<1>4. RowInv'
  BY <1>1, <1>2 DEF RowInv, OnePerKey
<1>5. SnapshotInv'
  BY <1>1, <1>2 DEF SnapshotInv, Threads
<1> QED BY <1>3, <1>4, <1>5

\* One collection at a time: the others are where they were.
LEMMA OneCollection ==
  ASSUME UsageInv, NEW t \in Threads, th[t].pc \in {"dump", "migrate"}
  PROVE  \A u \in Threads \ {t} : th[u].pc \notin {"dump", "migrate"}
BY DEF UsageInv, LockInv

\* The rows of a dump may be applied, and repeat no key of an earlier dump.
LEMMA DumpCount ==
  ASSUME UsageInv, CounterInv, NEW t \in Threads, NEW i \in Ifaces,
         Dump(t, i) \/ (t = Collector /\ DumpSkipped(i))
  PROVE  CounterInv'
<1> USE DEF UsageInv, CounterInv
<1> DEFINE old == th[t].rows
           new == DumpRows(i)
           todo == th[t].todo
<1>1. /\ th[t].pc = "dump" /\ i \in todo
      /\ UNCHANGED <<raw, moved, due, client, fresh, stats, file, unread, mgr, cmu, phase>>
  BY DEF Dump, DumpSkipped
<1>2. /\ th'[t].pc = "dump" /\ th'[t].todo = todo \ {i}
      /\ th'[t].rows = old \o new \/ th'[t].rows = old
      /\ \A u \in Threads \ {t} : th'[u] = th[u]
  BY DumpType
<1>3. \A u \in Threads \ {t} : th[u].pc \notin {"dump", "migrate"}
  BY <1>1, OneCollection
<1>4. /\ new \in Seq(Rows) /\ OnePerKey(new)
      /\ \A n \in DOMAIN new : /\ new[n].key \in Keys
                               /\ raw[<<i, new[n].key>>] # Absent
                               /\ new[n].raw = raw[<<i, new[n].key>>]
  BY DumpedRows
<1>5. /\ old \in Seq(Rows) /\ OnePerKey(old)
      /\ \A n \in DOMAIN old : /\ Applicable(old[n]) /\ old[n].key \notin fresh
                               /\ \A j \in todo : raw[<<j, old[n].key>>] = Absent
  BY <1>1, CountTypes DEF RowInv
<1>6. todo \subseteq Ifaces
  BY DEF Types, ThreadStates
<1> HIDE DEF old, new, todo
<1>7. ASSUME NEW n \in DOMAIN new
      PROVE  /\ Applicable(new[n]) /\ new[n].key \notin fresh
             /\ \A j \in todo \ {i} : raw[<<j, new[n].key>>] = Absent
  <2> DEFINE l == new[n].key
             r == new[n].raw
  <2>1. l \in Keys /\ raw[<<i, l>>] # Absent /\ r = raw[<<i, l>>]
    BY <1>4
  <2>2. /\ r \in Nat /\ r <= moved[l] /\ Total(stats[l], r) <= moved[l]
        /\ \A j \in Ifaces : raw[<<j, l>>] # Absent => j = i
        /\ stats[l] \in Entry
    BY <2>1, CountTypes DEF CountInv
  <2>3. Total(stats[l], r) \in Nat /\ Delta(r, r) = 0
    BY <2>2, TotalFacts, DeltaFacts
  <2>4. \A j \in Ifaces : raw[<<j, l>>] # Absent =>
          /\ r + Delta(r, raw[<<j, l>>]) <= moved[l]
          /\ Total(stats[l], r) + Delta(r, raw[<<j, l>>]) <= moved[l]
    BY <2>1, <2>2, <2>3
  <2>5. Applicable(new[n])
    BY <2>2, <2>4 DEF Applicable
  <2>6. l \notin fresh
    BY <2>1 DEF KeyInv
  <2> QED BY <1>6, <2>2, <2>5, <2>6
<1> DEFINE both == old \o new
<1>8. /\ Len(old) \in Nat /\ Len(new) \in Nat
      /\ DOMAIN old = 1..Len(old) /\ DOMAIN new = 1..Len(new)
      /\ DOMAIN both = 1..(Len(old) + Len(new))
      /\ \A n \in DOMAIN both : both[n] = IF n <= Len(old) THEN old[n] ELSE new[n - Len(old)]
  BY <1>4, <1>5
<1> HIDE DEF both
<1>9. \A n \in DOMAIN both : \/ n \in DOMAIN old /\ both[n] = old[n]
                             \/ n - Len(old) \in DOMAIN new /\ both[n] = new[n - Len(old)]
  BY <1>8
<1>10. ASSUME NEW m \in DOMAIN old, NEW n \in DOMAIN new PROVE old[m].key # new[n].key
  BY <1>1, <1>4, <1>5, ZenonT(40)
<1>11. OnePerKey(both)
  <2> SUFFICES ASSUME NEW m \in DOMAIN both, NEW n \in DOMAIN both, both[m].key = both[n].key
               PROVE  m = n
    BY DEF OnePerKey
  <2>1. CASE m \in DOMAIN old /\ both[m] = old[m]
    <3>1. n \in DOMAIN old /\ both[n] = old[n]
      BY <1>9, <1>10, <2>1
    <3> QED BY <1>5, <2>1, <3>1 DEF OnePerKey
  <2>2. CASE m - Len(old) \in DOMAIN new /\ both[m] = new[m - Len(old)]
    <3>1. n - Len(old) \in DOMAIN new /\ both[n] = new[n - Len(old)]
      BY <1>9, <1>10, <2>2
    <3>2. m - Len(old) = n - Len(old)
      BY <1>4, <2>2, <3>1 DEF OnePerKey
    <3> QED BY <1>8, <3>2
  <2> QED BY <1>9, <2>1, <2>2
<1>12. \A n \in DOMAIN both : /\ Applicable(both[n]) /\ both[n].key \notin fresh
                              /\ \A j \in todo \ {i} : raw[<<j, both[n].key>>] = Absent
  BY <1>5, <1>7, <1>9
<1> DEFINE rows == th'[t].rows
<1>13. rows = both \/ rows = old
  BY <1>2 DEF both
<1> HIDE DEF rows
<1>14. /\ OnePerKey(rows)
       /\ \A n \in DOMAIN rows : /\ Applicable(rows[n]) /\ rows[n].key \notin fresh
                                 /\ \A j \in todo \ {i} : raw[<<j, rows[n].key>>] = Absent
  BY <1>5, <1>11, <1>12, <1>13
<1>15. CountInv'
  BY <1>1 DEF CountInv
<1>16. RowInv'
  <2>1. \A u \in Threads : th'[u].pc = "dump" => u = t
    BY <1>2, <1>3, SMTT(30)
  <2>2. \A n \in DOMAIN th'[t].rows : /\ Applicable(th[t].rows[n])' /\ th'[t].rows[n].key \notin fresh'
                                      /\ \A j \in th'[t].todo : raw'[<<j, th'[t].rows[n].key>>] = Absent
    BY <1>1, <1>2, <1>14 DEF rows, Applicable
  <2> QED BY <1>14, <2>1, <2>2 DEF RowInv, OnePerKey, rows
<1>17. SnapshotInv'
  BY <1>2, <1>3 DEF SnapshotInv, Threads
<1> QED BY <1>15, <1>16, <1>17

\* A collection is applied: each row adds what its counter showed.
LEMMA ApplyCount ==
  ASSUME UsageInv, CounterInv, UsageInv', NEW t \in Threads, Apply(t)
  PROVE  CounterInv'
<1> USE DEF UsageInv, CounterInv
<1> DEFINE rows == th[t].rows
<1>1. /\ th[t].pc = "dump" /\ stats' = AccumulatedAll(stats, rows)
      /\ UNCHANGED <<raw, moved, due, client, fresh, file, unread, mgr, phase>>
  BY DEF Apply
<1>2. \A u \in Threads \ {t} : th[u].pc \notin {"dump", "migrate"}
  BY <1>1, OneCollection
<1>3. rows \in Seq(Rows) /\ stats \in [Keys -> Entry]
  BY CountTypes DEF Types
<1>4. /\ OnePerKey(rows)
      /\ \A n \in DOMAIN rows : Applicable(rows[n])
  BY <1>1 DEF RowInv
<1>5. \/ th'[t].pc = "save"
      \/ th'[t].pc = "migrate" /\ th'[t].rows = rows /\ th'[t].key = th[t].key
  <2>1. CASE t = Collector
    BY <2>1 DEF Apply, Types, ThreadStates
  <2>2. CASE t # Collector
    <3> DEFINE pc == "migrate"
    <3>1. At(t, pc) /\ pc \in Steps
      BY <2>2 DEF Apply, Steps
    <3> HIDE DEF pc
    <3>2. th'[t].pc = pc /\ th'[t].rows = rows /\ th'[t].key = th[t].key
      BY <3>1, AtType
    <3> QED BY <3>2 DEF pc
  <2> QED BY <2>1, <2>2
<1>6. \A u \in Threads \ {t} : th'[u] = th[u]
  BY DEF Apply, At, Types
<1>7. \A n \in DOMAIN rows : rows[n].key \in Keys /\ rows[n].raw \in Nat
  BY CountTypes
<1> HIDE DEF rows
<1>8. ReadRows(stats, rows, stats', Len(rows)) /\ DOMAIN rows = 1..Len(rows)
  BY <1>1, <1>3, AllRows
<1>9. /\ \A n \in DOMAIN rows : stats'[rows[n].key] = Read(stats[rows[n].key], rows[n].raw)
      /\ \A k \in Keys : (\A n \in DOMAIN rows : rows[n].key # k) => stats'[k] = stats[k]
  BY <1>4, <1>8 DEF ReadRows
<1>10. ASSUME NEW k \in Keys
       PROVE  /\ stats'[k] # NoStats => stats'[k].total <= moved[k]
              /\ \A i \in Ifaces : raw[<<i, k>>] # Absent =>
                   raw[<<i, k>>] <= moved[k] /\ Total(stats'[k], raw[<<i, k>>]) <= moved[k]
  <2>1. CASE \A n \in DOMAIN rows : rows[n].key # k
    BY <1>9, <2>1 DEF CountInv
  <2>2. ASSUME NEW n \in DOMAIN rows, rows[n].key = k
        PROVE  /\ stats'[k].total <= moved[k]
               /\ \A i \in Ifaces : raw[<<i, k>>] # Absent =>
                    Total(stats'[k], raw[<<i, k>>]) <= moved[k]
    <3> DEFINE r == rows[n].raw
               s == stats[k]
               s2 == stats'[k]
    <3>1. r \in Nat /\ s \in Entry /\ s2 = Read(s, r)
      BY <1>7, <1>9, <2>2, CountTypes
    <3>2. /\ Total(s, r) <= moved[k]
          /\ \A i \in Ifaces : raw[<<i, k>>] # Absent =>
               Total(s, r) + Delta(r, raw[<<i, k>>]) <= moved[k]
      BY <1>4, <2>2 DEF Applicable
    <3> HIDE DEF r, s, s2
    <3>3. s2 # NoStats /\ s2.total = Total(s, r) /\ s2.last = r
      BY <3>1, ReadGrows
    <3>4. \A c : Total(s2, c) = Total(s, r) + Delta(r, c)
      BY <3>3 DEF Total
    <3> QED BY <3>2, <3>3, <3>4 DEF s2
  <2> QED BY <2>1, <2>2 DEF CountInv
<1>11. CountInv'
  BY <1>1, <1>10 DEF CountInv
<1>12. RowInv'
  BY <1>2, <1>5, <1>6 DEF RowInv
<1>13. SnapshotInv'
  <2>1. \A u \in Handlers : th'[u].pc = "migrate" => u = t
    BY <1>2, <1>6 DEF Threads
  <2>2. CASE th'[t].pc = "migrate"
    <3>1. th'[t].rows = rows /\ th'[t].key = th[t].key
      BY <1>5, <2>2
    <3>2. ASSUME NEW n \in DOMAIN rows PROVE stats'[rows[n].key].last = rows[n].raw
      <4> DEFINE r == rows[n].raw
                 s == stats[rows[n].key]
      <4>1. r \in Nat /\ s \in Entry /\ stats'[rows[n].key] = Read(s, r)
        BY <1>7, <1>9, CountTypes
      <4> HIDE DEF r, s
      <4>2. Read(s, r).last = r
        BY <4>1, ReadGrows
      <4> QED BY <4>1, <4>2 DEF r
    <3> QED BY <2>1, <3>1, <3>2 DEF SnapshotInv
  <2>3. CASE th'[t].pc # "migrate"
    BY <2>1, <2>3 DEF SnapshotInv
  <2> QED BY <2>2, <2>3
<1> QED BY <1>11, <1>12, <1>13

\* The peer of a client goes to another interface, where it counts from zero.
LEMMA MigrateCount ==
  ASSUME UsageInv, CounterInv, ~Doubles, NEW t \in Handlers, Migrate(t)
  PROVE  CounterInv'
<1> USE DEF UsageInv, CounterInv
<1> DEFINE k == th[t].key
<1>1. t \in Threads
  BY DEF Threads
<1>2. /\ th[t].pc = "migrate" /\ Finish(t)
      /\ UNCHANGED <<moved, client, fresh, stats, file, unread, phase>>
  BY DEF Migrate
<1>3. \A u \in Threads \ {t} : th[u].pc \notin {"dump", "migrate"}
  BY <1>1, <1>2, OneCollection
<1>4. th'[t].pc = "idle" /\ \A u \in Threads \ {t} : th'[u] = th[u]
  BY <1>1, <1>2, FinishType
<1>5. CollectionsKept /\ \A u \in Threads : th[u].pc # "dump"
  BY <1>2, <1>3, <1>4 DEF CollectionsKept
<1>6. k \in Keys
  BY <1>2 DEF RequestInv
<1>7. UNCHANGED raw \/ \E i \in Homes(k), j \in Ifaces : raw' = Moved(k, i, j)
  BY DEF Migrate
<1> HIDE DEF k
<1>8. CASE UNCHANGED raw
  BY <1>2, <1>5, <1>8, QuietCount
<1>9. ASSUME NEW i \in Homes(k), NEW j \in Ifaces, raw' = Moved(k, i, j)
      PROVE  CounterInv'
  <2>1. i \in Ifaces /\ raw[<<i, k>>] # Absent
    BY DEF Homes
  <2>2. \A h \in Ifaces : h # i => raw[<<h, k>>] = Absent
    BY <1>6, <2>1 DEF CountInv
  <2>3. /\ \A h \in Ifaces, l \in Keys : l # k => raw'[<<h, l>>] = raw[<<h, l>>]
        /\ \A h \in Ifaces : raw'[<<h, k>>] = IF h = j THEN 0 ELSE Absent
    BY <1>6, <1>9, <2>1, <2>2 DEF Types, Moved
  <2>4. /\ \A h \in Ifaces, l \in Keys : raw'[<<h, l>>] \in {raw[<<h, l>>], Absent, 0}
        /\ \A h, g \in Ifaces, l \in Keys :
             raw'[<<h, l>>] # Absent /\ raw'[<<g, l>>] # Absent => h = g
    BY <2>3 DEF CountInv
  <2> QED BY <1>2, <1>5, <2>4, ResetCount
<1> QED BY <1>7, <1>8, <1>9

\* A new process counts from zero and from the saved entries.
LEMMA RestartCount ==
  ASSUME UsageInv, CounterInv, Restart
  PROVE  CounterInv'
<1> USE DEF UsageInv, CounterInv
<1>1. th' = [t \in Threads |-> Idle] /\ UNCHANGED <<moved, client, fresh, file>>
  BY DEF Restart
<1>2. PICK home \in [{k \in Keys : \E id \in IDs : client[id] = k} -> Ifaces] :
        raw' = [x \in Ifaces \X Keys |->
                  IF x[2] \in DOMAIN home /\ home[x[2]] = x[1] THEN 0 ELSE Absent]
  BY DEF Restart
<1>3. \A i \in Ifaces, k \in Keys : raw'[<<i, k>>] # Absent => home[k] = i /\ raw'[<<i, k>>] = 0
  BY <1>2
<1>4. \A t \in Threads : th'[t].pc = "idle"
  BY <1>1 DEF Idle
<1>5. stats' = file \/ stats' = NoEntries
  BY Loaded DEF Restart
<1>6. ASSUME NEW k \in Keys
      PROVE  /\ file[k] # NoStats => file[k].total <= moved[k]
             /\ stats'[k] # NoStats => stats'[k].total <= moved[k]
             /\ 0 <= moved[k] /\ Total(stats'[k], 0) <= moved[k]
  <2>1. moved[k] \in Nat /\ file[k] \in Entry /\ NoStats \in Entry
    BY CountTypes DEF Entry
  <2>2. /\ file[k] # NoStats => file[k].total <= moved[k]
        /\ stats'[k] \in {file[k], NoStats} /\ stats'[k] \in Entry
    BY <1>5, <2>1 DEF CountInv, NoEntries
  <2>3. Total(stats'[k], 0) = IF stats'[k] = NoStats THEN 0 ELSE stats'[k].total
    BY <2>2, TotalFacts
  <2> QED BY <2>1, <2>2, <2>3
<1>7. CountInv'
  BY <1>1, <1>3, <1>6 DEF CountInv
<1>8. RowInv' /\ SnapshotInv'
  BY <1>4 DEF RowInv, SnapshotInv, Threads
<1> QED BY <1>7, <1>8

\* Every step keeps the counters, when no rollback leaves a peer on two interfaces.
LEMMA NextCount ==
  ASSUME UsageInv, CounterInv, ~Doubles, [Next]_vars
  PROVE  CounterInv'
<1>1. CASE UNCHANGED vars
  <2>1. CollectionsKept /\ file' \in {file, stats} /\ UNCHANGED <<raw, moved, stats, fresh>>
    BY <1>1 DEF vars, CollectionsKept
  <2> QED BY <2>1, QuietCount
<1>2. ASSUME NEW i \in Ifaces, NEW k \in Keys, Traffic(i, k) PROVE CounterInv'
  BY <1>2, TrafficCount
<1>3. ASSUME NEW id \in IDs, NEW k \in Keys, NEW i \in Ifaces, CreateClient(id, k, i)
      PROVE  CounterInv'
  BY <1>3, CreateCount
<1>4. ASSUME NEW t \in Handlers, NEW id \in IDs, BeginDelete(t, id) \/ BeginUpdate(t, id)
      PROVE  CounterInv'
  <2>1. /\ UNCHANGED <<raw, moved, stats, fresh>> /\ file' \in {file, stats}
        /\ \E pc \in {"delete", "snapshot"} :
             th' = [th EXCEPT ![t] = [Idle EXCEPT !.pc = pc, !.id = id, !.key = client[id]]]
    BY <1>4 DEF BeginDelete, BeginUpdate
  <2>2. CollectionsKept
    BY <2>1 DEF CollectionsKept, UsageInv, Types, Threads, Idle
  <2> QED BY <2>1, <2>2, QuietCount
<1>5. ASSUME NEW t \in Handlers, DeleteGone(t) \/ SnapshotFailed(t) PROVE CounterInv'
  <2>1. UNCHANGED <<raw, moved, stats, fresh>> /\ file' \in {file, stats} /\ Finish(t)
    BY <1>5 DEF DeleteGone, SnapshotFailed
  <2>2. th'[t].pc = "idle" /\ \A u \in Threads \ {t} : th'[u] = th[u]
    BY <2>1, FinishType DEF Threads, UsageInv
  <2>3. CollectionsKept
    BY <2>2 DEF CollectionsKept
  <2> QED BY <2>1, <2>3, QuietCount
<1>6. ASSUME NEW t \in Handlers, DeleteCommitted(t) \/ DeleteUndone(t) PROVE CounterInv'
  BY <1>6, DeleteCount
<1>7. ASSUME NEW t \in Handlers, RemoveStats(t) PROVE CounterInv'
  BY <1>7, RemoveStatsCount
<1>8. ASSUME NEW t \in Handlers, Snapshot(t) PROVE CounterInv'
  BY <1>8, StartCount DEF Snapshot, Threads
<1>9. ASSUME NEW t \in Handlers, Migrate(t) PROVE CounterInv'
  BY <1>9, MigrateCount
<1>10. CASE Collect
  BY <1>10, StartCount DEF Collect, Threads
<1>11. CASE Save
  <2> DEFINE pc == IF phase = "final" THEN "exit" ELSE "idle"
  <2>1. /\ UNCHANGED <<raw, moved, stats, fresh>> /\ file' \in {file, stats}
        /\ At(Collector, pc) /\ pc \in Steps /\ pc \in {"idle", "exit"}
    BY <1>11 DEF Save, Steps
  <2> HIDE DEF pc
  <2>2. th'[Collector].pc = pc /\ \A u \in Threads \ {Collector} : th'[u] = th[u]
    BY <2>1, AtType DEF Threads, UsageInv
  <2>3. CollectionsKept
    BY <2>1, <2>2 DEF CollectionsKept
  <2> QED BY <2>1, <2>3, QuietCount
<1>12. ASSUME NEW i \in Ifaces, DumpSkipped(i) PROVE CounterInv'
  BY <1>12, DumpCount DEF Threads
<1>13. ASSUME NEW t \in Threads, Apply(t) PROVE CounterInv'
  BY <1>13, ApplyInv, ApplyCount
<1>14. ASSUME NEW t \in Threads, NEW i \in Ifaces, Dump(t, i) PROVE CounterInv'
  BY <1>14, DumpCount
<1>15. CASE Signal
  <2>1. CollectionsKept /\ file' \in {file, stats} /\ UNCHANGED <<raw, moved, stats, fresh>>
    BY <1>15 DEF Signal, CollectionsKept
  <2> QED BY <2>1, QuietCount
<1>16. CASE Restart
  BY <1>16, RestartCount
<1> QED BY <1>1, <1>2, <1>3, <1>4, <1>5, <1>6, <1>7, <1>8, <1>9, <1>10, <1>11, <1>12, <1>13,
           <1>14, <1>15, <1>16 DEF Next, Exit, Crash

\* Nothing has been transferred when the process starts for the first time.
LEMMA InitCount ==
  ASSUME Init
  PROVE  CounterInv
<1>1. \A t \in Threads : th[t].pc = "idle"
  BY DEF Init, Idle
<1>2. CountInv
  BY DEF Init, NoEntries, CountInv
<1>3. RowInv /\ SnapshotInv
  BY <1>1 DEF RowInv, SnapshotInv, Threads
<1> QED BY <1>2, <1>3 DEF CounterInv

-----------------------------------------------------------------------------
(***************************************************************************)
(* Theorems.                                                               *)
(***************************************************************************)
\* The inductive invariant holds, with peers on two interfaces too.
THEOREM Invariance == Spec => []UsageInv
<1>1. Init => UsageInv
  BY InitInv
<1>2. UsageInv /\ [Next]_vars => UsageInv'
  BY NextInv
<1> QED BY <1>1, <1>2, PTL DEF Spec

\* Every counter, entry, lock holder and row has its type.
THEOREM TypeCorrect == Spec => []TypeOK
<1>1. UsageInv => TypeOK
  <2> SUFFICES ASSUME UsageInv PROVE TypeOK
    OBVIOUS
  <2> USE DEF UsageInv
  <2>1. \A t \in Threads : th[t].todo \subseteq Ifaces /\ th[t].rows \in Seq(Rows)
    BY DEF Types, ThreadStates
  <2>2. \A t \in Threads : ToSet(th[t].rows) \subseteq Rows
    BY <2>1 DEF ToSet
  <2>3. /\ \A x \in Ifaces \X Keys : raw[x] \in Nat \cup {Absent}
        /\ \A k \in Keys : moved[k] \in 0..MaxBytes /\ due[k] \in Nat
        /\ \A id \in IDs : client[id] \in Keys \cup {NoKey}
        /\ \A k \in Keys : stats[k] \in Entry /\ file[k] \in Entry
        /\ unread \in BOOLEAN
        /\ {mgr, cmu} \subseteq Threads \cup {Nobody}
        /\ phase \in {"up", "draining", "final"}
    BY DEF Types
  <2> QED BY <2>1, <2>2, <2>3 DEF TypeOK
<1> QED BY <1>1, Invariance, PTL

\* Only a process that could not load the file saves less of a client, and only
\* once: what every other save replaces the file by holds at least as much of every
\* client, over crashes, restarts and failed saves.
THEOREM TotalsSurvive == Spec => SavedTotalsSurvive
<1> DEFINE Survives ==
      \A id \in IDs : LET k == client[id]
                      IN (~unread /\ k # NoKey /\ client'[id] = k /\ file[k] # NoStats) =>
                           file'[k] # NoStats /\ file'[k].total >= file[k].total
<1>1. UsageInv /\ [Next]_vars => [Survives]_vars
  <2> SUFFICES ASSUME UsageInv, [Next]_vars, ~unread,
                      NEW id \in IDs, client[id] # NoKey, file[client[id]] # NoStats
               PROVE  /\ file'[client[id]] # NoStats
                      /\ file'[client[id]].total >= file[client[id]].total
    OBVIOUS
  <2> DEFINE k == client[id]
  <2>1. k \in Keys /\ file[k] # NoStats /\ file[k].total \in Nat
    <3>1. k \in Keys /\ file[k] # NoStats
      BY DEF UsageInv, Types
    <3>2. \A l \in Keys : file[l] # NoStats => file[l].total \in Nat
      BY CountTypes, Zenon DEF UsageInv
    <3> QED BY <3>1, <3>2, Zenon
  <2>2. file' = file \/ file' = stats
    BY Zenon DEF Next, vars, Traffic, CreateClient, BeginDelete, BeginUpdate, DeleteGone,
                DeleteCommitted, DeleteUndone, RemoveStats, Snapshot, SnapshotFailed, Migrate,
                Collect, Save, DumpSkipped, Apply, Dump, Signal, Exit, Crash, Restart
  <2>3. stats[k] # NoStats /\ stats[k].total >= file[k].total
    BY <2>1 DEF UsageInv, FileInv
  <2> HIDE DEF k
  <2>4. file'[k] # NoStats /\ file'[k].total >= file[k].total
    BY <2>1, <2>2, <2>3
  <2> QED BY <2>4 DEF k
<1> QED BY <1>1, Invariance, PTL DEF Spec, SavedTotalsSurvive

\* The invariant of the counters, when no rollback leaves a peer on two interfaces.
THEOREM CounterInvariance == ~Doubles => (Spec => []CounterInv)
<1> SUFFICES ASSUME ~Doubles PROVE Spec => []CounterInv
  OBVIOUS
<1>1. Init => CounterInv
  BY InitCount
<1>2. UsageInv /\ CounterInv /\ [Next]_vars => CounterInv'
  BY NextCount
<1> QED BY <1>1, <1>2, Invariance, PTL DEF Spec

\* No client is charged for bytes it did not transfer, when no rollback leaves a
\* peer on two interfaces.
THEOREM NoOverCount == ~Doubles => (Spec => []NeverOverCounts)
<1> SUFFICES ASSUME ~Doubles PROVE Spec => []NeverOverCounts
  OBVIOUS
<1>1. CounterInv => NeverOverCounts
  BY DEF CounterInv, CountInv, NeverOverCounts
<1> QED BY <1>1, CounterInvariance, PTL

\* The required snapshot is the newest reading until the guarded action ends,
\* when no rollback leaves a peer on two interfaces.
THEOREM SnapshotHolds == ~Doubles => (Spec => []SnapshotIsNewest)
<1> SUFFICES ASSUME ~Doubles PROVE Spec => []SnapshotIsNewest
  OBVIOUS
<1>1. UsageInv /\ CounterInv => SnapshotIsNewest
  <2> SUFFICES ASSUME UsageInv, CounterInv, NEW t \in Handlers, th[t].pc = "migrate",
                      NEW row \in ToSet(th[t].rows), row.key = th[t].key
               PROVE  stats[row.key].last = row.raw
    BY DEF SnapshotIsNewest
  <2>1. PICK n \in DOMAIN th[t].rows : row = th[t].rows[n]
    BY DEF ToSet
  <2> QED BY <2>1 DEF CounterInv, SnapshotInv
<1> QED BY <1>1, Invariance, CounterInvariance, PTL
=============================================================================
