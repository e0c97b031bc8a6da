--------------------------- MODULE ManagerProofs ---------------------------
(***************************************************************************)
(* Proofs about module Manager, for every set of clients, keys, addresses, *)
(* profiles and ports, and any number of failing commands, crashes and     *)
(* reboots.                                                                *)
(*                                                                         *)
(* The argument: every call works on prospective data that is a good file  *)
(* again (GoodFile); it becomes memory and disk together or not at all.    *)
(* What a call does to the pool is known from PoolEffects: a plain error   *)
(* keeps every peer, success adds, removes or moves exactly one.           *)
(***************************************************************************)
EXTENDS Manager, PoolEffects, SequenceTheorems

MStates == [phase: {"down", "restoring", "up"}, pool: States, lan: SUBSET Open,
            disk: Files, probes: Nat, data: Files, todo: Seq(Clients),
            clients: SUBSET Clients, usedIPs: SUBSET Addrs]

\* The records of a file as the server sees them.
Normalized(d) == {normalizeClient(c) : c \in ClientsOf(d)}

\* The profile a record asks for exists.
GoodClient(d, c) ==
  c.ver \in Versions /\ normalizeClient(c) = c /\ hasHeaderKey(d, c)

\* No two records share an ID, a key or an address.
Unique(d) ==
  \A i, j \in DOMAIN d.clients :
    i # j => /\ d.clients[i].id # d.clients[j].id
             /\ d.clients[i].key # d.clients[j].key
             /\ d.clients[i].addr # d.clients[j].addr

\* What a running server holds in memory and on disk.
GoodFile(d) ==
  /\ d \in Files
  /\ Unique(d)
  /\ DefaultKey \in d.keys /\ KeysExact(d)
  /\ \A c \in ClientsOf(d) : GoodClient(d, c)

\* The keys of the records in cs that ask for profile p.
KeysOn(cs, p) == {c.key : c \in {x \in cs : effectiveProfile(x) = p}}

Matches(pool, cs) == \A p \in Profiles : pool.ifaces[p].peers = KeysOn(cs, p)

ItemsOf(q) == {q[i] : i \in DOMAIN q}

\* A running server: memory is the file, and the pool has its clients.
UpInv(s, dirt) ==
  /\ s.data = s.disk
  /\ GoodFile(s.disk)
  /\ s.clients = ClientsOf(s.disk)
  /\ s.usedIPs = {c.addr : c \in s.clients}
  /\ ~dirt => Matches(s.pool, s.clients)

\* A server that starts: the plan is made, the pool has what is not still to do.
RestoreInv(s) ==
  /\ s.data = restoreData(s.disk)
  /\ GoodFile(s.data)
  /\ ItemsOf(s.todo) \subseteq ClientsOf(s.data)
  /\ \A i, j \in DOMAIN s.todo : i # j => s.todo[i] # s.todo[j]
  /\ Matches(s.pool, ClientsOf(s.data) \ ItemsOf(s.todo))

\* No process: nobody knows of an interface.
DownInv(s) ==
  s.pool.ifaces = EmptyPool.ifaces /\ s.pool.orphans = {} /\ ~s.pool.masqAdded

LanInv(s) ==
  (s.phase # "down" \/ s.pool.kpeers # {}) => s.lan \subseteq lanPairs(Normalized(s.disk))

\* The inductive invariant.
Inv(s, dirt) ==
  /\ s \in MStates
  /\ Sound(s.pool)
  /\ KeysExact(s.disk)
  /\ LanInv(s)
  /\ s.phase = "up" => UpInv(s, dirt)
  /\ s.phase = "restoring" => RestoreInv(s)
  /\ s.phase = "down" => DownInv(s)

\* The same while no rollback has failed.
Clean(s) == Inv(s, FALSE)

ManagerInv == Inv(m, dirty) /\ dirty \in BOOLEAN

-----------------------------------------------------------------------------
(***************************************************************************)
(* Files.                                                                  *)
(***************************************************************************)
\* The records of a file are client records.
LEMMA FileClients ==
  ASSUME NEW d \in Files
  PROVE  /\ d.clients \in Seq(Clients) /\ d.keys \subseteq HeaderKeys
         /\ ClientsOf(d) \subseteq Clients
         /\ \A i \in DOMAIN d.clients : d.clients[i] \in Clients /\ d.clients[i] \in ClientsOf(d)
         /\ DOMAIN d.clients = 1..Len(d.clients) /\ Len(d.clients) \in Nat
BY DEF Files, ClientsOf

\* The profile of a good record is one the pool knows.
LEMMA ProfileType ==
  ASSUME NEW d, d.keys \subseteq HeaderKeys, NEW c \in Clients, GoodClient(d, c)
  PROVE  effectiveProfile(c) \in Profiles
<1>1. c.var \in Variants \cup {Inherit} /\ c.ver \in Versions
  BY DEF Clients, GoodClient
<1>2. c.ver = "3.1" => c.hk \in HeaderKeys
  BY DEF GoodClient, hasHeaderKey
<1> DEFINE v == IF c.var = Inherit THEN DefaultVariant ELSE c.var
<1>3. v \in Variants
  BY <1>1, KeyAssumption
<1> HIDE DEF v
<1>4. CASE c.ver = "2.0"
  <2>1. effectiveProfile(c) = [ver |-> "2.0", var |-> v, hk |-> NoKey]
    BY <1>4 DEF effectiveProfile, v
  <2> QED BY <1>3, <2>1, ProfileAssumption DEF AllProfiles
<1>5. CASE c.ver = "3.1"
  <2>1. effectiveProfile(c) = [ver |-> "3.1", var |-> v, hk |-> c.hk]
    BY <1>5 DEF effectiveProfile, v
  <2> QED BY <1>2, <1>3, <1>5, <2>1, ProfileAssumption DEF AllProfiles
<1> QED BY <1>1, <1>4, <1>5 DEF Versions

\* markAndSweepHeaderKeys leaves exactly the keys in use, if they were all there.
LEMMA SweptFile ==
  ASSUME NEW d \in Files, DefaultKey \in d.keys,
         \A c \in ClientsOf(d) : hasHeaderKey(d, c)
  PROVE  LET e == markAndSweepHeaderKeys(d)
         IN /\ e \in Files /\ e.clients = d.clients /\ ClientsOf(e) = ClientsOf(d)
            /\ DefaultKey \in e.keys /\ KeysExact(e)
            /\ \A c \in ClientsOf(e) : hasHeaderKey(e, c)
<1> DEFINE e == markAndSweepHeaderKeys(d)
           referenced == {c.hk : c \in {x \in ClientsOf(d) : x.ver = "3.1"}}
<1>1. /\ e \in Files /\ e.clients = d.clients
      /\ e.keys = {h \in d.keys : h = DefaultKey \/ h \in referenced}
  BY DEF markAndSweepHeaderKeys, Files
<1>2. ClientsOf(e) = ClientsOf(d)
  BY <1>1 DEF ClientsOf
<1>3. referenced \subseteq d.keys
  BY DEF hasHeaderKey
<1>4. e.keys = {DefaultKey} \cup referenced
  BY <1>1, <1>3
<1> HIDE DEF e
<1>5. KeysExact(e)
  BY <1>2, <1>4 DEF KeysExact
<1>6. \A c \in ClientsOf(e) : hasHeaderKey(e, c)
  BY <1>2, <1>4 DEF hasHeaderKey
<1> QED BY <1>1, <1>2, <1>4, <1>5, <1>6 DEF e

\* A record with no ID, key or address of another one may be appended.
LEMMA AppendedFile ==
  ASSUME NEW d, GoodFile(d), NEW c \in Clients, GoodClient(d, c),
         \A x \in ClientsOf(d) : x.id # c.id /\ x.key # c.key /\ x.addr # c.addr
  PROVE  LET e == markAndSweepHeaderKeys(withClient(d, c))
         IN GoodFile(e) /\ ClientsOf(e) = ClientsOf(d) \cup {c}
<1> DEFINE f == withClient(d, c)
           e == markAndSweepHeaderKeys(f)
<1>1. d \in Files /\ d.clients \in Seq(Clients)
  BY FileClients DEF GoodFile
<1>2. f \in Files /\ f.keys = d.keys /\ f.clients = Append(d.clients, c)
  <2> DEFINE q == Append(d.clients, c)
  <2>1. q \in Seq(Clients)
    BY <1>1
  <2>2. f = [d EXCEPT !.clients = q]
    BY DEF withClient
  <2> HIDE DEF q, f
  <2>3. f \in Files /\ f.keys = d.keys /\ f.clients = q
    BY <1>1, <2>1, <2>2 DEF Files
  <2> QED BY <2>3 DEF q
<1>3. /\ DOMAIN f.clients = 1..(Len(d.clients) + 1) /\ Len(d.clients) \in Nat
      /\ DOMAIN d.clients = 1..Len(d.clients)
      /\ f.clients[Len(d.clients) + 1] = c
      /\ \A i \in DOMAIN d.clients : f.clients[i] = d.clients[i]
  BY <1>1, <1>2
<1>4. ClientsOf(f) = ClientsOf(d) \cup {c}
  BY <1>3 DEF ClientsOf
<1>5. Unique(f)
  <2> SUFFICES ASSUME NEW i \in DOMAIN f.clients, NEW j \in DOMAIN f.clients, i # j
               PROVE  /\ f.clients[i].id # f.clients[j].id
                      /\ f.clients[i].key # f.clients[j].key
                      /\ f.clients[i].addr # f.clients[j].addr
    BY DEF Unique
  <2>1. CASE i \in DOMAIN d.clients /\ j \in DOMAIN d.clients
    BY <1>3, <2>1 DEF GoodFile, Unique
  <2>2. CASE i = Len(d.clients) + 1 /\ j \in DOMAIN d.clients
    BY <1>3, <2>2 DEF ClientsOf
  <2>3. CASE j = Len(d.clients) + 1 /\ i \in DOMAIN d.clients
    BY <1>3, <2>3 DEF ClientsOf
  <2> QED BY <1>3, <2>1, <2>2, <2>3
<1>6. \A x \in ClientsOf(f) : GoodClient(f, x)
  BY <1>2, <1>4 DEF GoodFile, GoodClient, hasHeaderKey
<1>7. DefaultKey \in f.keys
  BY <1>2 DEF GoodFile
<1> HIDE DEF f
<1>8. /\ e \in Files /\ e.clients = f.clients /\ ClientsOf(e) = ClientsOf(f)
      /\ DefaultKey \in e.keys /\ KeysExact(e)
      /\ \A x \in ClientsOf(e) : hasHeaderKey(e, x)
  BY <1>2, <1>6, <1>7, SweptFile DEF GoodClient
<1> HIDE DEF e
<1>9. GoodFile(e)
  BY <1>5, <1>6, <1>8 DEF GoodFile, Unique, GoodClient
<1> QED BY <1>4, <1>8, <1>9 DEF e, f

\* The prospective data of an update.
UpdatedData(d, new, next) ==
  markAndSweepHeaderKeys(withUpdated([d EXCEPT !.keys = @ \cup new], next))

\* A record may be replaced by one of the same ID, key, address and group whose
\* header key is there.
LEMMA UpdatedFile ==
  ASSUME NEW d, GoodFile(d), NEW c \in ClientsOf(d), NEW next \in Clients,
         <<next.id, next.key, next.addr, next.group>> = <<c.id, c.key, c.addr, c.group>>,
         next.ver \in Versions, NEW new \in SUBSET HeaderKeys,
         NEW e, e = UpdatedData(d, new, next), hasHeaderKey(e, next)
  PROVE  GoodFile(e) /\ ClientsOf(e) = (ClientsOf(d) \ {c}) \cup {next}
<1> DEFINE q == [i \in DOMAIN d.clients |-> IF d.clients[i].id = next.id THEN next
                                            ELSE d.clients[i]]
           ks == d.keys \cup new
           f == withUpdated([d EXCEPT !.keys = @ \cup new], next)
<1>0. e = markAndSweepHeaderKeys(f)
  BY DEF UpdatedData
<1>1. d \in Files /\ d.clients \in Seq(Clients) /\ d.keys \subseteq HeaderKeys
  BY FileClients DEF GoodFile
<1>2. /\ q \in Seq(Clients) /\ DOMAIN q = DOMAIN d.clients
      /\ \A i \in DOMAIN q : q[i] = IF d.clients[i].id = next.id THEN next ELSE d.clients[i]
  BY <1>1
<1>3. f = [clients |-> q, keys |-> ks]
  <2> DEFINE g == [d EXCEPT !.keys = @ \cup new]
  <2>1. g = [clients |-> d.clients, keys |-> ks]
    <3>1. g = [d EXCEPT !.keys = ks]
      OBVIOUS
    <3> HIDE DEF g, f, ks, q
    <3>2. d = [clients |-> d.clients, keys |-> d.keys]
      BY <1>1 DEF Files
    <3> QED BY <3>1, <3>2
  <2>2. g.clients = d.clients /\ f = withUpdated(g, next)
    BY <2>1
  <2> HIDE DEF g, f, ks
  <2>3. f = [g EXCEPT !.clients = q]
    BY <2>2, Zenon DEF withUpdated
  <2> HIDE DEF q
  <2> QED BY <2>1, <2>3
<1>4. ks \subseteq HeaderKeys /\ DefaultKey \in ks
  BY <1>1 DEF GoodFile
<1> HIDE DEF q, ks, f
<1>5. f \in Files /\ f.keys = ks /\ f.clients = q
  BY <1>2, <1>3, <1>4 DEF Files
<1>6. \A i \in DOMAIN q : \/ q[i] = next /\ d.clients[i] = c
                          \/ q[i] = d.clients[i] /\ d.clients[i] # c
  <2>1. PICK j \in DOMAIN d.clients : d.clients[j] = c
    BY DEF ClientsOf
  <2>2. \A i \in DOMAIN q : d.clients[i].id = next.id => i = j
    BY <1>2, <2>1 DEF GoodFile, Unique
  <2> QED BY <1>2, <2>1, <2>2
<1>7. ClientsOf(f) = (ClientsOf(d) \ {c}) \cup {next}
  <2>1. ASSUME NEW x \in ClientsOf(f) PROVE x \in (ClientsOf(d) \ {c}) \cup {next}
    BY <1>2, <1>5, <1>6 DEF ClientsOf
  <2>2. ASSUME NEW x \in ClientsOf(d) \ {c} PROVE x \in ClientsOf(f)
    BY <1>2, <1>5, <1>6 DEF ClientsOf
  <2>3. next \in ClientsOf(f)
    BY <1>2, <1>5, <1>6 DEF ClientsOf
  <2> QED BY <2>1, <2>2, <2>3
<1>8. Unique(f)
  <2>1. \A i \in DOMAIN q : /\ q[i].id = d.clients[i].id /\ q[i].key = d.clients[i].key
                            /\ q[i].addr = d.clients[i].addr
    BY <1>6
  <2> QED BY <1>2, <1>5, <2>1 DEF GoodFile, Unique
<1>9. hasHeaderKey(e, next) /\ e.keys \subseteq ks
  BY <1>0, <1>5 DEF markAndSweepHeaderKeys, Files
<1>10. \A x \in ClientsOf(f) : hasHeaderKey(f, x)
  BY <1>5, <1>7, <1>9 DEF GoodFile, GoodClient, hasHeaderKey, ks
<1>11. /\ e \in Files /\ e.clients = f.clients /\ ClientsOf(e) = ClientsOf(f)
       /\ DefaultKey \in e.keys /\ KeysExact(e)
       /\ \A x \in ClientsOf(e) : hasHeaderKey(e, x)
  BY <1>0, <1>4, <1>5, <1>10, SweptFile
<1>12. normalizeClient(next) = next
  <2>1. normalizeClient(c) = c /\ c \in Clients
    BY FileClients DEF GoodFile, GoodClient
  <2>2. c.group = "" => c.id = ""
    BY <2>1 DEF normalizeClient, Clients
  <2> QED BY <2>2 DEF normalizeClient, Clients, Versions
<1>13. GoodFile(e)
  BY <1>7, <1>8, <1>11, <1>12 DEF GoodFile, Unique, GoodClient
<1> QED BY <1>7, <1>11, <1>13

\* A group a caller may choose.
Chosen(group) == group \in Groups /\ group # ""

\* A record that changes its group keeps the rest.
LEMMA InGroup ==
  ASSUME NEW c \in Clients, NEW ids, NEW group, Chosen(group)
  PROVE  LET g == inGroup(c, ids, group)
         IN /\ g \in Clients
            /\ g.id = c.id /\ g.key = c.key /\ g.addr = c.addr /\ g.ver = c.ver /\ g.hk = c.hk
            /\ effectiveProfile(g) = effectiveProfile(c)
            /\ normalizeClient(c) = c => normalizeClient(g) = g
<1> DEFINE g == [c EXCEPT !.group = group]
<1>1. /\ g \in Clients /\ g.id = c.id /\ g.key = c.key /\ g.addr = c.addr
      /\ g.ver = c.ver /\ g.hk = c.hk /\ g.var = c.var /\ g.group = group
  BY DEF Clients, Chosen
<1>2. normalizeClient(c) = c => c.ver # ""
  BY DEF normalizeClient, Clients
<1> HIDE DEF g
<1>3. normalizeClient(c) = c => normalizeClient(g) = g
  BY <1>1, <1>2 DEF normalizeClient, Clients, Chosen
<1>4. effectiveProfile(g) = effectiveProfile(c)
  BY <1>1 DEF effectiveProfile
<1>5. inGroup(c, ids, group) = IF c.id \in ids THEN g ELSE c
  BY DEF inGroup, g
<1> QED BY <1>1, <1>3, <1>4, <1>5

\* Records may change their group.
LEMMA GroupedFile ==
  ASSUME NEW d, GoodFile(d), NEW ids, NEW group, Chosen(group)
  PROVE  LET e == withGroup(d, ids, group)
         IN GoodFile(e) /\ ClientsOf(e) = {inGroup(c, ids, group) : c \in ClientsOf(d)}
<1> DEFINE q == [i \in DOMAIN d.clients |-> inGroup(d.clients[i], ids, group)]
           e == withGroup(d, ids, group)
<1>1. d \in Files /\ d.clients \in Seq(Clients) /\ d.keys \subseteq HeaderKeys
  BY FileClients DEF GoodFile
<1>2. \A i \in DOMAIN d.clients : d.clients[i] \in Clients
  BY <1>1, FileClients
<1>3. \A i \in DOMAIN d.clients : inGroup(d.clients[i], ids, group) \in Clients
  BY <1>2, InGroup
<1>4. /\ q \in Seq(Clients) /\ DOMAIN q = DOMAIN d.clients
      /\ \A i \in DOMAIN q : q[i] = inGroup(d.clients[i], ids, group)
  BY <1>1, <1>3
<1>5. e \in Files /\ e.keys = d.keys /\ e.clients = q
  <2>1. e = [d EXCEPT !.clients = q]
    BY DEF withGroup
  <2> HIDE DEF q, e
  <2> QED BY <1>1, <1>4, <2>1 DEF Files
<1> HIDE DEF q, e
<1>6. ClientsOf(e) = {inGroup(c, ids, group) : c \in ClientsOf(d)}
  BY <1>4, <1>5 DEF ClientsOf
<1>7. \A i \in DOMAIN q : /\ q[i].id = d.clients[i].id /\ q[i].key = d.clients[i].key
                          /\ q[i].addr = d.clients[i].addr
  BY <1>2, <1>4, InGroup
<1>8. Unique(e)
  <2>1. DOMAIN q = DOMAIN d.clients
    BY <1>4
  <2> QED BY <1>5, <1>7, <2>1 DEF GoodFile, Unique
<1>9. \A c \in ClientsOf(d) : c \in Clients /\ GoodClient(d, c)
  BY <1>1, FileClients DEF GoodFile
<1>10. ASSUME NEW x \in ClientsOf(e) PROVE GoodClient(e, x)
  <2>1. PICK c \in ClientsOf(d) : x = inGroup(c, ids, group)
    BY <1>6
  <2> QED BY <1>5, <1>9, <2>1, InGroup DEF GoodClient, hasHeaderKey
<1>11. KeysExact(e)
  <2>1. d.keys = {DefaultKey} \cup {c.hk : c \in {x \in ClientsOf(d) : x.ver = "3.1"}}
    BY DEF GoodFile, KeysExact
  <2>2. ASSUME NEW c \in ClientsOf(d), c.ver = "3.1"
        PROVE  \E x \in ClientsOf(e) : x.ver = "3.1" /\ x.hk = c.hk
    BY <1>6, <1>9, <2>2, InGroup
  <2>3. ASSUME NEW x \in ClientsOf(e), x.ver = "3.1"
        PROVE  \E c \in ClientsOf(d) : c.ver = "3.1" /\ x.hk = c.hk
    BY <1>6, <1>9, <2>3, InGroup
  <2>4. {c.hk : c \in {x \in ClientsOf(d) : x.ver = "3.1"}}
          = {c.hk : c \in {x \in ClientsOf(e) : x.ver = "3.1"}}
    BY <2>2, <2>3
  <2> QED BY <1>5, <2>1, <2>4 DEF KeysExact
<1>12. GoodFile(e)
  BY <1>5, <1>8, <1>10, <1>11 DEF GoodFile
<1> QED BY <1>6, <1>12 DEF e

\* Cutting one item out of a sequence.
LEMMA CutOut ==
  ASSUME NEW S, NEW q \in Seq(S), NEW i \in 1..Len(q)
  PROVE  LET r == SubSeq(q, 1, i - 1) \o SubSeq(q, i + 1, Len(q))
         IN /\ r \in Seq(S) /\ Len(r) = Len(q) - 1
            /\ \A j \in 1..(Len(q) - 1) : r[j] = q[IF j < i THEN j ELSE j + 1]
<1> DEFINE x == SubSeq(q, 1, i - 1)
           y == SubSeq(q, i + 1, Len(q))
<1>1. x \in Seq(S) /\ Len(x) = i - 1 /\ \A j \in 1..(i - 1) : x[j] = q[j]
  OBVIOUS
<1>2. y \in Seq(S) /\ Len(y) = Len(q) - i /\ \A j \in 1..(Len(q) - i) : y[j] = q[i + j]
  OBVIOUS
<1> HIDE DEF x, y
<1>3. Len(x \o y) = Len(q) - 1 /\ x \o y \in Seq(S)
  BY <1>1, <1>2
<1>4. ASSUME NEW j \in 1..(Len(q) - 1) PROVE (x \o y)[j] = q[IF j < i THEN j ELSE j + 1]
  BY <1>1, <1>2
<1> QED BY <1>3, <1>4 DEF x, y

\* A record may go.
LEMMA RemovedFile ==
  ASSUME NEW d, GoodFile(d), NEW c \in ClientsOf(d)
  PROVE  LET e == markAndSweepHeaderKeys(withoutClient(d, c.id))
         IN GoodFile(e) /\ ClientsOf(e) = ClientsOf(d) \ {c}
<1> DEFINE first(j) == /\ d.clients[j].id = c.id
                       /\ \A l \in DOMAIN d.clients : l < j => d.clients[l].id # c.id
           i == CHOOSE j \in DOMAIN d.clients : first(j)
           q == SubSeq(d.clients, 1, i - 1) \o SubSeq(d.clients, i + 1, Len(d.clients))
           f == withoutClient(d, c.id)
           e == markAndSweepHeaderKeys(f)
<1>1. /\ d \in Files /\ d.clients \in Seq(Clients) /\ d.keys \subseteq HeaderKeys
      /\ DOMAIN d.clients = 1..Len(d.clients) /\ Len(d.clients) \in Nat
  BY FileClients DEF GoodFile
<1>2. i \in DOMAIN d.clients /\ d.clients[i] = c
  <2>1. PICK j \in DOMAIN d.clients : d.clients[j] = c
    BY DEF ClientsOf
  <2>2. \A l \in DOMAIN d.clients : d.clients[l].id = c.id => l = j
    BY <2>1 DEF GoodFile, Unique
  <2>3. first(j)
    BY <1>1, <2>1, <2>2
  <2>4. i \in DOMAIN d.clients /\ first(i)
    BY <2>1, <2>3, Zenon
  <2> QED BY <2>1, <2>2, <2>4
<1>3. f = [d EXCEPT !.clients = q]
  BY Zenon DEF withoutClient
<1> HIDE DEF i
<1>6. /\ q \in Seq(Clients) /\ DOMAIN q = 1..(Len(d.clients) - 1)
      /\ \A j \in DOMAIN q : q[j] = d.clients[IF j < i THEN j ELSE j + 1]
  <2>1. /\ q \in Seq(Clients) /\ Len(q) = Len(d.clients) - 1
        /\ \A j \in 1..(Len(d.clients) - 1) : q[j] = d.clients[IF j < i THEN j ELSE j + 1]
    BY <1>1, <1>2, CutOut
  <2> HIDE DEF q
  <2> QED BY <2>1
<1> HIDE DEF q, f
<1>7. f \in Files /\ f.keys = d.keys /\ f.clients = q
  BY <1>1, <1>3, <1>6 DEF Files
<1>8. Unique(f)
  <2> SUFFICES ASSUME NEW j \in DOMAIN q, NEW l \in DOMAIN q, j # l
               PROVE  q[j].id # q[l].id /\ q[j].key # q[l].key /\ q[j].addr # q[l].addr
    BY <1>7 DEF Unique
  <2> DEFINE jj == IF j < i THEN j ELSE j + 1
             ll == IF l < i THEN l ELSE l + 1
  <2>1. jj \in DOMAIN d.clients /\ ll \in DOMAIN d.clients /\ jj # ll
    BY <1>1, <1>2, <1>6
  <2>2. q[j] = d.clients[jj] /\ q[l] = d.clients[ll]
    BY <1>6
  <2> HIDE DEF jj, ll
  <2> QED BY <2>1, <2>2 DEF GoodFile, Unique
<1>9. ClientsOf(f) = ClientsOf(d) \ {c}
  <2>1. ASSUME NEW j \in DOMAIN q PROVE q[j] \in ClientsOf(d) \ {c}
    <3> DEFINE jj == IF j < i THEN j ELSE j + 1
    <3>1. jj \in DOMAIN d.clients /\ jj # i /\ q[j] = d.clients[jj]
      BY <1>1, <1>2, <1>6
    <3> HIDE DEF jj
    <3>2. d.clients[jj].id # c.id
      BY <1>2, <3>1 DEF GoodFile, Unique
    <3> QED BY <3>1, <3>2 DEF ClientsOf
  <2>2. ASSUME NEW z \in ClientsOf(d) \ {c} PROVE \E j \in DOMAIN q : q[j] = z
    <3>1. PICK l \in DOMAIN d.clients : d.clients[l] = z
      BY DEF ClientsOf
    <3>2. l # i
      BY <1>2, <3>1
    <3>3. CASE l < i
      BY <1>1, <1>2, <1>6, <3>1, <3>3
    <3>4. CASE l > i
      <4>1. l - 1 \in DOMAIN q /\ ~(l - 1 < i)
        BY <1>1, <1>2, <1>6, <3>4
      <4>2. q[l - 1] = d.clients[(l - 1) + 1]
        BY <1>6, <4>1
      <4>3. (l - 1) + 1 = l
        BY <1>1
      <4> QED BY <3>1, <4>1, <4>2, <4>3
    <3> QED BY <1>1, <1>2, <3>2, <3>3, <3>4
  <2> QED BY <1>7, <2>1, <2>2 DEF ClientsOf
<1>10. DefaultKey \in f.keys /\ \A z \in ClientsOf(f) : GoodClient(f, z)
  BY <1>7, <1>9 DEF GoodFile, GoodClient, hasHeaderKey
<1>11. /\ e \in Files /\ e.clients = f.clients /\ ClientsOf(e) = ClientsOf(f)
       /\ DefaultKey \in e.keys /\ KeysExact(e)
       /\ \A z \in ClientsOf(e) : hasHeaderKey(e, z)
  BY <1>7, <1>10, SweptFile DEF GoodClient
<1> HIDE DEF e
<1>12. GoodFile(e)
  BY <1>8, <1>10, <1>11 DEF GoodFile, Unique, GoodClient
<1> QED BY <1>9, <1>11, <1>12 DEF e, f

\* The file as the restore plan completes it is good, and holds the same records.
LEMMA RestoredFile ==
  ASSUME NEW d \in Files, KeysExact(d)
  PROVE  /\ restoreData(d) \in Files
         /\ ClientsOf(restoreData(d)) = Normalized(d)
         /\ ~needsNormalization(d) => restoreData(d) = d
         /\ ValidPlan(d) => GoodFile(restoreData(d))
<1> DEFINE q == [i \in DOMAIN d.clients |-> normalizeClient(d.clients[i])]
           ks == IF d.keys = {} THEN {DefaultKey} ELSE d.keys
           e == restoreData(d)
<1>1. /\ d.clients \in Seq(Clients) /\ d.keys \subseteq HeaderKeys
      /\ \A i \in DOMAIN d.clients : d.clients[i] \in Clients
  BY FileClients
<1>2. ASSUME NEW c \in Clients
      PROVE  LET n == normalizeClient(c)
             IN /\ n \in Clients /\ n.id = c.id /\ n.hk = c.hk /\ n.ver \in Versions
                /\ n.ver = "3.1" <=> c.ver = "3.1"
                /\ normalizeClient(n) = n
                /\ (c.ver # "" /\ c.group # "") => n = c
  <2> DEFINE n == normalizeClient(c)
             v == IF c.ver = "" THEN "2.0" ELSE c.ver
             g == IF c.group = "" THEN c.id ELSE c.group
  <2>1. c.ver \in {"2.0", "3.1", ""} /\ c.group \in IDs \cup Groups \cup {""} /\ c.id \in IDs
    BY DEF Clients, Versions
  <2>2. v \in {"2.0", "3.1"} /\ g \in IDs \cup Groups \cup {""} /\ (v = "3.1" <=> c.ver = "3.1")
    BY <2>1
  <2>3. n = [c EXCEPT !.ver = v, !.group = g]
    BY DEF normalizeClient
  <2> HIDE DEF v, g, n
  <2>4. /\ n \in Clients /\ n.id = c.id /\ n.hk = c.hk /\ n.ver = v /\ n.group = g
    BY <2>2, <2>3 DEF Clients, Versions
  <2>5. normalizeClient(n) = n
    <3>1. g = "" => c.id = ""
      BY DEF g
    <3>2. n.ver # "" /\ (n.group = "" => n.id = "")
      BY <2>2, <2>4, <3>1
    <3> QED BY <2>4, <3>2 DEF normalizeClient, Clients
  <2>6. (c.ver # "" /\ c.group # "") => n = c
    BY <2>3 DEF v, g, Clients
  <2> QED BY <2>2, <2>4, <2>5, <2>6 DEF n, Versions
<1>3. \A i \in DOMAIN d.clients : normalizeClient(d.clients[i]) \in Clients
  BY <1>1, <1>2
<1>4. /\ q \in Seq(Clients) /\ DOMAIN q = DOMAIN d.clients
      /\ \A i \in DOMAIN q : q[i] = normalizeClient(d.clients[i])
  BY <1>1, <1>3
<1>5. ks \subseteq HeaderKeys
  BY <1>1, KeyAssumption
<1>6. e \in Files /\ e.clients = q /\ e.keys = ks
  <2>1. e = [clients |-> q, keys |-> ks]
    BY DEF restoreData, Stored
  <2> HIDE DEF q, ks, e
  <2> QED BY <1>4, <1>5, <2>1 DEF Files
<1> HIDE DEF e, q, ks
<1>7. ClientsOf(e) = Normalized(d)
  BY <1>4, <1>6 DEF ClientsOf, Normalized
<1>8. ASSUME ~needsNormalization(d) PROVE e = d
  <2>1. d.keys # {} /\ \A c \in ClientsOf(d) : c.ver # "" /\ c.group # ""
    BY <1>8 DEF needsNormalization
  <2>2. \A i \in DOMAIN q : q[i] = d.clients[i]
    BY <1>1, <1>2, <1>4, <2>1 DEF ClientsOf
  <2>3. q = d.clients
    BY <1>1, <1>4, <2>2, SeqEqual
  <2>4. e.clients = d.clients /\ e.keys = d.keys
    <3>1. ks = d.keys
      BY <2>1 DEF ks
    <3> QED BY <1>6, <2>3, <3>1
  <2>5. \A f \in Files : f = [clients |-> f.clients, keys |-> f.keys]
    BY DEF Files
  <2> QED BY <1>6, <2>4, <2>5
<1>9. ASSUME ValidPlan(d) PROVE GoodFile(e)
  <2>1. /\ d.keys = {} => \A c \in ClientsOf(d) : c.ver # "3.1"
        /\ DefaultKey \in e.keys /\ Unique(e)
        /\ \A c \in ClientsOf(e) : hasHeaderKey(e, c)
    BY <1>9 DEF ValidPlan, e, Unique
  <2>2. \A c \in ClientsOf(d) : c \in Clients
    BY FileClients
  <2>3. ASSUME NEW x \in ClientsOf(e) PROVE GoodClient(e, x)
    <3>1. PICK c \in ClientsOf(d) : x = normalizeClient(c)
      BY <1>7 DEF Normalized
    <3> QED BY <1>2, <2>1, <2>2, <3>1 DEF GoodClient
  <2>4. {c.hk : c \in {x \in ClientsOf(d) : x.ver = "3.1"}}
          = {c.hk : c \in {x \in ClientsOf(e) : x.ver = "3.1"}}
    <3>1. ASSUME NEW c \in ClientsOf(d), c.ver = "3.1"
          PROVE  \E x \in ClientsOf(e) : x.ver = "3.1" /\ x.hk = c.hk
      BY <1>2, <1>7, <2>2, <3>1 DEF Normalized
    <3>2. ASSUME NEW x \in ClientsOf(e), x.ver = "3.1"
          PROVE  \E c \in ClientsOf(d) : c.ver = "3.1" /\ x.hk = c.hk
      BY <1>2, <1>7, <2>2, <3>2, ZenonT(40) DEF Normalized
    <3> QED BY <3>1, <3>2
  <2>5. KeysExact(e)
    <3>1. CASE d.keys = {}
      <4>1. {c.hk : c \in {x \in ClientsOf(d) : x.ver = "3.1"}} = {}
        BY <2>1, <3>1
      <4> QED BY <1>6, <2>4, <3>1, <4>1 DEF KeysExact, ks
    <3>2. CASE d.keys # {}
      BY <1>6, <2>4, <3>2 DEF KeysExact, ks
    <3> QED BY <3>1, <3>2
  <2> QED BY <1>6, <2>1, <2>3, <2>5 DEF GoodFile
<1> QED BY <1>6, <1>7, <1>8, <1>9 DEF e

\* Clients of a good file are theirs alone, and ask for profiles that exist.
LEMMA GoodClients ==
  ASSUME NEW d, GoodFile(d)
  PROVE  /\ d \in Files /\ ClientsOf(d) \subseteq Clients
         /\ Normalized(d) = ClientsOf(d)
         /\ \A c \in ClientsOf(d) : effectiveProfile(c) \in Profiles
         /\ \A c, e \in ClientsOf(d) :
              c # e => c.id # e.id /\ c.key # e.key /\ c.addr # e.addr
<1>1. d \in Files /\ ClientsOf(d) \subseteq Clients /\ d.keys \subseteq HeaderKeys
  BY FileClients DEF GoodFile
<1>2. Normalized(d) = ClientsOf(d)
  BY DEF Normalized, GoodFile, GoodClient
<1>3. \A c \in ClientsOf(d) : effectiveProfile(c) \in Profiles
  BY <1>1, ProfileType DEF GoodFile
<1>4. \A c, e \in ClientsOf(d) : c # e => c.id # e.id /\ c.key # e.key /\ c.addr # e.addr
  BY DEF GoodFile, Unique, ClientsOf
<1> QED BY <1>1, <1>2, <1>3, <1>4

-----------------------------------------------------------------------------
(***************************************************************************)
(* The parts of a call.                                                    *)
(***************************************************************************)
\* t is s but for the pool and the LAN.
Frame(s, t) ==
  /\ t \in MStates
  /\ t.phase = s.phase /\ t.disk = s.disk /\ t.probes = s.probes /\ t.data = s.data
  /\ t.todo = s.todo /\ t.clients = s.clients /\ t.usedIPs = s.usedIPs

\* t is s but for the count of failed commands.
Idle(s, t) ==
  /\ Frame(s, t) /\ t.lan = s.lan
  /\ SameBooks(s.pool, t.pool) /\ t.pool.kpeers = s.pool.kpeers
  /\ t.pool.masq = s.pool.masq /\ t.pool.masqAdded = s.pool.masqAdded
  /\ t.pool.faults >= s.pool.faults

\* A step outside the pool has its effect, or fails and only counts.
LEMMA AttemptEffect ==
  ASSUME NEW s \in MStates, NEW effect, NEW err, NEW o \in Attempt(s, effect, err)
  PROVE  \/ o.st = effect /\ o.err = "ok"
         \/ Idle(s, o.st) /\ o.err = err /\ o.st.pool.faults = s.pool.faults + 1
<1> DEFINE f == Faulted(s.pool)
           t == [s EXCEPT !.pool = f]
<1>1. o = Done(effect) \/ o = Outcome([s EXCEPT !.pool = Faulted(@)], err)
  BY Zenon DEF Attempt
<1>2. s.pool \in States
  BY DEF MStates
<1>3. /\ f \in States /\ f.kpeers = s.pool.kpeers /\ f.masq = s.pool.masq
      /\ f.masqAdded = s.pool.masqAdded /\ f.faults = s.pool.faults + 1 /\ s.pool.faults \in Nat
  BY <1>2 DEF Faulted, States
<1>4. SameBooks(s.pool, f)
  BY <1>2, SameBooksRefl
<1> HIDE DEF f
<1>5. /\ t \in MStates /\ t.pool = f /\ t.lan = s.lan
      /\ t.phase = s.phase /\ t.disk = s.disk /\ t.probes = s.probes /\ t.data = s.data
      /\ t.todo = s.todo /\ t.clients = s.clients /\ t.usedIPs = s.usedIPs
  BY <1>3 DEF MStates
<1>6. t = [s EXCEPT !.pool = Faulted(@)]
  BY DEF f
<1> HIDE DEF t
<1>7. Idle(s, t) /\ t.pool.faults = s.pool.faults + 1
  BY <1>3, <1>4, <1>5 DEF Idle, Frame
<1>8. CASE o = Done(effect)
  BY <1>8 DEF Done, Outcome
<1>9. CASE o = Outcome(t, err)
  <2>1. o.st = t /\ o.err = err
    BY <1>9 DEF Outcome
  <2> QED BY <1>7, <2>1
<1> QED BY <1>1, <1>6, <1>8, <1>9

\* Storage.Save replaces the file or fails.
LEMMA SaveEffect ==
  ASSUME NEW s \in MStates, NEW d, NEW o \in Save(s, d)
  PROVE  \/ o.st = [s EXCEPT !.disk = d] /\ o.err = "ok"
         \/ Idle(s, o.st) /\ o.err = "save"
BY AttemptEffect DEF Save

\* No clients, no pairs.
LEMMA NoPairs == lanPairs({}) = {}
BY DEF lanPairs

\* The pairs are made of the clients' addresses, and of what they have in common.
LEMMA PairsType ==
  ASSUME NEW cs \in SUBSET Clients
  PROVE  lanPairs(cs) \subseteq Open
<1> SUFFICES ASSUME NEW z \in lanPairs(cs) PROVE z \in Open
  OBVIOUS
<1>1. PICK x \in cs \X cs : z = <<x[1].addr, x[2].addr>>
  BY DEF lanPairs
<1>2. x[1] \in Clients /\ x[2] \in Clients
  OBVIOUS
<1>3. x[1].addr \in Addrs /\ x[2].addr \in Addrs
  BY <1>2 DEF Clients
<1> QED BY <1>1, <1>3 DEF Open

\* Blocking the LAN leaves nobody to talk to, or fails.
LEMMA BlockEffect ==
  ASSUME NEW s \in MStates, NEW o \in blockLAN(s)
  PROVE  \/ o.st = [s EXCEPT !.lan = {}] /\ o.err = "ok"
         \/ Idle(s, o.st) /\ o.err = "blockLAN"
<1> DEFINE e == [s EXCEPT !.lan = {}]
<1>1. e = [s EXCEPT !.lan = lanPairs({})]
  BY NoPairs
<1>2. o \in Attempt(s, e, "blockLAN")
  BY <1>1 DEF blockLAN, ApplyLANIsolation
<1> HIDE DEF e
<1>3. \/ o.st = e /\ o.err = "ok"
      \/ Idle(s, o.st) /\ o.err = "blockLAN"
  BY <1>2, AttemptEffect
<1> QED BY <1>3 DEF e

\* A process that is idle from here on is where it was.
LEMMA IdleRefl ==
  ASSUME NEW s \in MStates
  PROVE  Idle(s, s)
<1>1. s.pool \in States
  BY DEF MStates
<1>2. s.pool.faults \in Nat
  BY <1>1 DEF States
<1> QED BY <1>1, <1>2, SameBooksRefl DEF Idle, Frame

\* Rebuilding the LAN lets the clients of one group talk, or fails.
LEMMA RebuildEffect ==
  ASSUME NEW s \in MStates, NEW o \in rebuildLAN(s)
  PROVE  \/ o.st = [s EXCEPT !.lan = lanPairs(ClientsOf(s.data))] /\ o.err = "ok"
         \/ Idle(s, o.st) /\ o.err = "rebuildLAN"
<1>1. \/ o \in Attempt(s, [s EXCEPT !.lan = lanPairs(ClientsOf(s.data))], "rebuildLAN")
      \/ o = Outcome(s, "rebuildLAN")
  BY Zenon DEF rebuildLAN, ApplyLANIsolation
<1>2. CASE o = Outcome(s, "rebuildLAN")
  <2>1. o.st = s /\ o.err = "rebuildLAN"
    BY <1>2 DEF Outcome
  <2> QED BY <2>1, IdleRefl
<1> QED BY <1>1, <1>2, AttemptEffect

-----------------------------------------------------------------------------
(***************************************************************************)
(* The clients and the pool.                                               *)
(***************************************************************************)
SamePeers(pool, t) == \A p \in Profiles : t.ifaces[p].peers = pool.ifaces[p].peers

\* Books without change have the same peers.
LEMMA KeptPeers ==
  ASSUME NEW pool, NEW t, Kept(pool, t) \/ SameBooks(pool, t)
  PROVE  SamePeers(pool, t)
BY DEF Kept, SameBooks, SamePeers

\* A peer was added for a new client.
LEMMA MatchesAdded ==
  ASSUME NEW pool, NEW t, NEW cs, NEW c, Matches(pool, cs),
         Touches(pool, t, effectiveProfile(c)), effectiveProfile(c) \in Profiles,
         t.ifaces[effectiveProfile(c)].peers
           = pool.ifaces[effectiveProfile(c)].peers \cup {c.key}
  PROVE  Matches(t, cs \cup {c})
<1> SUFFICES ASSUME NEW p \in Profiles
             PROVE  t.ifaces[p].peers = KeysOn(cs \cup {c}, p)
  BY DEF Matches
<1>1. pool.ifaces[p].peers = KeysOn(cs, p)
  BY DEF Matches
<1>2. CASE p = effectiveProfile(c)
  <2>1. KeysOn(cs \cup {c}, p) = KeysOn(cs, p) \cup {c.key}
    BY <1>2 DEF KeysOn
  <2> QED BY <1>1, <1>2, <2>1
<1>3. CASE p # effectiveProfile(c)
  <2>1. KeysOn(cs \cup {c}, p) = KeysOn(cs, p)
    BY <1>3 DEF KeysOn
  <2> QED BY <1>1, <1>3, <2>1 DEF Touches
<1> QED BY <1>2, <1>3

\* A peer went with its client.
LEMMA MatchesRemoved ==
  ASSUME NEW pool, NEW t, NEW cs, NEW c \in cs, Matches(pool, cs),
         \A x \in cs : x # c => x.key # c.key,
         Touches(pool, t, effectiveProfile(c)), effectiveProfile(c) \in Profiles,
         t.ifaces[effectiveProfile(c)].peers
           = pool.ifaces[effectiveProfile(c)].peers \ {c.key}
  PROVE  Matches(t, cs \ {c})
<1> SUFFICES ASSUME NEW p \in Profiles
             PROVE  t.ifaces[p].peers = KeysOn(cs \ {c}, p)
  BY DEF Matches
<1>1. pool.ifaces[p].peers = KeysOn(cs, p)
  BY DEF Matches
<1>2. CASE p = effectiveProfile(c)
  <2>1. KeysOn(cs \ {c}, p) = KeysOn(cs, p) \ {c.key}
    BY <1>2 DEF KeysOn
  <2> QED BY <1>1, <1>2, <2>1
<1>3. CASE p # effectiveProfile(c)
  <2>1. KeysOn(cs \ {c}, p) = KeysOn(cs, p)
    BY <1>3 DEF KeysOn
  <2> QED BY <1>1, <1>3, <2>1 DEF Touches
<1> QED BY <1>2, <1>3

\* A peer moved with its client; c and next may have the same profile.
LEMMA MatchesMoved ==
  ASSUME NEW pool, NEW t, NEW cs, NEW c \in cs, NEW next, Matches(pool, cs),
         \A x \in cs : x # c => x.key # c.key, next.key = c.key,
         NEW p \in Profiles, p = effectiveProfile(c),
         NEW q \in Profiles, q = effectiveProfile(next),
         Touches2(pool, t, p, q), Moved(pool, t, p, q, c.key)
  PROVE  Matches(t, (cs \ {c}) \cup {next})
<1> DEFINE ds == (cs \ {c}) \cup {next}
<1> SUFFICES ASSUME NEW r \in Profiles PROVE t.ifaces[r].peers = KeysOn(ds, r)
  BY DEF Matches
<1>1. pool.ifaces[r].peers = KeysOn(cs, r)
  BY DEF Matches
<1>2. c.key \in KeysOn(cs, p)
  BY DEF KeysOn
<1>3. KeysOn(ds, r) = (IF r = p THEN KeysOn(cs, r) \ {c.key} ELSE KeysOn(cs, r))
                        \cup (IF r = q THEN {c.key} ELSE {})
  BY DEF KeysOn
<1>4. CASE r = p /\ p = q
  BY <1>1, <1>2, <1>3, <1>4 DEF Moved
<1>5. CASE r = p /\ p # q
  BY <1>1, <1>3, <1>5 DEF Moved
<1>6. CASE r # p /\ r = q
  BY <1>1, <1>3, <1>6 DEF Moved
<1>7. CASE r # p /\ r # q
  BY <1>1, <1>3, <1>7 DEF Touches2
<1> QED BY <1>4, <1>5, <1>6, <1>7

-----------------------------------------------------------------------------
(***************************************************************************)
(* How a call ends.                                                        *)
(***************************************************************************)
\* A rollback failed.
Bad == {"rollbackFailed", "saveRollback"}

\* The call failed and changed nothing, but it may have closed the LAN.
Aborted(s, o) ==
  /\ o.err \notin {"ok", "rebuildLAN"}
  /\ Frame(s, o.st) /\ o.st.lan \in {s.lan, {}}
  /\ Sound(o.st.pool) /\ Unruled(o.st.pool) = Unruled(s.pool)
  /\ (o.err \notin Bad /\ Matches(s.pool, s.clients)) => SamePeers(s.pool, o.st.pool)

\* The call made d its data and its file.
Committed(s, t, d) ==
  /\ t \in MStates
  /\ t.phase = s.phase /\ t.probes = s.probes /\ t.todo = s.todo
  /\ GoodFile(d)
  /\ t.disk = d /\ t.data = d
  /\ t.clients = ClientsOf(d) /\ t.usedIPs = {c.addr : c \in t.clients}
  /\ Sound(t.pool) /\ Unruled(t.pool) = Unruled(s.pool)
  /\ Matches(s.pool, s.clients) => Matches(t.pool, t.clients)

\* The LAN was blocked and is rebuilt, or not.
Isolated(o) ==
  \/ o.err = "ok" /\ o.st.lan = lanPairs(o.st.clients)
  \/ o.err = "rebuildLAN" /\ o.st.lan = {}

\* A call that was aborted keeps the invariant.
LEMMA AbortedInv ==
  ASSUME NEW s, NEW o, NEW dirt \in BOOLEAN, Inv(s, dirt), s.phase = "up", Aborted(s, o)
  PROVE  Inv(o.st, dirt \/ o.err \in Bad)
<1> DEFINE t == o.st
<1>1. /\ t \in MStates /\ t.phase = "up" /\ t.disk = s.disk /\ t.data = s.data
      /\ t.clients = s.clients /\ t.usedIPs = s.usedIPs /\ t.lan \in {s.lan, {}}
      /\ Sound(t.pool)
  BY DEF Aborted, Frame
<1>2. UpInv(s, dirt) /\ KeysExact(s.disk) /\ LanInv(s)
  BY DEF Inv
<1>3. LanInv(t)
  BY <1>1, <1>2 DEF LanInv
<1>4. ~(dirt \/ o.err \in Bad) => Matches(t.pool, t.clients)
  BY <1>1, <1>2 DEF Aborted, UpInv, Matches, SamePeers
<1>5. UpInv(t, dirt \/ o.err \in Bad)
  BY <1>1, <1>2, <1>4 DEF UpInv
<1> QED BY <1>1, <1>2, <1>3, <1>5 DEF Inv

\* A call that was committed keeps the invariant.
LEMMA CommittedInv ==
  ASSUME NEW s, NEW t, NEW d, NEW dirt \in BOOLEAN, Inv(s, dirt), s.phase = "up",
         Committed(s, t, d), t.lan \subseteq lanPairs(t.clients)
  PROVE  Inv(t, dirt)
<1>1. /\ t \in MStates /\ t.phase = "up" /\ t.disk = d /\ t.data = d /\ GoodFile(d)
      /\ t.clients = ClientsOf(d) /\ t.usedIPs = {c.addr : c \in t.clients}
      /\ Sound(t.pool)
  BY DEF Committed
<1>2. LanInv(t)
  <2>1. Normalized(d) = ClientsOf(d)
    BY <1>1, GoodClients
  <2> QED BY <1>1, <2>1 DEF LanInv
<1>3. ~dirt => Matches(t.pool, t.clients)
  BY DEF Inv, UpInv, Committed
<1>4. UpInv(t, dirt)
  BY <1>1, <1>3 DEF UpInv
<1>5. KeysExact(d)
  BY <1>1 DEF GoodFile
<1> QED BY <1>1, <1>2, <1>4, <1>5 DEF Inv

\* A pool operation changes the pool only.
LEMMA PoolCall ==
  ASSUME NEW s \in MStates, NEW outcomes, \A x \in outcomes : x.st \in States,
         NEW o \in OnPool(s, outcomes)
  PROVE  \E x \in outcomes : /\ o.err = x.err /\ o.st.pool = x.st
                             /\ Frame(s, o.st) /\ o.st.lan = s.lan
<1>1. PICK x \in outcomes : o = Outcome([s EXCEPT !.pool = x.st], x.err)
  BY DEF OnPool
<1> DEFINE t == [s EXCEPT !.pool = x.st]
<1>2. o.st = t /\ o.err = x.err
  BY <1>1 DEF Outcome
<1>3. x.st \in States
  OBVIOUS
<1>4. Frame(s, t) /\ t.pool = x.st /\ t.lan = s.lan
  BY <1>3 DEF Frame, MStates
<1> HIDE DEF t
<1> QED BY <1>2, <1>4

\* A call that ends before it did anything.
LEMMA AbortedAtOnce ==
  ASSUME NEW s \in MStates, Sound(s.pool), NEW o, Idle(s, o.st),
         o.err \notin {"ok", "rebuildLAN"}
  PROVE  Aborted(s, o)
<1>1. Sound(o.st.pool) /\ Unruled(o.st.pool) = Unruled(s.pool)
  BY SameSound DEF Idle, SameBooks
<1>2. SamePeers(s.pool, o.st.pool)
  BY KeptPeers DEF Idle
<1> QED BY <1>1, <1>2 DEF Aborted, Idle

\* What a running server knows when a call comes in.
LEMMA UpFacts ==
  ASSUME NEW s, NEW dirt, Inv(s, dirt), s.phase = "up"
  PROVE  /\ s \in MStates /\ Sound(s.pool) /\ s.pool \in States
         /\ s.data = s.disk /\ GoodFile(s.data) /\ s.clients = ClientsOf(s.data)
         /\ s.clients \subseteq Clients /\ s.data \in Files
         /\ s.usedIPs = {c.addr : c \in s.clients}
         /\ \A c \in s.clients : effectiveProfile(c) \in Profiles
         /\ \A c, e \in s.clients : c # e => c.id # e.id /\ c.key # e.key /\ c.addr # e.addr
         /\ s.lan \subseteq lanPairs(s.clients)
<1>1. /\ s \in MStates /\ Sound(s.pool) /\ s.pool \in States
      /\ s.data = s.disk /\ GoodFile(s.data) /\ s.clients = ClientsOf(s.data)
      /\ s.usedIPs = {c.addr : c \in s.clients}
  BY DEF Inv, UpInv, Sound
<1>2. /\ s.clients \subseteq Clients /\ s.data \in Files
      /\ \A c \in s.clients : effectiveProfile(c) \in Profiles
      /\ \A c, e \in s.clients : c # e => c.id # e.id /\ c.key # e.key /\ c.addr # e.addr
      /\ Normalized(s.data) = s.clients
  BY <1>1, GoodClients
<1>3. s.lan \subseteq lanPairs(s.clients)
  BY <1>1, <1>2 DEF Inv, LanInv
<1> QED BY <1>1, <1>2, <1>3

-----------------------------------------------------------------------------
(***************************************************************************)
(* The steps that calls have in common.                                    *)
(***************************************************************************)
\* The LAN is blocked, or the call ends.
LEMMA Blocked ==
  ASSUME NEW s \in MStates, Sound(s.pool), NEW b \in blockLAN(s)
  PROVE  \/ b.err = "ok" /\ Frame(s, b.st) /\ b.st.lan = {} /\ b.st.pool = s.pool
         \/ b.err # "ok" /\ Aborted(s, b)
<1>1. CASE b.st = [s EXCEPT !.lan = {}] /\ b.err = "ok"
  BY <1>1 DEF Frame, MStates
<1>2. CASE Idle(s, b.st) /\ b.err = "blockLAN"
  BY <1>2, AbortedAtOnce
<1> QED BY <1>1, <1>2, BlockEffect

\* The file is replaced, or only a failure is counted.
LEMMA Saved ==
  ASSUME NEW s \in MStates, NEW d \in Files, NEW o \in Save(s, d)
  PROVE  \/ /\ o.err = "ok" /\ o.st \in MStates
            /\ o.st.disk = d /\ o.st.pool = s.pool /\ o.st.lan = s.lan
            /\ o.st.phase = s.phase /\ o.st.probes = s.probes /\ o.st.data = s.data
            /\ o.st.todo = s.todo /\ o.st.clients = s.clients /\ o.st.usedIPs = s.usedIPs
         \/ o.err = "save" /\ Idle(s, o.st)
<1>1. CASE o.st = [s EXCEPT !.disk = d] /\ o.err = "ok"
  BY <1>1 DEF MStates
<1> QED BY <1>1, SaveEffect

\* commitClient changes the memory only.
LEMMA CommitFields ==
  ASSUME NEW s \in MStates, NEW c \in Clients, NEW d \in Files
  PROVE  LET t == commitClient(s, c, d)
         IN /\ t \in MStates /\ t.data = d
            /\ t.clients = {x \in s.clients : x.id # c.id} \cup {c}
            /\ t.usedIPs = s.usedIPs \cup {c.addr}
            /\ t.disk = s.disk /\ t.pool = s.pool /\ t.lan = s.lan
            /\ t.phase = s.phase /\ t.probes = s.probes /\ t.todo = s.todo
<1> DEFINE cs == {x \in s.clients : x.id # c.id} \cup {c}
           ips == s.usedIPs \cup {c.addr}
           t == [s EXCEPT !.clients = cs, !.usedIPs = ips, !.data = d]
<1>1. cs \subseteq Clients /\ ips \subseteq Addrs
  BY DEF MStates, Clients
<1>2. t = commitClient(s, c, d)
  BY DEF commitClient
<1> HIDE DEF cs, ips
<1>3. /\ t \in MStates /\ t.data = d /\ t.clients = cs /\ t.usedIPs = ips
      /\ t.disk = s.disk /\ t.pool = s.pool /\ t.lan = s.lan
      /\ t.phase = s.phase /\ t.probes = s.probes /\ t.todo = s.todo
  BY <1>1 DEF MStates
<1> HIDE DEF t
<1> QED BY <1>2, <1>3 DEF cs, ips

\* The error of a failed save says whether its rollback failed.
LEMMA FailedSave ==
  ASSUME NEW outcomes, NEW o \in persistenceFailure(outcomes)
  PROVE  \E x \in outcomes : /\ o.st = x.st
                             /\ o.err \in {"save", "saveRollback"}
                             /\ o.err = "save" => x.err = "ok"
<1>1. PICK x \in outcomes :
        o = Outcome(x.st, IF x.err = "ok" THEN "save" ELSE "saveRollback")
  BY DEF persistenceFailure
<1>2. o.st = x.st /\ o.err = (IF x.err = "ok" THEN "save" ELSE "saveRollback")
  BY <1>1 DEF Outcome
<1> QED BY <1>2

\* The LAN that a committed call blocked is rebuilt.
LEMMA Rebuilt ==
  ASSUME NEW s, NEW t, NEW d, Committed(s, t, d), t.lan = {}, NEW o \in rebuildLAN(t)
  PROVE  Committed(s, o.st, d) /\ Isolated(o)
<1>1. t \in MStates /\ t.data = d /\ t.clients = ClientsOf(d) /\ t.clients \subseteq Clients
  BY DEF Committed, MStates
<1>2. CASE o.st = [t EXCEPT !.lan = lanPairs(ClientsOf(t.data))] /\ o.err = "ok"
  <2> DEFINE lan == lanPairs(ClientsOf(t.data))
             u == [t EXCEPT !.lan = lan]
  <2>1. lan \subseteq Open
    BY <1>1, PairsType
  <2>2. lan = lanPairs(t.clients)
    BY <1>1
  <2> HIDE DEF lan
  <2>3. /\ u \in MStates /\ u.lan = lan /\ u.pool = t.pool /\ u.data = t.data
        /\ u.phase = t.phase /\ u.disk = t.disk /\ u.probes = t.probes
        /\ u.todo = t.todo /\ u.clients = t.clients /\ u.usedIPs = t.usedIPs
    BY <1>1, <2>1 DEF MStates
  <2>4. o.st = u /\ o.err = "ok"
    BY <1>2 DEF lan
  <2> HIDE DEF u
  <2> QED BY <2>2, <2>3, <2>4 DEF Committed, Isolated
<1>3. CASE Idle(t, o.st) /\ o.err = "rebuildLAN"
  <2>1. /\ Sound(o.st.pool) /\ Unruled(o.st.pool) = Unruled(t.pool)
        /\ o.st.pool.ifaces = t.pool.ifaces
    BY <1>3, SameSound DEF Idle, SameBooks, Committed
  <2>2. Matches(t.pool, t.clients) => Matches(o.st.pool, o.st.clients)
    BY <1>3, <2>1 DEF Matches, Idle, Frame
  <2> QED BY <1>3, <2>1, <2>2 DEF Committed, Isolated, Idle, Frame
<1> QED BY <1>1, <1>2, <1>3, RebuildEffect

-----------------------------------------------------------------------------
(***************************************************************************)
(* The calls.                                                              *)
(***************************************************************************)
\* AddPeer for a client puts its key on the profile; a plain error changes no peer.
LEMMA ClientAdded ==
  ASSUME NEW pool, Sound(pool), NEW p \in Profiles, NEW port \in Nat, NEW c \in Clients,
         NEW x \in AddPeer(pool, p, port, c.key, c.addr)
  PROVE  /\ x.err \in Errors /\ x.st \in States /\ Touches(pool, x.st, p)
         /\ x.err = "ok" => x.st.ifaces[p].peers = pool.ifaces[p].peers \cup {c.key}
         /\ Plain(x.err) => SamePeers(pool, x.st)
<1> DEFINE k == c.key
           a == c.addr
<1>1. k \in Keys /\ a \in Addrs
  BY DEF Clients
<1>2. x \in AddPeer(pool, p, port, k, a)
  OBVIOUS
<1> HIDE DEF k, a
<1>3. /\ x.err \in Errors /\ Touches(pool, x.st, p)
      /\ x.err = "ok" => x.st.ifaces[p].peers = pool.ifaces[p].peers \cup {k}
      /\ Plain(x.err) => Kept(pool, x.st)
  BY <1>1, <1>2, AddPeerEffect
<1>4. x.st \in States /\ (Plain(x.err) => SamePeers(pool, x.st))
  BY <1>3, KeptPeers DEF Touches, Sound
<1> QED BY <1>3, <1>4 DEF k

\* RemovePeer for a client takes its key off the profile, or says it did not.
LEMMA ClientRemoved ==
  ASSUME NEW pool, Sound(pool), NEW p \in Profiles, NEW c \in Clients,
         NEW x \in RemovePeer(pool, p, c.key, c.addr)
  PROVE  /\ x.err \in Errors /\ x.st \in States /\ Touches(pool, x.st, p)
         /\ x.err = "ok" => x.st.ifaces[p].peers = pool.ifaces[p].peers \ {c.key}
         /\ Plain(x.err) => SamePeers(pool, x.st)
<1> DEFINE k == c.key
           a == c.addr
<1>1. k \in Keys /\ a \in Addrs
  BY DEF Clients
<1>2. x \in RemovePeer(pool, p, k, a)
  OBVIOUS
<1> HIDE DEF k, a
<1>3. /\ x.err \in Errors /\ Touches(pool, x.st, p)
      /\ x.err = "ok" => x.st.ifaces[p].peers = pool.ifaces[p].peers \ {k}
      /\ Plain(x.err) => Kept(pool, x.st)
  BY <1>1, <1>2, RemovePeerEffect
<1>4. x.st \in States /\ (Plain(x.err) => SamePeers(pool, x.st))
  BY <1>3, KeptPeers DEF Touches, Sound
<1> QED BY <1>3, <1>4 DEF k

\* A pool operation on a blocked LAN that did not succeed ends the call.
LEMMA AbortedByPool ==
  ASSUME NEW s, NEW t, Frame(s, t), t.lan \in {s.lan, {}}, t.pool = s.pool,
         NEW outcomes, NEW o \in OnPool(t, outcomes), o.err # "ok",
         \A x \in outcomes :
           /\ x.err \in Errors /\ x.st \in States /\ Sound(x.st) /\ Unruled(x.st) = Unruled(s.pool)
           /\ (Plain(x.err) /\ Matches(s.pool, s.clients)) => SamePeers(s.pool, x.st)
  PROVE  Aborted(s, o)
<1>1. t \in MStates /\ \A x \in outcomes : x.st \in States
  BY DEF Frame
<1>2. PICK x \in outcomes : /\ o.err = x.err /\ o.st.pool = x.st
                            /\ Frame(t, o.st) /\ o.st.lan = t.lan
  BY <1>1, PoolCall
<1>3. Frame(s, o.st) /\ o.st.lan \in {s.lan, {}}
  BY <1>2 DEF Frame
<1> QED BY <1>2, <1>3 DEF Aborted, Errors, Plain, Bad

\* A save fails after the pool had changed: the call puts the pool back.
LEMMA AbortedBySave ==
  ASSUME NEW s, NEW u, Frame(s, u), u.lan \in {s.lan, {}},
         NEW outcomes, NEW o \in persistenceFailure(OnPool(u, outcomes)),
         \A x \in outcomes :
           /\ x.st \in States /\ Sound(x.st) /\ Unruled(x.st) = Unruled(s.pool)
           /\ (x.err = "ok" /\ Matches(s.pool, s.clients)) => SamePeers(s.pool, x.st)
  PROVE  Aborted(s, o)
<1>1. PICK y \in OnPool(u, outcomes) : /\ o.st = y.st
                                       /\ o.err \in {"save", "saveRollback"}
                                       /\ o.err = "save" => y.err = "ok"
  BY FailedSave
<1>2. u \in MStates /\ \A x \in outcomes : x.st \in States
  BY DEF Frame
<1>3. PICK x \in outcomes : /\ y.err = x.err /\ y.st.pool = x.st
                            /\ Frame(u, y.st) /\ y.st.lan = u.lan
  BY <1>2, PoolCall
<1>4. Frame(s, o.st) /\ o.st.lan \in {s.lan, {}}
  BY <1>1, <1>3 DEF Frame
<1> QED BY <1>1, <1>3, <1>4 DEF Aborted, Bad

\* stageCreate adds the client everywhere or nowhere.
LEMMA StageCreateEffect ==
  ASSUME NEW s, NEW dirt, Inv(s, dirt), s.phase = "up",
         NEW c \in Clients, GoodClient(s.data, c),
         \A x \in s.clients : x.id # c.id /\ x.key # c.key /\ x.addr # c.addr,
         NEW o \in stageCreate(s, c)
  PROVE  \/ Aborted(s, o)
         \/ \E d : /\ Committed(s, o.st, d) /\ Isolated(o)
                   /\ ClientsOf(d) = s.clients \cup {c}
<1> DEFINE d == markAndSweepHeaderKeys(withClient(s.data, c))
           p == effectiveProfile(c)
           P == s.pool.ifaces[p].peers
<1>1. /\ s \in MStates /\ Sound(s.pool) /\ GoodFile(s.data) /\ s.clients = ClientsOf(s.data)
      /\ s.data \in Files /\ s.usedIPs = {x.addr : x \in s.clients}
  BY UpFacts
<1>2. GoodFile(d) /\ ClientsOf(d) = s.clients \cup {c} /\ d \in Files
  BY <1>1, AppendedFile DEF GoodFile
<1>3. p \in Profiles
  BY <1>1, ProfileType DEF Files
<1>4. c.port \in Nat /\ c.key \in Keys /\ c.addr \in Addrs
  BY DEF Clients
<1>5. Matches(s.pool, s.clients) => c.key \notin P
  BY <1>3 DEF Matches, KeysOn
<1>6. PICK b \in blockLAN(s) :
        o \in IF b.err = "ok"
                THEN Then(OnPool(b.st, AddPeer(b.st.pool, p, c.port, c.key, c.addr)),
                     LAMBDA u : Then(Catch(Save(u, d),
                                           LAMBDA x : persistenceFailure(
                                             OnPool(x.st, RemovePeer(x.st.pool, p, c.key, c.addr)))),
                     LAMBDA v : rebuildLAN(commitClient(v, c, d))))
                ELSE {b}
  BY DEF stageCreate, Then
<1> HIDE DEF d, p
<1>7. CASE b.err # "ok"
  BY <1>1, <1>6, <1>7, Blocked
<1>8. CASE b.err = "ok"
  <2> DEFINE added == AddPeer(b.st.pool, p, c.port, c.key, c.addr)
  <2>1. Frame(s, b.st) /\ b.st.lan = {} /\ b.st.pool = s.pool /\ b.st \in MStates
    BY <1>1, <1>8, Blocked DEF Frame
  <2>2. PICK u \in OnPool(b.st, added) :
          o \in IF u.err = "ok"
                  THEN Then(Catch(Save(u.st, d),
                                  LAMBDA x : persistenceFailure(
                                    OnPool(x.st, RemovePeer(x.st.pool, p, c.key, c.addr)))),
                            LAMBDA v : rebuildLAN(commitClient(v, c, d)))
                  ELSE {u}
    BY <1>6, <1>8 DEF Then
  <2>3. ASSUME NEW x \in added
        PROVE  /\ x.err \in Errors /\ x.st \in States /\ Touches(s.pool, x.st, p)
               /\ x.err = "ok" => x.st.ifaces[p].peers = P \cup {c.key}
               /\ Plain(x.err) => SamePeers(s.pool, x.st)
    <3>1. x \in AddPeer(s.pool, p, c.port, c.key, c.addr)
      BY <2>1
    <3> QED BY <1>1, <1>3, <1>4, <3>1, ClientAdded
  <2> HIDE DEF added
  <2>4. CASE u.err # "ok"
    <3>1. Aborted(s, u)
      BY <2>1, <2>3, <2>4, AbortedByPool DEF Touches
    <3> QED BY <2>2, <2>4, <3>1
  <2>5. CASE u.err = "ok"
    <3>1. /\ Frame(s, u.st) /\ u.st.lan = {} /\ u.st \in MStates
          /\ Touches(s.pool, u.st.pool, p) /\ u.st.pool.ifaces[p].peers = P \cup {c.key}
      <4>1. PICK x \in added : /\ u.err = x.err /\ u.st.pool = x.st
                               /\ Frame(b.st, u.st) /\ u.st.lan = b.st.lan
        BY <2>1, <2>3, PoolCall
      <4> QED BY <2>1, <2>3, <2>5, <4>1 DEF Frame
    <3>2. \E v, w : /\ w \in Save(u.st, d)
                    /\ v \in IF w.err = "ok" THEN {w}
                             ELSE persistenceFailure(
                                    OnPool(w.st, RemovePeer(w.st.pool, p, c.key, c.addr)))
                    /\ o \in IF v.err = "ok" THEN rebuildLAN(commitClient(v.st, c, d)) ELSE {v}
      BY <2>2, <2>5 DEF Then, Catch
    <3>3. PICK v, w : /\ w \in Save(u.st, d)
                      /\ v \in IF w.err = "ok" THEN {w}
                               ELSE persistenceFailure(
                                      OnPool(w.st, RemovePeer(w.st.pool, p, c.key, c.addr)))
                      /\ o \in IF v.err = "ok" THEN rebuildLAN(commitClient(v.st, c, d)) ELSE {v}
      BY <3>2
    <3>4. CASE w.err # "ok"
      <4> DEFINE removed == RemovePeer(w.st.pool, p, c.key, c.addr)
      <4>1. w.err = "save" /\ Idle(u.st, w.st)
        BY <1>2, <3>1, <3>3, <3>4, Saved
      <4>2. /\ Frame(s, w.st) /\ w.st.lan = {} /\ Touches(s.pool, w.st.pool, p)
            /\ w.st.pool.ifaces[p].peers = P \cup {c.key} /\ Sound(w.st.pool)
        <5>1. SameBooks(u.st.pool, w.st.pool) /\ Sound(u.st.pool)
          BY <3>1, <4>1 DEF Idle, Touches
        <5> QED BY <3>1, <4>1, <5>1, SameTouches, TouchesTrans DEF Idle, Frame, SameBooks, Touches
      <4>3. ASSUME NEW x \in removed
            PROVE  /\ x.st \in States /\ Touches(s.pool, x.st, p)
                   /\ (x.err = "ok" /\ Matches(s.pool, s.clients)) => SamePeers(s.pool, x.st)
        <5>1. /\ Touches(w.st.pool, x.st, p)
              /\ x.err = "ok" => x.st.ifaces[p].peers = (P \cup {c.key}) \ {c.key}
          BY <1>3, <1>4, <4>2, RemovePeerEffect
        <5>2. Touches(s.pool, x.st, p) /\ x.st \in States
          BY <4>2, <5>1, TouchesTrans DEF Touches, Sound
        <5>3. (x.err = "ok" /\ Matches(s.pool, s.clients)) => x.st.ifaces[p].peers = P
          BY <1>5, <5>1
        <5> QED BY <1>3, <5>2, <5>3 DEF SamePeers, Touches
      <4>4. v \in persistenceFailure(OnPool(w.st, removed))
        BY <3>3, <3>4
      <4> HIDE DEF removed
      <4>5. Aborted(s, v)
        BY <4>2, <4>3, <4>4, AbortedBySave DEF Touches
      <4> QED BY <3>3, <4>5 DEF Aborted
    <3>5. CASE w.err = "ok"
      <4> DEFINE t == commitClient(v.st, c, d)
      <4>1. /\ v.err = "ok" /\ v.st \in MStates
            /\ v.st.disk = d /\ v.st.pool = u.st.pool /\ v.st.lan = {}
            /\ v.st.phase = s.phase /\ v.st.probes = s.probes /\ v.st.todo = s.todo
            /\ v.st.clients = s.clients /\ v.st.usedIPs = s.usedIPs
        <5>1. v = w
          BY <3>3, <3>5
        <5> QED BY <1>2, <3>1, <3>3, <3>5, <5>1, Saved DEF Frame
      <4>2. /\ t \in MStates /\ t.data = d /\ t.disk = d /\ t.pool = u.st.pool /\ t.lan = {}
            /\ t.clients = {x \in s.clients : x.id # c.id} \cup {c}
            /\ t.usedIPs = s.usedIPs \cup {c.addr}
            /\ t.phase = s.phase /\ t.probes = s.probes /\ t.todo = s.todo
        BY <1>2, <4>1, CommitFields
      <4> HIDE DEF t
      <4>3. t.clients = s.clients \cup {c} /\ t.usedIPs = {x.addr : x \in t.clients}
        BY <1>1, <4>2
      <4>4. Matches(s.pool, s.clients) => Matches(t.pool, t.clients)
        BY <1>3, <3>1, <4>2, <4>3, MatchesAdded DEF p, P
      <4>5. Committed(s, t, d)
        BY <1>2, <3>1, <4>2, <4>3, <4>4 DEF Committed, Touches
      <4>6. o \in rebuildLAN(t)
        BY <3>3, <4>1 DEF t
      <4> QED BY <1>2, <4>2, <4>5, <4>6, Rebuilt
    <3> QED BY <3>4, <3>5
  <2> QED BY <2>4, <2>5
<1> QED BY <1>7, <1>8

\* What a caller may ask a new client to be.
CreateRequests == [id: IDs, ver: Versions, var: Overrides, port: Requests, group: Groups,
                   extra: Extras]

\* CreateClient refuses at once, or stages one good record with an ID, a key and an
\* address of its own.
LEMMA CreateStages ==
  ASSUME NEW s, NEW dirt, Inv(s, dirt), s.phase = "up",
         NEW r \in CreateRequests, NEW key \in Keys, \A x \in s.clients : x.key # key,
         NEW o \in CreateClient(s, r, key)
  PROVE  \/ \E err : err \notin {"ok", "rebuildLAN"} /\ o = Outcome(s, err)
         \/ \E c \in Clients : /\ GoodClient(s.data, c) /\ o \in stageCreate(s, c)
                             /\ \A x \in s.clients : x.id # c.id /\ x.key # c.key /\ x.addr # c.addr
<1>1. s.usedIPs = {x.addr : x \in s.clients}
  BY UpFacts
<1>3. CASE r.id \in ClientIDs(s)
  BY <1>3 DEF CreateClient
<1>4. CASE r.id \notin ClientIDs(s) /\ ~compatible(r.ver, r.var)
  BY <1>4 DEF CreateClient
<1>5. CASE /\ r.id \notin ClientIDs(s) /\ compatible(r.ver, r.var)
           /\ r.ver = "3.1" /\ DefaultKey \notin s.data.keys
  BY <1>5 DEF CreateClient
<1>6. CASE /\ r.id \notin ClientIDs(s) /\ compatible(r.ver, r.var)
           /\ ~(r.ver = "3.1" /\ DefaultKey \notin s.data.keys) /\ allocateIP(s) = {}
  BY <1>6 DEF CreateClient
<1>7. CASE /\ r.id \notin ClientIDs(s) /\ compatible(r.ver, r.var)
           /\ ~(r.ver = "3.1" /\ DefaultKey \notin s.data.keys) /\ allocateIP(s) # {}
  <2> DEFINE group == IF r.group = "" THEN r.id ELSE r.group
             hk == IF r.ver = "3.1" THEN DefaultKey ELSE NoKey
  <2>1. PICK a \in allocateIP(s) :
          o \in stageCreate(s, [id |-> r.id, ver |-> r.ver, key |-> key, addr |-> a,
                                group |-> group, var |-> r.var, port |-> r.port,
                                extra |-> r.extra, hk |-> hk])
    BY <1>7 DEF CreateClient
  <2> DEFINE c == [id |-> r.id, ver |-> r.ver, key |-> key, addr |-> a, group |-> group,
                   var |-> r.var, port |-> r.port, extra |-> r.extra, hk |-> hk]
  <2>2. a \in Addrs /\ a \notin s.usedIPs
    BY AddressAssumption DEF allocateIP
  <2>3. /\ r.id \in IDs /\ r.ver \in Versions /\ r.var \in Variants \cup {Inherit}
        /\ r.port \in Nat /\ r.group \in Groups /\ r.extra \in Extras
    BY InputAssumption DEF CreateRequests
  <2>4. /\ group \in IDs \cup Groups \cup {""} /\ (group = "" => r.id = "")
        /\ hk \in HeaderKeys \cup {NoKey}
    BY <2>3, KeyAssumption
  <2>5. r.ver = "3.1" => hk = DefaultKey /\ DefaultKey \in s.data.keys
    BY <1>7
  <2> HIDE DEF group, hk
  <2>6. /\ c \in Clients /\ c.id = r.id /\ c.key = key /\ c.addr = a /\ c.ver = r.ver
        /\ c.group = group /\ c.hk = hk
    BY <2>2, <2>3, <2>4 DEF Clients
  <2>7. o \in stageCreate(s, c)
    BY <2>1
  <2> HIDE DEF c
  <2>8. normalizeClient(c) = c
    <3>1. c.ver # "" /\ (c.group = "" => c.id = "")
      BY <2>3, <2>4, <2>6 DEF Versions
    <3> QED BY <2>6, <3>1 DEF normalizeClient, Clients
  <2>9. GoodClient(s.data, c)
    BY <2>3, <2>5, <2>6, <2>8 DEF GoodClient, hasHeaderKey
  <2>10. \A x \in s.clients : x.id # c.id /\ x.key # c.key /\ x.addr # c.addr
    BY <1>1, <1>7, <2>2, <2>6 DEF ClientIDs
  <2> QED BY <2>6, <2>7, <2>9, <2>10
<1> QED BY <1>3, <1>4, <1>5, <1>6, <1>7

\* CreateClient appends one record with an ID, a key and an address of its own.
LEMMA CreateEffect ==
  ASSUME NEW s, NEW dirt, Inv(s, dirt), s.phase = "up",
         NEW r \in CreateRequests, NEW key \in Keys, \A x \in s.clients : x.key # key,
         NEW o \in CreateClient(s, r, key)
  PROVE  \/ Aborted(s, o)
         \/ \E c, d : /\ Committed(s, o.st, d) /\ Isolated(o)
                      /\ \A x \in s.clients : x.id # c.id /\ x.key # c.key /\ x.addr # c.addr
                      /\ ClientsOf(d) = s.clients \cup {c}
<1>1. s \in MStates /\ Sound(s.pool)
  BY UpFacts
<1>2. CASE \E err : err \notin {"ok", "rebuildLAN"} /\ o = Outcome(s, err)
  <2>1. o.st = s /\ o.err \notin {"ok", "rebuildLAN"}
    BY <1>2 DEF Outcome
  <2> QED BY <1>1, <2>1, IdleRefl, AbortedAtOnce
<1>3. ASSUME NEW c \in Clients, GoodClient(s.data, c), o \in stageCreate(s, c),
             \A x \in s.clients : x.id # c.id /\ x.key # c.key /\ x.addr # c.addr
      PROVE  \/ Aborted(s, o)
             \/ \E d : /\ Committed(s, o.st, d) /\ Isolated(o)
                       /\ ClientsOf(d) = s.clients \cup {c}
  BY <1>3, StageCreateEffect
<1> QED BY <1>2, <1>3, CreateStages

\* A key that went from p to q and back is where it was.
LEMMA MovedBack ==
  ASSUME NEW a, NEW b, NEW e, NEW p, NEW q, NEW k, Moved(a, b, p, q, k), Moved(b, e, q, p, k),
         k \in a.ifaces[p].peers, p # q => k \notin a.ifaces[q].peers
  PROVE  e.ifaces[p].peers = a.ifaces[p].peers /\ e.ifaces[q].peers = a.ifaces[q].peers
<1> DEFINE ap == a.ifaces[p].peers
           aq == a.ifaces[q].peers
           bp == b.ifaces[p].peers
           bq == b.ifaces[q].peers
           ep == e.ifaces[p].peers
           eq == e.ifaces[q].peers
<1>1. CASE p = q
  BY <1>1 DEF Moved
<1>2. CASE p # q
  <2>1. bp = ap \ {k} /\ bq = aq \cup {k} /\ eq = bq \ {k} /\ ep = bp \cup {k}
    BY <1>2 DEF Moved
  <2>2. k \in ap /\ k \notin aq
    BY <1>2
  <2> HIDE DEF ap, aq, bp, bq, ep, eq
  <2>3. ep = ap /\ eq = aq
    BY <2>1, <2>2
  <2> QED BY <2>3 DEF ap, aq, ep, eq
<1> QED BY <1>1, <1>2

\* MigratePeer for a client moves its key, or says it did not.
LEMMA ClientMoved ==
  ASSUME NEW pool, Sound(pool), NEW p \in Profiles, NEW oldReq, NEW q \in Profiles,
         NEW req \in Nat, NEW c \in Clients,
         NEW x \in MigratePeer(pool, p, oldReq, q, req, c.key, c.addr)
  PROVE  /\ x.err \in Errors /\ x.st \in States /\ Touches2(pool, x.st, p, q)
         /\ x.err = "ok" => Moved(pool, x.st, p, q, c.key)
         /\ (Plain(x.err) /\ (p # q => c.key \notin pool.ifaces[q].peers)) => SamePeers(pool, x.st)
<1> DEFINE k == c.key
           a == c.addr
<1>1. k \in Keys /\ a \in Addrs
  BY DEF Clients
<1>2. x \in MigratePeer(pool, p, oldReq, q, req, k, a)
  OBVIOUS
<1> HIDE DEF k, a
<1>3. /\ x.err \in Errors /\ Touches2(pool, x.st, p, q)
      /\ x.err = "ok" => Moved(pool, x.st, p, q, k)
      /\ (Plain(x.err) /\ (p # q => k \notin pool.ifaces[q].peers)) => Kept(pool, x.st)
  BY <1>1, <1>2, MigrateEffect
<1>4. /\ x.st \in States
      /\ (Plain(x.err) /\ (p # q => k \notin pool.ifaces[q].peers)) => SamePeers(pool, x.st)
  BY <1>3, KeptPeers DEF Touches2, Sound
<1> QED BY <1>3, <1>4 DEF k

\* A client that is put in the place of another by an update: same ID, key,
\* address and group.
Replaces(next, c) ==
  <<next.id, next.key, next.addr, next.group>> = <<c.id, c.key, c.addr, c.group>>

\* The call replaced c by next, and nobody's reachability.
Updated(s, o, c, next) ==
  /\ o.err = "ok" /\ o.st.lan = s.lan
  /\ \E d : Committed(s, o.st, d) /\ ClientsOf(d) = (s.clients \ {c}) \cup {next}

\* A record in the place of another of the same addresses is committed.
LEMMA CommittedUpdate ==
  ASSUME NEW s, NEW dirt, Inv(s, dirt), s.phase = "up", NEW c \in s.clients,
         NEW next \in Clients, Replaces(next, c),
         NEW d, GoodFile(d), ClientsOf(d) = (s.clients \ {c}) \cup {next},
         NEW v \in MStates, v.disk = d, v.lan = s.lan,
         v.phase = s.phase, v.probes = s.probes, v.todo = s.todo,
         v.clients = s.clients, v.usedIPs = s.usedIPs,
         Sound(v.pool), Unruled(v.pool) = Unruled(s.pool),
         Matches(s.pool, s.clients) => Matches(v.pool, ClientsOf(d)),
         NEW o, o = Done(commitClient(v, next, d))
  PROVE  Updated(s, o, c, next)
<1> DEFINE t == commitClient(v, next, d)
<1>1. /\ s.usedIPs = {x.addr : x \in s.clients}
      /\ \A x, e \in s.clients : x # e => x.id # e.id
  BY UpFacts
<1>2. o.st = t /\ o.err = "ok"
  BY DEF Done, Outcome
<1>3. d \in Files
  BY DEF GoodFile
<1>4. /\ t \in MStates /\ t.data = d /\ t.disk = d /\ t.pool = v.pool /\ t.lan = s.lan
      /\ t.clients = {x \in s.clients : x.id # next.id} \cup {next}
      /\ t.usedIPs = s.usedIPs \cup {next.addr}
      /\ t.phase = s.phase /\ t.probes = s.probes /\ t.todo = s.todo
  BY <1>3, CommitFields
<1> HIDE DEF t
<1>5. next.id = c.id /\ next.addr = c.addr
  BY DEF Replaces
<1>6. t.clients = (s.clients \ {c}) \cup {next}
  BY <1>1, <1>4, <1>5
<1>7. t.usedIPs = {x.addr : x \in t.clients}
  BY <1>1, <1>4, <1>5, <1>6
<1>8. Committed(s, t, d)
  BY <1>4, <1>6, <1>7 DEF Committed
<1> QED BY <1>2, <1>4, <1>8 DEF Updated

\* migrateClient moves the peer and replaces the record, or neither.
LEMMA MigrateClientEffect ==
  ASSUME NEW s, NEW dirt, Inv(s, dirt), s.phase = "up", NEW c \in s.clients,
         NEW next \in Clients, Replaces(next, c),
         NEW d, GoodFile(d), ClientsOf(d) = (s.clients \ {c}) \cup {next},
         NEW o \in migrateClient(s, c, next, d)
  PROVE  Aborted(s, o) \/ Updated(s, o, c, next)
<1> DEFINE p == effectiveProfile(c)
           q == effectiveProfile(next)
           oldPort == s.pool.ifaces[p].port
           moved == MigratePeer(s.pool, p, c.port, q, next.port, c.key, c.addr)
<1>1. /\ s \in MStates /\ Sound(s.pool) /\ s.pool \in States /\ s.clients \subseteq Clients
      /\ \A x, e \in s.clients : x # e => x.key # e.key
      /\ p \in Profiles
  BY UpFacts
<1>2. q \in Profiles /\ d \in Files
  BY GoodClients
<1>3. c \in Clients /\ c.port \in Nat /\ next.port \in Nat /\ next.key = c.key
  BY <1>1 DEF Clients, Replaces
<1>4. oldPort \in Nat
  BY <1>1 DEF States, Iface
<1>5. Matches(s.pool, s.clients) =>
        /\ c.key \in s.pool.ifaces[p].peers
        /\ p # q => c.key \notin s.pool.ifaces[q].peers
  BY <1>1, <1>2 DEF Matches, KeysOn
<1>6. CASE p \notin Tracked(s.pool)
  <2>1. o = Outcome(s, "refused")
    BY <1>6 DEF migrateClient
  <2>2. o.st = s /\ o.err = "refused"
    BY <2>1 DEF Outcome
  <2> QED BY <1>1, <2>2, IdleRefl, AbortedAtOnce
<1>7. CASE p \in Tracked(s.pool)
  <2>1. PICK u \in OnPool(s, moved) :
          o \in IF u.err = "ok"
                  THEN Then(Catch(Save(u.st, d),
                                  LAMBDA x : persistenceFailure(
                                    OnPool(x.st, MigratePeer(x.st.pool, q, next.port, p, oldPort,
                                                             c.key, c.addr)))),
                            LAMBDA v : {Done(commitClient(v, next, d))})
                  ELSE {u}
    BY <1>7 DEF migrateClient, Then
  <2>2. ASSUME NEW x \in moved
        PROVE  /\ x.err \in Errors /\ x.st \in States /\ Touches2(s.pool, x.st, p, q)
               /\ x.err = "ok" => Moved(s.pool, x.st, p, q, c.key)
               /\ (Plain(x.err) /\ Matches(s.pool, s.clients)) => SamePeers(s.pool, x.st)
    <3>1. x \in MigratePeer(s.pool, p, c.port, q, next.port, c.key, c.addr)
      OBVIOUS
    <3> HIDE DEF p, q, moved
    <3>2. /\ x.err \in Errors /\ x.st \in States /\ Touches2(s.pool, x.st, p, q)
          /\ x.err = "ok" => Moved(s.pool, x.st, p, q, c.key)
          /\ (Plain(x.err) /\ (p # q => c.key \notin s.pool.ifaces[q].peers))
               => SamePeers(s.pool, x.st)
      BY <1>1, <1>2, <1>3, <3>1, ClientMoved
    <3> QED BY <1>5, <3>2
  <2> HIDE DEF p, q, moved, oldPort
  <2>3. Frame(s, s)
    BY <1>1 DEF Frame
  <2>4. CASE u.err # "ok"
    <3>1. Aborted(s, u)
      BY <2>2, <2>3, <2>4, AbortedByPool DEF Touches2
    <3> QED BY <2>1, <2>4, <3>1
  <2>5. CASE u.err = "ok"
    <3>1. /\ Frame(s, u.st) /\ u.st.lan = s.lan /\ u.st \in MStates
          /\ Touches2(s.pool, u.st.pool, p, q) /\ Moved(s.pool, u.st.pool, p, q, c.key)
      <4>1. PICK x \in moved : /\ u.err = x.err /\ u.st.pool = x.st
                               /\ Frame(s, u.st) /\ u.st.lan = s.lan
        BY <1>1, <2>2, PoolCall
      <4> QED BY <2>2, <2>5, <4>1 DEF Frame
    <3>2. \E v, w : /\ w \in Save(u.st, d)
                    /\ v \in IF w.err = "ok" THEN {w}
                             ELSE persistenceFailure(
                                    OnPool(w.st, MigratePeer(w.st.pool, q, next.port, p, oldPort,
                                                             c.key, c.addr)))
                    /\ o \in IF v.err = "ok" THEN {Done(commitClient(v.st, next, d))} ELSE {v}
      BY <2>1, <2>5 DEF Then, Catch
    <3>3. PICK v, w : /\ w \in Save(u.st, d)
                      /\ v \in IF w.err = "ok" THEN {w}
                               ELSE persistenceFailure(
                                      OnPool(w.st, MigratePeer(w.st.pool, q, next.port, p, oldPort,
                                                               c.key, c.addr)))
                      /\ o \in IF v.err = "ok" THEN {Done(commitClient(v.st, next, d))} ELSE {v}
      BY <3>2
    <3>4. CASE w.err # "ok"
      <4> DEFINE back == MigratePeer(w.st.pool, q, next.port, p, oldPort, c.key, c.addr)
      <4>1. w.err = "save" /\ Idle(u.st, w.st)
        BY <1>2, <3>1, <3>3, <3>4, Saved
      <4>2. /\ Frame(s, w.st) /\ w.st.lan = s.lan /\ Sound(w.st.pool)
            /\ Touches2(s.pool, w.st.pool, p, q) /\ Moved(s.pool, w.st.pool, p, q, c.key)
        <5>1. SameBooks(u.st.pool, w.st.pool) /\ Sound(u.st.pool)
          BY <3>1, <4>1 DEF Idle, Touches2
        <5>2. Sound(w.st.pool)
          BY <5>1, SameSound
        <5> QED BY <3>1, <4>1, <5>1, <5>2 DEF Idle, Frame, SameBooks, Touches2, Moved
      <4>3. ASSUME NEW x \in back
            PROVE  /\ x.st \in States /\ Touches2(s.pool, x.st, p, q)
                   /\ (x.err = "ok" /\ Matches(s.pool, s.clients)) => SamePeers(s.pool, x.st)
        <5>1. x \in MigratePeer(w.st.pool, q, next.port, p, oldPort, c.key, c.addr)
          OBVIOUS
        <5> HIDE DEF back
        <5>2. /\ x.st \in States /\ Touches2(w.st.pool, x.st, q, p)
              /\ x.err = "ok" => Moved(w.st.pool, x.st, q, p, c.key)
          BY <1>1, <1>2, <1>3, <1>4, <4>2, <5>1, ClientMoved
        <5>3. Touches2(s.pool, x.st, p, q)
          BY <4>2, <5>2 DEF Touches2
        <5>4. ASSUME x.err = "ok", Matches(s.pool, s.clients), NEW y \in Profiles
              PROVE  x.st.ifaces[y].peers = s.pool.ifaces[y].peers
          <6>1. CASE y # p /\ y # q
            BY <5>3, <6>1 DEF Touches2
          <6>2. CASE y = p \/ y = q
            <7> DEFINE a == s.pool
                       b == w.st.pool
                       e == x.st
                       k == c.key
            <7>1. /\ Moved(a, b, p, q, k) /\ Moved(b, e, q, p, k)
                  /\ k \in a.ifaces[p].peers /\ (p # q => k \notin a.ifaces[q].peers)
              BY <1>5, <4>2, <5>2, <5>4
            <7> HIDE DEF a, b, e, k, p, q
            <7>2. e.ifaces[p].peers = a.ifaces[p].peers /\ e.ifaces[q].peers = a.ifaces[q].peers
              BY <7>1, MovedBack
            <7> QED BY <6>2, <7>2 DEF a, e
          <6> QED BY <6>1, <6>2
        <5> QED BY <5>2, <5>3, <5>4 DEF SamePeers
      <4>4. v \in persistenceFailure(OnPool(w.st, back))
        BY <3>3, <3>4
      <4> HIDE DEF back
      <4>5. Aborted(s, v)
        BY <4>2, <4>3, <4>4, AbortedBySave DEF Touches2
      <4> QED BY <3>3, <4>5 DEF Aborted
    <3>5. CASE w.err = "ok"
      <4>1. /\ v.err = "ok" /\ v.st \in MStates
            /\ v.st.disk = d /\ v.st.pool = u.st.pool /\ v.st.lan = s.lan
            /\ v.st.phase = s.phase /\ v.st.probes = s.probes /\ v.st.todo = s.todo
            /\ v.st.clients = s.clients /\ v.st.usedIPs = s.usedIPs
        <5>1. v = w
          BY <3>3, <3>5
        <5> QED BY <1>2, <3>1, <3>3, <3>5, <5>1, Saved DEF Frame
      <4>2. Matches(s.pool, s.clients) => Matches(v.st.pool, (s.clients \ {c}) \cup {next})
        <5>1. Touches2(s.pool, v.st.pool, p, q) /\ Moved(s.pool, v.st.pool, p, q, c.key)
          BY <3>1, <4>1
        <5>2. \A x \in s.clients : x # c => x.key # c.key
          BY <1>1
        <5>3. p = effectiveProfile(c) /\ q = effectiveProfile(next)
          BY DEF p, q
        <5> QED BY <1>1, <1>2, <1>3, <5>1, <5>2, <5>3, MatchesMoved
      <4>3. Sound(v.st.pool) /\ Unruled(v.st.pool) = Unruled(s.pool)
        BY <3>1, <4>1 DEF Touches2
      <4>4. o \in {Done(commitClient(v.st, next, d))}
        BY <3>3, <4>1
      <4> DEFINE z == v.st
      <4>5. /\ z \in MStates /\ z.disk = d /\ z.lan = s.lan
            /\ z.phase = s.phase /\ z.probes = s.probes /\ z.todo = s.todo
            /\ z.clients = s.clients /\ z.usedIPs = s.usedIPs
            /\ Sound(z.pool) /\ Unruled(z.pool) = Unruled(s.pool)
            /\ Matches(s.pool, s.clients) => Matches(z.pool, ClientsOf(d))
            /\ o = Done(commitClient(z, next, d))
        BY <4>1, <4>2, <4>3, <4>4
      <4> HIDE DEF z
      <4>6. Updated(s, o, c, next)
        BY <4>5, CommittedUpdate
      <4> QED BY <4>6
    <3> QED BY <3>4, <3>5
  <2> QED BY <2>4, <2>5
<1> QED BY <1>6, <1>7

\* A good file with next in the place of c.
GoodUpdate(s, c, next, d) == GoodFile(d) /\ ClientsOf(d) = (s.clients \ {c}) \cup {next}

\* The file that an update would save.
LEMMA UpdatedGood ==
  ASSUME NEW s, NEW dirt, Inv(s, dirt), s.phase = "up", NEW c \in s.clients,
         NEW next \in Clients, Replaces(next, c), next.ver \in Versions,
         NEW new \in SUBSET HeaderKeys, hasHeaderKey(UpdatedData(s.data, new, next), next)
  PROVE  GoodUpdate(s, c, next, UpdatedData(s.data, new, next))
<1> DEFINE f == s.data
           d == UpdatedData(f, new, next)
<1>1. GoodFile(f) /\ c \in ClientsOf(f) /\ s.clients = ClientsOf(f)
  BY UpFacts
<1>2. <<next.id, next.key, next.addr, next.group>> = <<c.id, c.key, c.addr, c.group>>
  BY DEF Replaces
<1>3. d = UpdatedData(f, new, next) /\ hasHeaderKey(d, next)
  OBVIOUS
<1> HIDE DEF f, d
<1>4. GoodFile(d) /\ ClientsOf(d) = (ClientsOf(f) \ {c}) \cup {next}
  BY <1>1, <1>2, <1>3, UpdatedFile
<1> QED BY <1>1, <1>4 DEF f, d, GoodUpdate

\* applyClientUpdate replaces the record of a client, or does nothing.
LEMMA ApplyUpdateEffect ==
  ASSUME NEW s, NEW dirt, Inv(s, dirt), s.phase = "up", NEW c \in s.clients,
         NEW next \in Clients, Replaces(next, c), next.ver \in Versions,
         NEW new \in SUBSET HeaderKeys, NEW o \in applyClientUpdate(s, c, next, new)
  PROVE  Aborted(s, o) \/ Updated(s, o, c, next)
<1> DEFINE d == markAndSweepHeaderKeys(withUpdated([s.data EXCEPT !.keys = @ \cup new], next))
<1>1. /\ s \in MStates /\ Sound(s.pool) /\ GoodFile(s.data) /\ s.clients = ClientsOf(s.data)
      /\ s.clients \subseteq Clients /\ effectiveProfile(c) \in Profiles
      /\ \A x, e \in s.clients : x # e => x.key # e.key
  BY UpFacts
<1>2. CASE ~hasHeaderKey(s.data, c) \/ ~hasHeaderKey(d, next)
  <2>1. o = Outcome(s, "headerKey")
    BY <1>2 DEF applyClientUpdate
  <2>2. o.st = s /\ o.err = "headerKey"
    BY <2>1 DEF Outcome
  <2> QED BY <1>1, <2>2, IdleRefl, AbortedAtOnce
<1>3. CASE hasHeaderKey(s.data, c) /\ hasHeaderKey(d, next)
  <2>1. GoodFile(d) /\ ClientsOf(d) = (s.clients \ {c}) \cup {next}
    <3>1. d = UpdatedData(s.data, new, next)
      BY DEF UpdatedData
    <3> HIDE DEF d
    <3>2. GoodUpdate(s, c, next, UpdatedData(s.data, new, next))
      BY <1>3, <3>1, UpdatedGood
    <3> QED BY <3>1, <3>2 DEF GoodUpdate
  <2>2. \/ /\ effectiveProfile(c) = effectiveProfile(next) /\ c.port = next.port
           /\ o \in Then(Save(s, d), LAMBDA t : {Done(commitClient(t, next, d))})
        \/ o \in Then(Attempt(s, s, "snapshot"), LAMBDA t : migrateClient(t, c, next, d))
    BY <1>3, Zenon DEF applyClientUpdate
  <2> HIDE DEF d
  <2>3. d \in Files
    BY <2>1 DEF GoodFile
  <2>4. CASE /\ effectiveProfile(c) = effectiveProfile(next)
             /\ o \in Then(Save(s, d), LAMBDA t : {Done(commitClient(t, next, d))})
    <3>1. PICK w \in Save(s, d) :
            o \in IF w.err = "ok" THEN {Done(commitClient(w.st, next, d))} ELSE {w}
      BY <2>4 DEF Then
    <3>2. CASE w.err # "ok"
      <4>1. o = w /\ o.err = "save" /\ Idle(s, o.st)
        BY <1>1, <2>3, <3>1, <3>2, Saved
      <4> QED BY <1>1, <4>1, AbortedAtOnce
    <3>3. CASE w.err = "ok"
      <4> DEFINE z == w.st
                 p == effectiveProfile(c)
      <4>1. /\ z \in MStates /\ z.disk = d /\ z.lan = s.lan /\ z.pool = s.pool
            /\ z.phase = s.phase /\ z.probes = s.probes /\ z.todo = s.todo
            /\ z.clients = s.clients /\ z.usedIPs = s.usedIPs
        BY <1>1, <2>3, <3>1, <3>3, Saved
      <4>2. o = Done(commitClient(z, next, d))
        BY <3>1, <3>3
      <4>3. p = effectiveProfile(next) /\ p \in Profiles /\ p = effectiveProfile(c)
        BY <1>1, <2>4
      <4> HIDE DEF z, p
      <4>4. Touches2(s.pool, z.pool, p, p) /\ Moved(s.pool, z.pool, p, p, c.key)
        BY <1>1, <4>1 DEF Touches2, Moved
      <4>5. next.key = c.key /\ \A x \in s.clients : x # c => x.key # c.key
        BY <1>1 DEF Replaces
      <4>6. Matches(s.pool, s.clients) => Matches(z.pool, ClientsOf(d))
        <5>1. Matches(s.pool, s.clients) => Matches(z.pool, (s.clients \ {c}) \cup {next})
          BY <4>3, <4>4, <4>5, MatchesMoved
        <5> QED BY <2>1, <5>1
      <4>7. Sound(z.pool) /\ Unruled(z.pool) = Unruled(s.pool)
        BY <1>1, <4>1
      <4>8. Updated(s, o, c, next)
        BY <2>1, <4>1, <4>2, <4>6, <4>7, CommittedUpdate
      <4> QED BY <4>8
    <3> QED BY <3>2, <3>3
  <2>5. CASE o \in Then(Attempt(s, s, "snapshot"), LAMBDA t : migrateClient(t, c, next, d))
    <3>1. PICK w \in Attempt(s, s, "snapshot") :
            o \in IF w.err = "ok" THEN migrateClient(w.st, c, next, d) ELSE {w}
      BY <2>5 DEF Then
    <3>2. \/ w.st = s /\ w.err = "ok"
          \/ Idle(s, w.st) /\ w.err = "snapshot"
      BY <1>1, AttemptEffect
    <3>3. CASE w.err # "ok"
      <4>1. o = w /\ o.err = "snapshot" /\ Idle(s, o.st)
        BY <3>1, <3>2, <3>3
      <4> QED BY <1>1, <4>1, AbortedAtOnce
    <3>4. CASE w.err = "ok"
      <4>1. o \in migrateClient(s, c, next, d)
        BY <3>1, <3>2, <3>4
      <4> QED BY <2>1, <4>1, MigrateClientEffect
    <3> QED BY <3>3, <3>4
  <2> QED BY <2>2, <2>4, <2>5
<1> QED BY <1>2, <1>3

\* A client that is there is found by its ID.
LEMMA FoundClient ==
  ASSUME NEW s, NEW id \in ClientIDs(s)
  PROVE  ClientOf(s, id) \in s.clients /\ ClientOf(s, id).id = id
<1>1. \E c \in s.clients : c.id = id
  BY DEF ClientIDs
<1> QED BY <1>1, Zenon DEF ClientOf

UpdateRequests == [id: IDs, ver: Versions, extra: Extras, params: Replacements]

\* A call that refuses at once, or replaces the record of one client.
Applies(s, o) ==
  \/ \E err : err \notin {"ok", "rebuildLAN"} /\ o = Outcome(s, err)
  \/ \E c \in s.clients, next \in Clients, new \in SUBSET HeaderKeys :
       Replaces(next, c) /\ next.ver \in Versions /\ o \in applyClientUpdate(s, c, next, new)

\* UpdateClient refuses at once, or replaces one client's record.
LEMMA UpdateApplies ==
  ASSUME NEW s, NEW dirt, Inv(s, dirt), s.phase = "up",
         NEW r \in UpdateRequests, NEW o \in UpdateClient(s, r)
  PROVE  Applies(s, o)
<1> DEFINE c == ClientOf(s, r.id)
           reset == r.params.kind = "reset"
           var == IF reset THEN Inherit ELSE IF r.params.kind = "keep" THEN c.var ELSE r.params.var
           port == IF reset THEN 0 ELSE IF r.params.kind = "keep" THEN c.port ELSE r.params.port
           hk == headerKeyID(c, r.ver, reset)
           next == [c EXCEPT !.ver = r.ver, !.var = var, !.port = port,
                             !.extra = r.extra, !.hk = hk]
<1>1. s \in MStates /\ Sound(s.pool) /\ s.clients \subseteq Clients
  BY UpFacts
<1>3. CASE r.id \notin ClientIDs(s)
  BY <1>3 DEF Applies, UpdateClient
<1>4. CASE r.id \in ClientIDs(s) /\ ~compatible(r.ver, var)
  BY <1>4 DEF Applies, UpdateClient
<1>5. CASE r.id \in ClientIDs(s) /\ compatible(r.ver, var)
  <2>1. o \in applyClientUpdate(s, c, next, {})
    BY <1>5 DEF UpdateClient
  <2>2. c \in s.clients /\ c \in Clients
    BY <1>1, <1>5, FoundClient
  <2> HIDE DEF c
  <2>3. r.ver \in Versions /\ r.extra \in Extras /\ r.params \in Replacements
    BY DEF UpdateRequests
  <2>4. r.params.kind \notin {"reset", "keep"} => r.params.var \in Overrides /\ r.params.port \in Requests
    BY <2>3 DEF Replacements
  <2>5. var \in Variants \cup {Inherit} /\ port \in Nat
    <3>1. c.var \in Variants \cup {Inherit} /\ c.port \in Nat
      BY <2>2 DEF Clients
    <3> QED BY <2>4, <3>1, InputAssumption
  <2>6. hk \in HeaderKeys \cup {NoKey}
    BY <2>2, KeyAssumption DEF headerKeyID, Clients
  <2> HIDE DEF var, port, hk
  <2>7. /\ next \in Clients /\ next.id = c.id /\ next.key = c.key /\ next.addr = c.addr
        /\ next.group = c.group /\ next.ver = r.ver
    BY <2>2, <2>3, <2>5, <2>6 DEF Clients
  <2> HIDE DEF next
  <2>8. Replaces(next, c)
    BY <2>7 DEF Replaces
  <2> QED BY <2>1, <2>2, <2>3, <2>7, <2>8 DEF Applies
<1> QED BY <1>3, <1>4, <1>5

\* RegenerateAWGParams refuses at once, or replaces one client's record.
LEMMA RegenerateApplies ==
  ASSUME NEW s, NEW dirt, Inv(s, dirt), s.phase = "up",
         NEW id \in IDs, NEW var \in Variants, NEW hk \in HeaderKeys,
         NEW o \in RegenerateAWGParams(s, id, var, hk)
  PROVE  Applies(s, o)
<1> DEFINE c == ClientOf(s, id)
           key == IF c.ver = "3.1" THEN hk ELSE c.hk
           new == IF c.ver = "3.1" THEN {hk} ELSE {}
           next == [c EXCEPT !.var = var, !.hk = IF c.ver = "3.1" THEN hk ELSE @]
<1>1. /\ s \in MStates /\ Sound(s.pool) /\ s.clients \subseteq Clients
      /\ GoodFile(s.data) /\ s.clients = ClientsOf(s.data)
  BY UpFacts
<1>3. CASE id \notin ClientIDs(s)
  BY <1>3 DEF Applies, RegenerateAWGParams
<1>4. CASE id \in ClientIDs(s) /\ c.ver = "2.0" /\ effectiveProfile(next) = effectiveProfile(c)
  BY <1>4 DEF Applies, RegenerateAWGParams
<1>5. CASE id \in ClientIDs(s) /\ ~(c.ver = "2.0" /\ effectiveProfile(next) = effectiveProfile(c))
  <2>1. o \in applyClientUpdate(s, c, next, new)
    BY <1>5 DEF RegenerateAWGParams
  <2>2. c \in s.clients /\ c \in Clients
    BY <1>1, <1>5, FoundClient
  <2> HIDE DEF c
  <2>3. next = [c EXCEPT !.var = var, !.hk = key]
    OBVIOUS
  <2>4. key \in HeaderKeys \cup {NoKey} /\ new \in SUBSET HeaderKeys
    BY <2>2 DEF Clients
  <2> HIDE DEF key, new, next
  <2>5. /\ next \in Clients /\ next.id = c.id /\ next.key = c.key /\ next.addr = c.addr
        /\ next.group = c.group /\ next.ver = c.ver
    BY <2>2, <2>3, <2>4 DEF Clients
  <2>6. Replaces(next, c) /\ next.ver \in Versions
    BY <1>1, <2>2, <2>5 DEF Replaces, GoodFile, GoodClient
  <2> QED BY <2>1, <2>2, <2>4, <2>5, <2>6 DEF Applies
<1> QED BY <1>3, <1>4, <1>5

\* Such a call changes the record of one client, or does nothing.
LEMMA AppliesEffect ==
  ASSUME NEW s, NEW dirt, Inv(s, dirt), s.phase = "up", NEW o, Applies(s, o)
  PROVE  \/ Aborted(s, o)
         \/ \E c \in s.clients, next \in Clients : Replaces(next, c) /\ Updated(s, o, c, next)
<1>1. s \in MStates /\ Sound(s.pool)
  BY UpFacts
<1>2. CASE \E err : err \notin {"ok", "rebuildLAN"} /\ o = Outcome(s, err)
  <2>1. o.st = s /\ o.err \notin {"ok", "rebuildLAN"}
    BY <1>2 DEF Outcome
  <2> QED BY <1>1, <2>1, IdleRefl, AbortedAtOnce
<1>3. ASSUME NEW c \in s.clients, NEW next \in Clients, NEW new \in SUBSET HeaderKeys,
             Replaces(next, c), next.ver \in Versions, o \in applyClientUpdate(s, c, next, new)
      PROVE  Aborted(s, o) \/ Updated(s, o, c, next)
  BY <1>3, ApplyUpdateEffect
<1> QED BY <1>2, <1>3 DEF Applies

\* UpdateClient changes the settings of one client, or does nothing.
LEMMA UpdateEffect ==
  ASSUME NEW s, NEW dirt, Inv(s, dirt), s.phase = "up",
         NEW r \in UpdateRequests, NEW o \in UpdateClient(s, r)
  PROVE  \/ Aborted(s, o)
         \/ \E c \in s.clients, next \in Clients : Replaces(next, c) /\ Updated(s, o, c, next)
BY UpdateApplies, AppliesEffect

\* RegenerateAWGParams changes the parameters of one client, or does nothing.
LEMMA RegenerateEffect ==
  ASSUME NEW s, NEW dirt, Inv(s, dirt), s.phase = "up",
         NEW id \in IDs, NEW var \in Variants, NEW hk \in HeaderKeys,
         NEW o \in RegenerateAWGParams(s, id, var, hk)
  PROVE  \/ Aborted(s, o)
         \/ \E c \in s.clients, next \in Clients : Replaces(next, c) /\ Updated(s, o, c, next)
BY RegenerateApplies, AppliesEffect

\* UpdateLANGroup puts the clients in the group, all or none.
LEMMA GroupEffect ==
  ASSUME NEW s, NEW dirt, Inv(s, dirt), s.phase = "up",
         NEW ids, NEW group, Chosen(group), NEW o \in UpdateLANGroup(s, ids, group)
  PROVE  \/ Aborted(s, o)
         \/ \E d : /\ Committed(s, o.st, d) /\ Isolated(o) /\ ids \subseteq ClientIDs(s)
                   /\ ClientsOf(d) = {inGroup(c, ids, group) : c \in s.clients}
<1> DEFINE d == withGroup(s.data, ids, group)
<1>1. /\ s \in MStates /\ Sound(s.pool) /\ GoodFile(s.data) /\ s.clients = ClientsOf(s.data)
      /\ s.clients \subseteq Clients /\ s.usedIPs = {x.addr : x \in s.clients}
  BY UpFacts
<1>2. CASE ~(ids \subseteq ClientIDs(s))
  <2>1. o = Outcome(s, "notFound")
    BY <1>2 DEF UpdateLANGroup
  <2>2. o.st = s /\ o.err = "notFound"
    BY <2>1 DEF Outcome
  <2> QED BY <1>1, <2>2, IdleRefl, AbortedAtOnce
<1>3. CASE ids \subseteq ClientIDs(s)
  <2>1. GoodFile(d) /\ ClientsOf(d) = {inGroup(c, ids, group) : c \in s.clients}
    BY <1>1, GroupedFile
  <2>2. PICK b \in blockLAN(s) :
          o \in IF b.err = "ok"
                  THEN Then(Save(b.st, d),
                            LAMBDA u : rebuildLAN([u EXCEPT !.data = d,
                                                            !.clients = {c \in @ : c.id \notin ids}
                                                              \cup {c \in ClientsOf(d) : c.id \in ids}]))
                  ELSE {b}
    BY <1>3 DEF UpdateLANGroup, Then
  <2> HIDE DEF d
  <2>4. d \in Files /\ ClientsOf(d) \subseteq Clients
    BY <2>1, GoodClients
  <2>5. CASE b.err # "ok"
    BY <1>1, <2>2, <2>5, Blocked
  <2>6. CASE b.err = "ok"
    <3>1. Frame(s, b.st) /\ b.st.lan = {} /\ b.st.pool = s.pool /\ b.st \in MStates
      BY <1>1, <2>2, <2>6, Blocked DEF Frame
    <3>2. PICK w \in Save(b.st, d) :
            o \in IF w.err = "ok"
                    THEN rebuildLAN([w.st EXCEPT !.data = d,
                                                 !.clients = {c \in @ : c.id \notin ids}
                                                   \cup {c \in ClientsOf(d) : c.id \in ids}])
                    ELSE {w}
      BY <2>2, <2>6 DEF Then
    <3>3. CASE w.err # "ok"
      <4>1. o = w /\ w.err = "save" /\ Idle(b.st, w.st)
        BY <2>4, <3>1, <3>2, <3>3, Saved
      <4>2. Frame(s, w.st) /\ w.st.lan = {} /\ SameBooks(s.pool, w.st.pool)
        BY <3>1, <4>1 DEF Idle, Frame
      <4>3. Sound(w.st.pool) /\ SamePeers(s.pool, w.st.pool)
        BY <1>1, <4>2, SameSound, KeptPeers
      <4> QED BY <4>1, <4>2, <4>3 DEF Aborted, SameBooks
    <3>4. CASE w.err = "ok"
      <4> DEFINE z == w.st
                 cs == {c \in z.clients : c.id \notin ids} \cup {c \in ClientsOf(d) : c.id \in ids}
                 t == [z EXCEPT !.data = d, !.clients = cs]
      <4>1. /\ z \in MStates /\ z.disk = d /\ z.lan = {} /\ z.pool = s.pool
            /\ z.phase = s.phase /\ z.probes = s.probes /\ z.todo = s.todo
            /\ z.clients = s.clients /\ z.usedIPs = s.usedIPs
        BY <2>4, <3>1, <3>2, <3>4, Saved DEF Frame
      <4>2. o \in rebuildLAN(t)
        BY <3>2, <3>4
      <4>3. \A c \in s.clients : /\ c.id \notin ids => inGroup(c, ids, group) = c
                                 /\ inGroup(c, ids, group).id = c.id
                                 /\ inGroup(c, ids, group).addr = c.addr
                                 /\ inGroup(c, ids, group).key = c.key
                                 /\ effectiveProfile(inGroup(c, ids, group)) = effectiveProfile(c)
        <5>1. \A c : c.id \notin ids => inGroup(c, ids, group) = c
          BY DEF inGroup
        <5> QED BY <1>1, <5>1, InGroup
      <4>4. cs = ClientsOf(d)
        BY <2>1, <4>1, <4>3
      <4> HIDE DEF z, cs
      <4>5. /\ t \in MStates /\ t.data = d /\ t.disk = d /\ t.pool = s.pool /\ t.lan = {}
            /\ t.clients = cs /\ t.usedIPs = s.usedIPs
            /\ t.phase = s.phase /\ t.probes = s.probes /\ t.todo = s.todo
        BY <2>4, <4>1, <4>4 DEF MStates
      <4> HIDE DEF t
      <4>6. s.usedIPs = {x.addr : x \in cs}
        BY <1>1, <2>1, <4>3, <4>4
      <4>7. Matches(s.pool, s.clients) => Matches(s.pool, cs)
        <5>1. \A p \in Profiles : KeysOn(cs, p) = KeysOn(s.clients, p)
          BY <2>1, <4>3, <4>4 DEF KeysOn
        <5> QED BY <5>1 DEF Matches
      <4>8. Committed(s, t, d)
        BY <1>1, <2>1, <4>4, <4>5, <4>6, <4>7 DEF Committed
      <4> QED BY <1>3, <2>1, <4>2, <4>5, <4>8, Rebuilt
    <3> QED BY <3>3, <3>4
  <2> QED BY <2>5, <2>6
<1> QED BY <1>2, <1>3

\* DeleteClient removes one client everywhere or nowhere.
LEMMA DeleteEffect ==
  ASSUME NEW s, NEW dirt, Inv(s, dirt), s.phase = "up",
         NEW id, NEW o \in DeleteClient(s, id)
  PROVE  \/ Aborted(s, o)
         \/ \E c \in s.clients : \E d : /\ Committed(s, o.st, d) /\ Isolated(o)
                                        /\ ClientsOf(d) = s.clients \ {c}
<1> DEFINE c == ClientOf(s, id)
           p == effectiveProfile(c)
           currentPort == s.pool.ifaces[p].port
           d == markAndSweepHeaderKeys(withoutClient(s.data, id))
           P == s.pool.ifaces[p].peers
<1>1. /\ s \in MStates /\ Sound(s.pool) /\ s.pool \in States /\ GoodFile(s.data)
      /\ s.clients = ClientsOf(s.data)
      /\ s.clients \subseteq Clients /\ s.usedIPs = {x.addr : x \in s.clients}
      /\ \A x \in s.clients : effectiveProfile(x) \in Profiles
      /\ \A x, e \in s.clients : x # e => x.id # e.id /\ x.key # e.key /\ x.addr # e.addr
  BY UpFacts
<1>2. ASSUME NEW err, err \notin {"ok", "rebuildLAN"}, o = Outcome(s, err)
      PROVE  Aborted(s, o)
  <2>1. o.st = s /\ o.err = err
    BY <1>2 DEF Outcome
  <2> QED BY <1>1, <1>2, <2>1, IdleRefl, AbortedAtOnce
<1>3. CASE id \notin ClientIDs(s)
  BY <1>2, <1>3 DEF DeleteClient
<1>4. CASE id \in ClientIDs(s) /\ ~hasHeaderKey(s.data, c)
  BY <1>2, <1>4 DEF DeleteClient
<1>5. CASE id \in ClientIDs(s) /\ hasHeaderKey(s.data, c) /\ p \notin Tracked(s.pool)
  BY <1>2, <1>5 DEF DeleteClient
<1>6. CASE id \in ClientIDs(s) /\ hasHeaderKey(s.data, c) /\ p \in Tracked(s.pool)
  <2>1. c \in s.clients /\ c.id = id /\ c \in Clients /\ p \in Profiles
    BY <1>1, <1>6, FoundClient
  <2>2. GoodFile(d) /\ ClientsOf(d) = s.clients \ {c} /\ d \in Files
    <3> DEFINE f == s.data
               g == markAndSweepHeaderKeys(withoutClient(f, c.id))
    <3>1. GoodFile(f) /\ c \in ClientsOf(f) /\ d = g
      BY <1>1, <2>1
    <3> HIDE DEF f, c, d
    <3>2. GoodFile(g) /\ ClientsOf(g) = ClientsOf(f) \ {c}
      BY <3>1, RemovedFile
    <3> HIDE DEF g
    <3> QED BY <1>1, <3>1, <3>2 DEF GoodFile, f
  <2>3. currentPort \in Nat
    BY <1>1, <2>1 DEF States, Iface
  <2>4. Matches(s.pool, s.clients) => c.key \in P
    <3>1. c.key \in KeysOn(s.clients, p)
      BY <2>1, SMTT(30) DEF KeysOn
    <3> QED BY <2>1, <3>1 DEF Matches
  <2>5. PICK b \in blockLAN(s) :
          o \in IF b.err = "ok"
                  THEN Then(OnPool(b.st, RemovePeer(b.st.pool, p, c.key, c.addr)),
                       LAMBDA u : Then(Catch(Save(u, d),
                                             LAMBDA x : persistenceFailure(
                                               OnPool(x.st, AddPeer(x.st.pool, p, currentPort,
                                                                    c.key, c.addr)))),
                       LAMBDA v : rebuildLAN([v EXCEPT !.usedIPs = @ \ {c.addr},
                                                       !.clients = @ \ {c},
                                                       !.data = d])))
                  ELSE {b}
    BY <1>6 DEF DeleteClient, Then
  <2> HIDE DEF d, p, c, currentPort
  <2>6. CASE b.err # "ok"
    BY <1>1, <2>5, <2>6, Blocked
  <2>7. CASE b.err = "ok"
    <3> DEFINE removed == RemovePeer(b.st.pool, p, c.key, c.addr)
    <3>1. Frame(s, b.st) /\ b.st.lan = {} /\ b.st.pool = s.pool /\ b.st \in MStates
      BY <1>1, <2>5, <2>7, Blocked DEF Frame
    <3>2. PICK u \in OnPool(b.st, removed) :
            o \in IF u.err = "ok"
                    THEN Then(Catch(Save(u.st, d),
                                    LAMBDA x : persistenceFailure(
                                      OnPool(x.st, AddPeer(x.st.pool, p, currentPort,
                                                           c.key, c.addr)))),
                              LAMBDA v : rebuildLAN([v EXCEPT !.usedIPs = @ \ {c.addr},
                                                              !.clients = @ \ {c},
                                                              !.data = d]))
                    ELSE {u}
      BY <2>5, <2>7 DEF Then
    <3>3. ASSUME NEW x \in removed
          PROVE  /\ x.err \in Errors /\ x.st \in States /\ Touches(s.pool, x.st, p)
                 /\ x.err = "ok" => x.st.ifaces[p].peers = P \ {c.key}
                 /\ Plain(x.err) => SamePeers(s.pool, x.st)
      <4>1. x \in RemovePeer(s.pool, p, c.key, c.addr)
        BY <3>1
      <4> QED BY <1>1, <2>1, <4>1, ClientRemoved
    <3> HIDE DEF removed
    <3>4. CASE u.err # "ok"
      <4>1. Aborted(s, u)
        BY <3>1, <3>3, <3>4, AbortedByPool DEF Touches
      <4> QED BY <3>2, <3>4, <4>1
    <3>5. CASE u.err = "ok"
      <4>1. /\ Frame(s, u.st) /\ u.st.lan = {} /\ u.st \in MStates
            /\ Touches(s.pool, u.st.pool, p) /\ u.st.pool.ifaces[p].peers = P \ {c.key}
        <5>1. PICK x \in removed : /\ u.err = x.err /\ u.st.pool = x.st
                                   /\ Frame(b.st, u.st) /\ u.st.lan = b.st.lan
          BY <3>1, <3>3, PoolCall
        <5> QED BY <3>1, <3>3, <3>5, <5>1 DEF Frame
      <4>2. \E v, w : /\ w \in Save(u.st, d)
                      /\ v \in IF w.err = "ok" THEN {w}
                               ELSE persistenceFailure(
                                      OnPool(w.st, AddPeer(w.st.pool, p, currentPort,
                                                           c.key, c.addr)))
                      /\ o \in IF v.err = "ok"
                                 THEN rebuildLAN([v.st EXCEPT !.usedIPs = @ \ {c.addr},
                                                              !.clients = @ \ {c},
                                                              !.data = d])
                                 ELSE {v}
        BY <3>2, <3>5 DEF Then, Catch
      <4>3. PICK v, w : /\ w \in Save(u.st, d)
                        /\ v \in IF w.err = "ok" THEN {w}
                                 ELSE persistenceFailure(
                                        OnPool(w.st, AddPeer(w.st.pool, p, currentPort,
                                                             c.key, c.addr)))
                        /\ o \in IF v.err = "ok"
                                   THEN rebuildLAN([v.st EXCEPT !.usedIPs = @ \ {c.addr},
                                                                !.clients = @ \ {c},
                                                                !.data = d])
                                   ELSE {v}
        BY <4>2
      <4>4. CASE w.err # "ok"
        <5> DEFINE back == AddPeer(w.st.pool, p, currentPort, c.key, c.addr)
        <5>1. w.err = "save" /\ Idle(u.st, w.st)
          BY <2>2, <4>1, <4>3, <4>4, Saved
        <5>2. /\ Frame(s, w.st) /\ w.st.lan = {} /\ Touches(s.pool, w.st.pool, p)
              /\ w.st.pool.ifaces[p].peers = P \ {c.key} /\ Sound(w.st.pool)
          <6>1. SameBooks(u.st.pool, w.st.pool) /\ Sound(u.st.pool)
            BY <4>1, <5>1 DEF Idle, Touches
          <6> QED BY <4>1, <5>1, <6>1, SameTouches, TouchesTrans DEF Idle, Frame, SameBooks, Touches
        <5>3. ASSUME NEW x \in back
              PROVE  /\ x.st \in States /\ Touches(s.pool, x.st, p)
                     /\ (x.err = "ok" /\ Matches(s.pool, s.clients)) => SamePeers(s.pool, x.st)
          <6>1. /\ Touches(w.st.pool, x.st, p)
                /\ x.err = "ok" => x.st.ifaces[p].peers = w.st.pool.ifaces[p].peers \cup {c.key}
            BY <2>1, <2>3, <5>2, ClientAdded
          <6>2. Touches(s.pool, x.st, p) /\ x.st \in States
            BY <5>2, <6>1, TouchesTrans DEF Touches, Sound
          <6>3. (x.err = "ok" /\ Matches(s.pool, s.clients)) => x.st.ifaces[p].peers = P
            BY <2>4, <5>2, <6>1
          <6> QED BY <2>1, <6>2, <6>3 DEF SamePeers, Touches
        <5>4. v \in persistenceFailure(OnPool(w.st, back))
          BY <4>3, <4>4
        <5> HIDE DEF back
        <5>5. Aborted(s, v)
          BY <5>2, <5>3, <5>4, AbortedBySave DEF Touches
        <5> QED BY <4>3, <5>5 DEF Aborted
      <4>5. CASE w.err = "ok"
        <5> DEFINE z == v.st
                   ips == z.usedIPs \ {c.addr}
                   cs == z.clients \ {c}
                   t == [z EXCEPT !.usedIPs = ips, !.clients = cs, !.data = d]
        <5>1. /\ v.err = "ok" /\ z \in MStates
              /\ z.disk = d /\ z.pool = u.st.pool /\ z.lan = {}
              /\ z.phase = s.phase /\ z.probes = s.probes /\ z.todo = s.todo
              /\ z.clients = s.clients /\ z.usedIPs = s.usedIPs
          <6>1. v = w
            BY <4>3, <4>5
          <6> QED BY <2>2, <4>1, <4>3, <4>5, <6>1, Saved DEF Frame
        <5>2. o \in rebuildLAN(t)
          BY <4>3, <5>1
        <5>3. cs = s.clients \ {c} /\ ips = {x.addr : x \in cs}
          BY <1>1, <2>1, <5>1
        <5>4. cs \subseteq Clients /\ ips \subseteq Addrs
          BY <5>1 DEF MStates
        <5> HIDE DEF z, cs, ips
        <5>5. /\ t \in MStates /\ t.data = d /\ t.disk = d /\ t.pool = u.st.pool /\ t.lan = {}
              /\ t.clients = cs /\ t.usedIPs = ips
              /\ t.phase = s.phase /\ t.probes = s.probes /\ t.todo = s.todo
          BY <2>2, <5>1, <5>4 DEF MStates
        <5> HIDE DEF t
        <5>6. Matches(s.pool, s.clients) => Matches(t.pool, t.clients)
          <6>1. \A x \in s.clients : x # c => x.key # c.key
            BY <1>1, <2>1
          <6>2. /\ Touches(s.pool, t.pool, effectiveProfile(c)) /\ effectiveProfile(c) \in Profiles
                /\ t.pool.ifaces[effectiveProfile(c)].peers
                     = s.pool.ifaces[effectiveProfile(c)].peers \ {c.key}
            BY <2>1, <4>1, <5>5 DEF p, P
          <6>3. Matches(s.pool, s.clients) => Matches(t.pool, s.clients \ {c})
            BY <2>1, <6>1, <6>2, MatchesRemoved
          <6> QED BY <5>3, <5>5, <6>3
        <5>7. Committed(s, t, d)
          BY <2>2, <4>1, <5>3, <5>5, <5>6 DEF Committed, Touches
        <5> QED BY <2>1, <2>2, <5>2, <5>5, <5>7, Rebuilt
      <4> QED BY <4>4, <4>5
    <3> QED BY <3>4, <3>5
  <2> QED BY <2>6, <2>7
<1> QED BY <1>3, <1>4, <1>5, <1>6

-----------------------------------------------------------------------------
(***************************************************************************)
(* The end of a process.                                                   *)
(***************************************************************************)
\* What callers of the store would see, and who may talk.
Visible(s) == IF s.phase = "up" THEN s.clients ELSE Normalized(s.disk)
Talk(s) == IF s.phase = "down" /\ s.pool.kpeers = {} THEN {} ELSE s.lan

\* A step between calls keeps the records and lets only one group talk.
Between(s, t) == Visible(t) = Visible(s) /\ Talk(t) \in {Talk(s), {}, lanPairs(Visible(s))}

\* No MASQUERADE rule is left behind, unless a command failed.
RulesKept(s, t) == Unruled(t.pool) > Unruled(s.pool) => t.pool.faults > 0

\* What a pool leaves on the host.
LEMMA ResidueFields ==
  ASSUME NEW pool \in States
  PROVE  LET r == Residue(pool)
         IN /\ r \in States /\ r.ifaces = EmptyPool.ifaces /\ r.orphans = {} /\ ~r.masqAdded
            /\ r.kpeers = pool.kpeers /\ r.masq = pool.masq /\ r.faults = pool.faults
<1> DEFINE e == EmptyPool
           e1 == [e EXCEPT !.links = pool.links, !.listen = pool.listen, !.kpeers = pool.kpeers]
           e2 == [e1 EXCEPT !.routes = pool.routes, !.masq = pool.masq, !.faults = pool.faults]
<1>1. e \in States /\ e.orphans = {} /\ ~e.masqAdded /\ e.ifaces = EmptyPool.ifaces
  BY EmptySound DEF Sound, EmptyPool
<1>2. Residue(pool) = e2
  BY Zenon DEF Residue
<1> HIDE DEF e
<1>3. /\ e1 \in States /\ e1.ifaces = e.ifaces /\ e1.orphans = e.orphans
      /\ e1.masqAdded = e.masqAdded /\ e1.kpeers = pool.kpeers
  BY <1>1 DEF States
<1> HIDE DEF e1
<1>4. /\ e2 \in States /\ e2.ifaces = e1.ifaces /\ e2.orphans = e1.orphans
      /\ e2.masqAdded = e1.masqAdded /\ e2.kpeers = e1.kpeers
      /\ e2.masq = pool.masq /\ e2.faults = pool.faults
  BY <1>3 DEF States
<1> HIDE DEF e2
<1> QED BY <1>1, <1>2, <1>3, <1>4

\* A process that has ended: the host and the file are what is left of it.
LEMMA ExitFields ==
  ASSUME NEW s \in MStates
  PROVE  LET t == Exited(s)
         IN /\ t \in MStates /\ t.phase = "down" /\ DownInv(t) /\ Sound(t.pool)
            /\ t.lan = s.lan /\ t.disk = s.disk /\ t.probes = s.probes
            /\ t.pool.kpeers = s.pool.kpeers /\ t.pool.faults = s.pool.faults
            /\ Unruled(t.pool) = s.pool.masq
<1> DEFINE r == Residue(s.pool)
           t == NewProcess("down", r, s.lan, s.disk, s.probes)
<1>1. s.pool \in States
  BY DEF MStates
<1>2. /\ r \in States /\ r.ifaces = EmptyPool.ifaces /\ r.orphans = {} /\ ~r.masqAdded
      /\ r.kpeers = s.pool.kpeers /\ r.masq = s.pool.masq /\ r.faults = s.pool.faults
  BY <1>1, ResidueFields
<1>3. Sound(r) /\ Unruled(r) = s.pool.masq
  BY <1>2, EmptySound
<1>4. NoData \in Files
  BY DEF NoData, Stored, Files
<1>5. t = Exited(s)
  BY DEF Exited
<1> HIDE DEF r
<1>6. /\ t \in MStates /\ t.phase = "down" /\ t.pool = r
      /\ t.lan = s.lan /\ t.disk = s.disk /\ t.probes = s.probes
  BY <1>2, <1>4 DEF NewProcess, MStates
<1> HIDE DEF t
<1>7. DownInv(t)
  BY <1>2, <1>6 DEF DownInv
<1> QED BY <1>2, <1>3, <1>5, <1>6, <1>7

\* A process that ends where the file and the LAN agree leaves them so.
LEMMA ExitInv ==
  ASSUME NEW s \in MStates, KeysExact(s.disk), LanInv(s), NEW u \in MStates,
         u.disk = s.disk, u.lan = s.lan, u.phase = s.phase, u.pool.kpeers \subseteq s.pool.kpeers
  PROVE  LET t == Exited(u)
         IN /\ Clean(t) /\ t.phase = "down" /\ t.probes = u.probes
            /\ t.disk = s.disk /\ t.pool.faults = u.pool.faults
            /\ (Talk(t) = s.lan \/ Talk(t) = {})
            /\ s.phase # "down" => (Talk(t) = Talk(s) \/ Talk(t) = {})
<1> DEFINE t == Exited(u)
<1>1. /\ t \in MStates /\ t.phase = "down" /\ DownInv(t) /\ Sound(t.pool)
      /\ t.lan = u.lan /\ t.disk = u.disk /\ t.probes = u.probes
      /\ t.pool.kpeers = u.pool.kpeers /\ t.pool.faults = u.pool.faults
  BY ExitFields
<1> HIDE DEF t
<1>2. LanInv(t)
  BY <1>1 DEF LanInv
<1>3. Clean(t)
  BY <1>1, <1>2 DEF Inv, Clean
<1>4. (Talk(t) = s.lan \/ Talk(t) = {}) /\ (s.phase # "down" => (Talk(t) = Talk(s) \/ Talk(t) = {}))
  BY <1>1 DEF Talk
<1> QED BY <1>1, <1>3, <1>4 DEF t

\* The process of s has ended with o, its pool closed.
ShutDown(s, o, err) ==
  /\ o.err = err /\ Clean(o.st) /\ o.st.phase = "down" /\ RulesKept(s, o.st)
  /\ o.st.disk = s.disk /\ o.st.probes = s.probes /\ (Talk(o.st) = s.lan \/ Talk(o.st) = {})

\* A process that closes its pool and exits.
LEMMA CloseExit ==
  ASSUME NEW s \in MStates, KeysExact(s.disk), LanInv(s), Sound(s.pool), NEW err,
         NEW o \in closeAndExit(s, err)
  PROVE  ShutDown(s, o, err)
<1>1. PICK x \in Close(s.pool) : o = Outcome(Exited([s EXCEPT !.pool = x.st]), err)
  BY DEF closeAndExit
<1> DEFINE u == [s EXCEPT !.pool = x.st]
           t == Exited(u)
<1>2. /\ Sound(x.st) /\ Unruled(x.st) = Unruled(s.pool)
      /\ x.st.faults = 0 => ~x.st.masqAdded
      /\ x.st.kpeers \subseteq s.pool.kpeers /\ x.st \in States
  BY CloseEffect DEF Sound
<1>3. /\ u \in MStates /\ u.pool = x.st /\ u.disk = s.disk /\ u.lan = s.lan
      /\ u.phase = s.phase /\ u.probes = s.probes
  BY <1>2 DEF MStates
<1>4. o.err = err /\ o.st = t
  BY <1>1 DEF Outcome
<1> HIDE DEF u
<1>5. /\ Clean(t) /\ t.phase = "down" /\ t.probes = s.probes
      /\ t.disk = s.disk /\ t.pool.faults = x.st.faults
      /\ (Talk(t) = s.lan \/ Talk(t) = {})
      /\ s.phase # "down" => (Talk(t) = Talk(s) \/ Talk(t) = {})
  <2>1. u.pool.kpeers \subseteq s.pool.kpeers
    BY <1>2, <1>3
  <2> QED BY <1>3, <2>1, ExitInv
<1>6. Unruled(t.pool) = x.st.masq
  BY <1>3, ExitFields
<1>7. RulesKept(s, t)
  <2>1. x.st.masq \in Nat /\ x.st.faults \in Nat /\ x.st.masqAdded \in BOOLEAN
    BY <1>2 DEF States
  <2>2. x.st.faults = 0 => Unruled(t.pool) = Unruled(s.pool)
    BY <1>2, <1>6, <2>1 DEF Unruled
  <2>3. x.st.faults = 0 \/ t.pool.faults > 0
    BY <1>5, <2>1
  <2>4. Unruled(s.pool) \in Int
    BY <1>2, <2>1 DEF Unruled
  <2> QED BY <2>2, <2>3, <2>4 DEF RulesKept
<1> QED BY <1>4, <1>5, <1>7 DEF ShutDown

-----------------------------------------------------------------------------
(***************************************************************************)
(* The start of a process.                                                 *)
(***************************************************************************)
\* t is s but for the probe interfaces and the count of failed commands.
Probing(s, t) ==
  /\ t \in MStates
  /\ t.phase = s.phase /\ t.disk = s.disk /\ t.data = s.data /\ t.lan = s.lan
  /\ t.todo = s.todo /\ t.clients = s.clients /\ t.usedIPs = s.usedIPs
  /\ SameBooks(s.pool, t.pool) /\ t.pool.kpeers = s.pool.kpeers
  /\ t.pool.masqAdded = s.pool.masqAdded
  /\ t.pool.faults >= s.pool.faults

\* A probe interface may only be left by a failed deletion, which is reported.
Cleaned(n, o) ==
  \/ o.st.probes = n
  \/ /\ o.st.probes = n + 1
     /\ o.err = "cleanup" \/ (o.err = "runtimeCleanup" /\ o.st.pool.faults > 1)

\* Steps of the probe follow each other.
LEMMA ProbingTrans ==
  ASSUME NEW s \in MStates, NEW t, NEW u, Probing(s, t), Probing(t, u) \/ Idle(t, u)
  PROVE  Probing(s, u)
<1>1. s.pool.faults \in Nat /\ t.pool.faults \in Nat /\ u.pool.faults \in Nat
  <2>1. s.pool \in States /\ t.pool \in States /\ u.pool \in States
    BY DEF Probing, Idle, Frame, MStates
  <2> QED BY <2>1 DEF States
<1> QED BY <1>1, SameBooksTrans DEF Probing, Idle, Frame

\* A process is probing from where it is.
LEMMA ProbingRefl ==
  ASSUME NEW s \in MStates
  PROVE  Probing(s, s)
BY IdleRefl DEF Probing, Idle, Frame

\* The number of probe interfaces changes.
LEMMA Counted ==
  ASSUME NEW s \in MStates, NEW n \in Nat
  PROVE  LET t == [s EXCEPT !.probes = n]
         IN Probing(s, t) /\ t.probes = n /\ t.pool = s.pool
<1> DEFINE t == [s EXCEPT !.probes = n]
<1>1. /\ t \in MStates /\ t.pool = s.pool /\ t.probes = n
      /\ t.phase = s.phase /\ t.disk = s.disk /\ t.data = s.data /\ t.lan = s.lan
      /\ t.todo = s.todo /\ t.clients = s.clients /\ t.usedIPs = s.usedIPs
  BY DEF MStates
<1> HIDE DEF t
<1>2. Probing(s, t)
  BY <1>1, IdleRefl DEF Probing, Idle
<1> QED BY <1>1, <1>2 DEF t

\* The probe interface is deleted, or the error says that it was not.
LEMMA DeleteProbeEffect ==
  ASSUME NEW s \in MStates, NEW n \in Nat, s.probes = n + 1, NEW err \in {"ok", "runtime"},
         err # "ok" => s.pool.faults > 0,
         NEW o \in deleteRuntimeProbeInterface(s, TRUE, err)
  PROVE  Probing(s, o.st) /\ Cleaned(n, o)
<1> DEFINE e == [s EXCEPT !.probes = @ - 1]
<1>1. PICK x \in Attempt(s, e, "delete") :
        o = IF x.err = "ok" THEN Outcome(x.st, err) ELSE Outcome(x.st, joined(err))
  BY DEF deleteRuntimeProbeInterface, deleteProbe
<1>2. e = [s EXCEPT !.probes = n]
  <2>1. s.probes - 1 = n
    OBVIOUS
  <2> QED BY <2>1
<1>3. Probing(s, e) /\ e.probes = n
  BY <1>2, Counted
<1> HIDE DEF e
<1>4. o.st = x.st /\ o.err = IF x.err = "ok" THEN err ELSE joined(err)
  BY <1>1 DEF Outcome
<1>5. CASE x.st = e /\ x.err = "ok"
  BY <1>3, <1>4, <1>5 DEF Cleaned
<1>6. CASE Idle(s, x.st) /\ x.err = "delete" /\ x.st.pool.faults = s.pool.faults + 1
  <2>1. Probing(s, x.st) /\ x.st.probes = n + 1
    BY <1>6, ProbingRefl, ProbingTrans DEF Idle, Frame
  <2>2. s.pool.faults \in Nat
    <3>1. s.pool \in States
      BY DEF MStates
    <3> QED BY <3>1 DEF States
  <2>3. o.err = joined(err) /\ o.st = x.st
    BY <1>4, <1>6
  <2>4. err = "ok" => o.err = "cleanup"
    BY <2>3 DEF joined
  <2>5. err # "ok" => o.err = "runtimeCleanup" /\ o.st.pool.faults > 1
    BY <1>6, <2>2, <2>3 DEF joined
  <2> QED BY <2>1, <2>3, <2>4, <2>5 DEF Cleaned
<1> QED BY <1>5, <1>6, AttemptEffect

\* The runtime check leaves no probe interface that it does not report.
LEMMA CheckRuntimeEffect ==
  ASSUME NEW s \in MStates, NEW o \in checkRuntime(s)
  PROVE  Probing(s, o.st) /\ Cleaned(s.probes, o)
<1> DEFINE n == s.probes
           c == [s EXCEPT !.probes = @ + 1]
<1>1. n \in Nat /\ s.pool.faults \in Nat
  <2>1. s.pool \in States /\ n \in Nat
    BY DEF MStates
  <2> QED BY <2>1 DEF States
<1>2. PICK a \in Attempt(s, s, "runtime") : o \in IF a.err = "ok" THEN probeRuntime(a.st) ELSE {a}
  BY DEF checkRuntime, Then
<1>3. \/ a.st = s /\ a.err = "ok"
      \/ Idle(s, a.st) /\ a.err = "runtime"
  BY AttemptEffect
<1>4. CASE a.err # "ok"
  <2>1. o = a /\ Idle(s, o.st)
    BY <1>2, <1>3, <1>4
  <2> QED BY <2>1, ProbingRefl, ProbingTrans DEF Cleaned, Idle, Frame
<1>5. CASE a.err = "ok"
  <2> DEFINE f == [s EXCEPT !.pool = Faulted(@)]
             g == [f EXCEPT !.probes = @ + 1]
  <2>1. o \in probeRuntime(s)
    BY <1>2, <1>3, <1>5
  <2>2. \/ o \in Then(Attempt(s, c, "runtime"), probeCreatedRuntimeInterface)
        \/ /\ s.pool.faults < MaxFaults
           /\ \/ o \in deleteRuntimeProbeInterface(f, FALSE, "runtime")
              \/ o \in deleteRuntimeProbeInterface(g, TRUE, "runtime")
    BY <2>1, Zenon DEF probeRuntime
  <2>3. Probing(s, c) /\ c.probes = n + 1 /\ c.pool = s.pool /\ c \in MStates
    <3>1. c = [s EXCEPT !.probes = n + 1] /\ n + 1 \in Nat
      BY <1>1
    <3> QED BY <3>1, Counted DEF Probing
  <2>4. CASE o \in Then(Attempt(s, c, "runtime"), probeCreatedRuntimeInterface)
    <3>1. PICK x \in Attempt(s, c, "runtime") :
            o \in IF x.err = "ok" THEN probeCreatedRuntimeInterface(x.st) ELSE {x}
      BY <2>4 DEF Then
    <3> HIDE DEF c
    <3>2. \/ x.st = c /\ x.err = "ok"
          \/ Idle(s, x.st) /\ x.err = "runtime"
      BY AttemptEffect
    <3>3. CASE x.err # "ok"
      <4>1. o = x /\ Idle(s, o.st)
        BY <3>1, <3>2, <3>3
      <4> QED BY <4>1, ProbingRefl, ProbingTrans DEF Cleaned, Idle, Frame
    <3>4. CASE x.err = "ok"
      <4>1. o \in probeCreatedRuntimeInterface(c)
        BY <3>1, <3>2, <3>4
      <4>2. PICK y \in Attempt(c, c, "runtime") :
              o \in deleteRuntimeProbeInterface(y.st, TRUE, y.err)
        BY <4>1 DEF probeCreatedRuntimeInterface
      <4>3. /\ Probing(c, y.st) /\ y.st \in MStates /\ y.st.probes = n + 1
            /\ y.err \in {"ok", "runtime"} /\ (y.err # "ok" => y.st.pool.faults > 0)
        <5>1. CASE y.st = c /\ y.err = "ok"
          BY <2>3, <5>1, ProbingRefl
        <5>2. CASE Idle(c, y.st) /\ y.err = "runtime" /\ y.st.pool.faults = c.pool.faults + 1
          BY <1>1, <2>3, <5>2, ProbingRefl, ProbingTrans DEF Idle, Frame
        <5> QED BY <2>3, <5>1, <5>2, AttemptEffect
      <4>4. Probing(y.st, o.st) /\ Cleaned(n, o)
        BY <1>1, <4>2, <4>3, DeleteProbeEffect
      <4> QED BY <2>3, <4>3, <4>4, ProbingTrans
    <3> QED BY <3>3, <3>4
  <2>5. CASE \/ o \in deleteRuntimeProbeInterface(f, FALSE, "runtime")
             \/ o \in deleteRuntimeProbeInterface(g, TRUE, "runtime")
    <3>1. Probing(s, f) /\ f.probes = n /\ f \in MStates /\ f.pool.faults = s.pool.faults + 1
      <4> DEFINE x == Faulted(s.pool)
      <4>1. /\ x \in States /\ SameBooks(s.pool, x) /\ x.kpeers = s.pool.kpeers
            /\ x.masqAdded = s.pool.masqAdded /\ x.faults = s.pool.faults + 1
        <5>1. s.pool \in States
          BY DEF MStates
        <5> QED BY <5>1, SameBooksRefl DEF Faulted, States
      <4>2. f = [s EXCEPT !.pool = x]
        OBVIOUS
      <4> HIDE DEF x, f
      <4>3. /\ f \in MStates /\ f.pool = x /\ f.probes = n
            /\ f.phase = s.phase /\ f.disk = s.disk /\ f.data = s.data /\ f.lan = s.lan
            /\ f.todo = s.todo /\ f.clients = s.clients /\ f.usedIPs = s.usedIPs
        BY <4>1, <4>2 DEF MStates
      <4> QED BY <1>1, <4>1, <4>3 DEF Probing
    <3> HIDE DEF f
    <3>2. CASE o \in deleteRuntimeProbeInterface(f, FALSE, "runtime")
      <4>1. o = Outcome(f, joined("runtime"))
        BY <3>2 DEF deleteRuntimeProbeInterface, deleteProbe
      <4>2. o.st = f
        BY <4>1 DEF Outcome
      <4> QED BY <3>1, <4>2 DEF Cleaned
    <3>3. CASE o \in deleteRuntimeProbeInterface(g, TRUE, "runtime")
      <4>1. Probing(f, g) /\ g.probes = n + 1 /\ g.pool = f.pool /\ g \in MStates
        <5>1. g = [f EXCEPT !.probes = n + 1] /\ n + 1 \in Nat
          BY <1>1, <3>1
        <5> QED BY <3>1, <5>1, Counted DEF Probing
      <4> HIDE DEF g
      <4>2. g.pool.faults > 0
        BY <1>1, <3>1, <4>1
      <4>3. Probing(g, o.st) /\ Cleaned(n, o)
        BY <1>1, <3>3, <4>1, <4>2, DeleteProbeEffect
      <4> QED BY <3>1, <4>1, <4>3, ProbingTrans
    <3> QED BY <2>5, <3>2, <3>3
  <2> QED BY <2>2, <2>4, <2>5
<1> QED BY <1>4, <1>5

\* A step between calls: what it keeps, and what it may leave behind.
Stepped(s, o) ==
  /\ Clean(o.st)
  /\ o.st.phase = "up" => o.err \notin Bad
  /\ Between(s, o.st) /\ RulesKept(s, o.st) /\ Cleaned(s.probes, o)

\* A process that only probes stays down as it was.
LEMMA ProbedDown ==
  ASSUME NEW s, NEW dirt, Inv(s, dirt), s.phase = "down", NEW t, Probing(s, t)
  PROVE  Clean(t) /\ Talk(t) = Talk(s) /\ Visible(t) = Visible(s)
         /\ Unruled(t.pool) = Unruled(s.pool) /\ t \in MStates /\ t.phase = "down"
         /\ t.disk = s.disk /\ DownInv(t) /\ Sound(t.pool)
<1>1. /\ t \in MStates /\ t.phase = "down" /\ t.disk = s.disk /\ t.lan = s.lan
      /\ t.pool.kpeers = s.pool.kpeers /\ t.pool.masqAdded = s.pool.masqAdded
      /\ t.pool.ifaces = s.pool.ifaces /\ t.pool.orphans = s.pool.orphans
      /\ Unruled(t.pool) = Unruled(s.pool) /\ SameBooks(s.pool, t.pool)
  BY DEF Probing, SameBooks
<1>2. Sound(t.pool)
  BY <1>1, SameSound DEF Inv
<1>3. DownInv(t)
  BY <1>1 DEF Inv, DownInv
<1>4. LanInv(t) /\ KeysExact(t.disk)
  BY <1>1 DEF Inv, LanInv
<1>5. Clean(t)
  BY <1>1, <1>2, <1>3, <1>4 DEF Inv, Clean
<1>6. Talk(t) = Talk(s) /\ Visible(t) = Visible(s)
  BY <1>1 DEF Talk, Visible
<1> QED BY <1>1, <1>2, <1>3, <1>5, <1>6

\* The same rules are left as before.
LEMMA SameRules ==
  ASSUME NEW s, NEW t, Sound(s.pool), Unruled(t.pool) = Unruled(s.pool)
  PROVE  RulesKept(s, t)
<1>1. Unruled(s.pool) \in Int
  BY DEF Sound, States, Unruled
<1> QED BY <1>1 DEF RulesKept

\* A new process has a plan and a closed LAN, or ends.
LEMMA StartEffect ==
  ASSUME NEW s, NEW dirt, Inv(s, dirt), s.phase = "down", NEW o \in start(s)
  PROVE  Stepped(s, o) /\ o.st.phase # "up"
<1>1. /\ s \in MStates /\ Sound(s.pool) /\ KeysExact(s.disk) /\ s.disk \in Files
  BY DEF Inv, MStates
<1>2. CASE ~ValidPlan(s.disk)
  <2>1. o = Outcome(s, "plan")
    BY <1>2 DEF start
  <2>2. o.st = s
    BY <2>1 DEF Outcome
  <2>3. Clean(s) /\ RulesKept(s, s)
    BY <1>1, ProbingRefl, ProbedDown, SameRules
  <2> QED BY <2>2, <2>3 DEF Stepped, Between, Cleaned
<1>3. CASE ValidPlan(s.disk)
  <2> DEFINE d == restoreData(s.disk)
  <2>1. PICK t \in checkRuntime(s) :
          o \in IF t.err = "ok"
                  THEN {IF x.err = "ok"
                          THEN Done([x.st EXCEPT !.phase = "restoring",
                                                 !.data = d, !.todo = d.clients])
                          ELSE x : x \in blockLAN(t.st)}
                  ELSE {t}
    BY <1>3 DEF start, Then
  <2>2. Probing(s, t.st) /\ Cleaned(s.probes, t)
    BY <1>1, CheckRuntimeEffect
  <2>3. CASE t.err # "ok"
    <3>1. o = t
      BY <2>1, <2>3
    <3>2. Clean(o.st) /\ Between(s, o.st) /\ o.st.phase = "down"
          /\ Unruled(o.st.pool) = Unruled(s.pool)
      BY <2>2, <3>1, ProbedDown DEF Between
    <3> QED BY <1>1, <2>2, <3>1, <3>2, SameRules DEF Stepped
  <2>4. CASE t.err = "ok"
    <3> DEFINE z == t.st
    <3>1. z.probes = s.probes
      BY <2>2, <2>4 DEF Cleaned
    <3>2. /\ Clean(z) /\ Probing(s, z) /\ z \in MStates /\ z.phase = "down" /\ z.disk = s.disk
          /\ DownInv(z) /\ Sound(z.pool) /\ Unruled(z.pool) = Unruled(s.pool)
      BY <2>2, ProbedDown
    <3>3. PICK x \in blockLAN(z) :
            o = IF x.err = "ok" THEN Done([x.st EXCEPT !.phase = "restoring",
                                                       !.data = d, !.todo = d.clients])
                ELSE x
      BY <2>1, <2>4
    <3> HIDE DEF z
    <3>4. CASE Idle(z, x.st) /\ x.err = "blockLAN"
      <4>1. o = x /\ Probing(s, o.st) /\ o.st.probes = s.probes
        BY <1>1, <3>1, <3>2, <3>3, <3>4, ProbingTrans DEF Idle, Frame
      <4>2. Clean(o.st) /\ Between(s, o.st) /\ o.st.phase = "down"
            /\ Unruled(o.st.pool) = Unruled(s.pool)
        BY <4>1, ProbedDown DEF Between
      <4> QED BY <1>1, <4>1, <4>2, SameRules DEF Stepped, Cleaned
    <3>5. CASE x.st = [z EXCEPT !.lan = {}] /\ x.err = "ok"
      <4> DEFINE y == x.st
                 u == [y EXCEPT !.phase = "restoring", !.data = d, !.todo = d.clients]
      <4>1. /\ y \in MStates /\ y.lan = {} /\ y.pool = z.pool /\ y.disk = s.disk
            /\ y.probes = s.probes
        BY <3>1, <3>2, <3>5 DEF MStates
      <4>2. o.st = u /\ o.err = "ok"
        <5>1. o = Done(u)
          BY <3>3, <3>5
        <5> QED BY <5>1 DEF Done, Outcome
      <4>3. d \in Files /\ GoodFile(d) /\ d.clients \in Seq(Clients) /\ ClientsOf(d) = Normalized(s.disk)
        BY <1>1, <1>3, RestoredFile, FileClients
      <4>4. d = restoreData(s.disk)
        OBVIOUS
      <4> HIDE DEF y, d
      <4>5. /\ u \in MStates /\ u.phase = "restoring" /\ u.data = d /\ u.todo = d.clients
            /\ u.lan = {} /\ u.pool = z.pool /\ u.disk = s.disk /\ u.probes = s.probes
        BY <4>1, <4>3 DEF MStates
      <4> HIDE DEF u
      <4>6. Matches(u.pool, {})
        <5>1. \A p \in Profiles : u.pool.ifaces[p] = NoIface
          BY <3>2, <4>5 DEF DownInv, EmptyPool
        <5>2. \A p \in Profiles : u.pool.ifaces[p].peers = {}
          BY <5>1 DEF NoIface
        <5> QED BY <5>2 DEF Matches, KeysOn
      <4>7. RestoreInv(u)
        <5>1. ItemsOf(u.todo) = ClientsOf(u.data)
          BY <4>5 DEF ItemsOf, ClientsOf
        <5>2. ClientsOf(u.data) \ ItemsOf(u.todo) = {}
          BY <5>1
        <5>3. \A i, j \in DOMAIN u.todo : i # j => u.todo[i] # u.todo[j]
          BY <4>3, <4>5 DEF GoodFile, Unique
        <5> QED BY <4>3, <4>4, <4>5, <4>6, <5>1, <5>2, <5>3 DEF RestoreInv
      <4>8. Clean(u)
        BY <1>1, <3>2, <4>5, <4>7 DEF Inv, Clean, LanInv
      <4>9. Between(s, u)
        BY <4>5 DEF Between, Visible, Talk
      <4>10. RulesKept(s, u)
        BY <1>1, <3>2, <4>5, SameRules
      <4> QED BY <4>2, <4>5, <4>8, <4>9, <4>10 DEF Stepped, Cleaned
    <3> QED BY <3>2, <3>4, <3>5, BlockEffect
  <2> QED BY <2>3, <2>4
<1> QED BY <1>2, <1>3

\* The rest of a list of distinct items.
LEMMA RestOf ==
  ASSUME NEW S, NEW q \in Seq(S), q # <<>>, \A i, j \in DOMAIN q : i # j => q[i] # q[j]
  PROVE  /\ Tail(q) \in Seq(S) /\ Head(q) \in ItemsOf(q)
         /\ ItemsOf(q) = ItemsOf(Tail(q)) \cup {Head(q)} /\ Head(q) \notin ItemsOf(Tail(q))
         /\ \A i, j \in DOMAIN Tail(q) : i # j => Tail(q)[i] # Tail(q)[j]
<1> DEFINE r == Tail(q)
<1>1. /\ r \in Seq(S) /\ Head(q) = q[1] /\ Len(q) \in Nat /\ Len(q) > 0
      /\ DOMAIN q = 1..Len(q) /\ DOMAIN r = 1..(Len(q) - 1)
      /\ \A i \in 1..(Len(q) - 1) : r[i] = q[i + 1]
  OBVIOUS
<1> HIDE DEF r
<1>2. ASSUME NEW i \in DOMAIN q PROVE i = 1 \/ (i - 1 \in DOMAIN r /\ r[i - 1] = q[i])
  <2>1. CASE i # 1
    <3>1. i - 1 \in 1..(Len(q) - 1) /\ (i - 1) + 1 = i
      BY <1>1, <2>1
    <3> QED BY <1>1, <3>1
  <2> QED BY <2>1
<1>3. ASSUME NEW i \in DOMAIN r PROVE i + 1 \in DOMAIN q /\ r[i] = q[i + 1] /\ i + 1 # 1
  BY <1>1
<1>4. ItemsOf(q) = ItemsOf(r) \cup {Head(q)}
  <2>1. ASSUME NEW x \in ItemsOf(q) PROVE x \in ItemsOf(r) \cup {Head(q)}
    BY <1>1, <1>2 DEF ItemsOf
  <2>2. ASSUME NEW x \in ItemsOf(r) PROVE x \in ItemsOf(q)
    BY <1>3 DEF ItemsOf
  <2>3. Head(q) \in ItemsOf(q)
    BY <1>1 DEF ItemsOf
  <2> QED BY <2>1, <2>2, <2>3
<1>5. Head(q) \notin ItemsOf(r)
  <2> SUFFICES ASSUME NEW i \in DOMAIN r, r[i] = Head(q) PROVE FALSE
    BY DEF ItemsOf
  <2> QED BY <1>1, <1>3
<1>6. ASSUME NEW i \in DOMAIN r, NEW j \in DOMAIN r, i # j PROVE r[i] # r[j]
  <2>1. i + 1 # j + 1
    BY <1>1, <1>6
  <2> QED BY <1>3, <2>1
<1> QED BY <1>1, <1>4, <1>5, <1>6 DEF r

\* One entry of the plan is restored, or the process ends.
LEMMA RestorePeerEffect ==
  ASSUME NEW s, NEW dirt, Inv(s, dirt), s.phase = "restoring", s.todo # <<>>,
         NEW o \in restorePeer(s)
  PROVE  Stepped(s, o) /\ o.st.phase # "up"
<1> DEFINE c == Head(s.todo)
           p == effectiveProfile(c)
           added == AddPeer(s.pool, p, c.port, c.key, c.addr)
           rest == Tail(s.todo)
           cs == ClientsOf(s.data)
<1>1. /\ s \in MStates /\ Sound(s.pool) /\ KeysExact(s.disk) /\ LanInv(s) /\ RestoreInv(s)
      /\ s.todo \in Seq(Clients)
  BY DEF Inv, MStates
<1>2. /\ rest \in Seq(Clients) /\ c \in ItemsOf(s.todo)
      /\ ItemsOf(s.todo) = ItemsOf(rest) \cup {c} /\ c \notin ItemsOf(rest)
      /\ \A i, j \in DOMAIN rest : i # j => rest[i] # rest[j]
  BY <1>1, RestOf DEF RestoreInv
<1>3. c \in cs /\ c \in Clients /\ p \in Profiles /\ ItemsOf(s.todo) \subseteq cs
  BY <1>1, <1>2, GoodClients DEF RestoreInv
<1>4. c.port \in Nat
  BY <1>3 DEF Clients
<1>5. \E u, y : /\ u \in OnPool(s, added)
                /\ y \in IF u.err = "ok" THEN {u} ELSE closeAndExit(u.st, u.err)
                /\ o \in IF y.err = "ok" THEN {Done([y.st EXCEPT !.todo = Tail(@)])} ELSE {y}
  BY DEF restorePeer, Then, Catch
<1> HIDE DEF c, p, added, rest, cs
<1>6. PICK u, y : /\ u \in OnPool(s, added)
                  /\ y \in IF u.err = "ok" THEN {u} ELSE closeAndExit(u.st, u.err)
                  /\ o \in IF y.err = "ok" THEN {Done([y.st EXCEPT !.todo = Tail(@)])} ELSE {y}
  BY <1>5
<1>7. ASSUME NEW x \in added
      PROVE  /\ x.err \in Errors /\ x.st \in States /\ Touches(s.pool, x.st, p)
             /\ x.err = "ok" => x.st.ifaces[p].peers = s.pool.ifaces[p].peers \cup {c.key}
  <2>1. x \in AddPeer(s.pool, p, c.port, c.key, c.addr)
    BY DEF added
  <2> QED BY <1>1, <1>3, <1>4, <2>1, ClientAdded
<1>8. PICK x \in added : /\ u.err = x.err /\ u.st.pool = x.st
                         /\ Frame(s, u.st) /\ u.st.lan = s.lan
  BY <1>1, <1>6, <1>7, PoolCall
<1>9. /\ u.st \in MStates /\ u.st.disk = s.disk /\ u.st.phase = "restoring"
      /\ u.st.probes = s.probes /\ u.st.lan = s.lan /\ u.st.data = s.data /\ u.st.todo = s.todo
      /\ Touches(s.pool, u.st.pool, p) /\ Sound(u.st.pool)
      /\ Unruled(u.st.pool) = Unruled(s.pool)
  BY <1>7, <1>8 DEF Frame, Touches
<1>10. LanInv(u.st)
  BY <1>1, <1>9 DEF LanInv
<1>11. CASE u.err # "ok"
  <2>1. y \in closeAndExit(u.st, u.err)
    BY <1>6, <1>11
  <2>2. /\ y.err = u.err /\ Clean(y.st) /\ y.st.phase = "down"
        /\ y.st.disk = u.st.disk /\ y.st.probes = u.st.probes
        /\ (Talk(y.st) = u.st.lan \/ Talk(y.st) = {}) /\ RulesKept(u.st, y.st)
    <3> DEFINE v == u.st
               err == u.err
    <3>1. v \in MStates /\ KeysExact(v.disk) /\ LanInv(v) /\ Sound(v.pool)
          /\ y \in closeAndExit(v, err)
      BY <1>1, <1>9, <1>10, <2>1
    <3> HIDE DEF v, err
    <3>2. ShutDown(v, y, err)
      BY <3>1, CloseExit
    <3> QED BY <3>2 DEF v, err, ShutDown
  <2>3. o = y
    BY <1>6, <1>11, <2>2
  <2>4. Between(s, y.st)
    BY <1>9, <2>2 DEF Between, Visible, Talk
  <2>5. RulesKept(s, y.st)
    BY <1>9, <2>2 DEF RulesKept
  <2> QED BY <1>9, <2>2, <2>3, <2>4, <2>5 DEF Stepped, Cleaned
<1>12. CASE u.err = "ok"
  <2> DEFINE z == u.st
             t == [z EXCEPT !.todo = rest]
  <2>1. o = Done(t)
    <3>1. y = u /\ z.todo = s.todo
      BY <1>6, <1>9, <1>12
    <3>2. o = Done([z EXCEPT !.todo = Tail(@)])
      BY <1>6, <1>12, <3>1
    <3> QED BY <3>1, <3>2 DEF rest
  <2>2. o.st = t /\ o.err = "ok"
    BY <2>1 DEF Done, Outcome
  <2>3. /\ z \in MStates /\ z.disk = s.disk /\ z.phase = "restoring"
        /\ z.probes = s.probes /\ z.lan = s.lan /\ z.data = s.data
        /\ z.pool.ifaces[p].peers = s.pool.ifaces[p].peers \cup {c.key}
        /\ Touches(s.pool, z.pool, p)
    BY <1>7, <1>8, <1>9, <1>12
  <2> HIDE DEF z
  <2>4. /\ t \in MStates /\ t.todo = rest /\ t.disk = s.disk /\ t.phase = "restoring"
        /\ t.probes = s.probes /\ t.lan = s.lan /\ t.data = s.data /\ t.pool = z.pool
    BY <1>2, <2>3 DEF MStates
  <2> HIDE DEF t
  <2>5. Matches(t.pool, (cs \ ItemsOf(s.todo)) \cup {c})
    <3>1. Matches(s.pool, cs \ ItemsOf(s.todo))
      BY <1>1 DEF RestoreInv, cs
    <3>2. /\ Touches(s.pool, t.pool, effectiveProfile(c)) /\ effectiveProfile(c) \in Profiles
          /\ t.pool.ifaces[effectiveProfile(c)].peers
               = s.pool.ifaces[effectiveProfile(c)].peers \cup {c.key}
      BY <1>3, <2>3, <2>4 DEF p
    <3> QED BY <3>1, <3>2, MatchesAdded
  <2>6. (cs \ ItemsOf(s.todo)) \cup {c} = cs \ ItemsOf(rest)
    BY <1>2, <1>3
  <2>7. RestoreInv(t)
    BY <1>1, <1>2, <1>3, <2>4, <2>5, <2>6 DEF RestoreInv, cs
  <2>8. Clean(t)
    <3>1. LanInv(t) /\ Sound(t.pool)
      BY <1>1, <2>3, <2>4 DEF LanInv, Touches
    <3> QED BY <1>1, <2>4, <2>7, <3>1 DEF Inv, Clean
  <2>9. Between(s, t)
    BY <2>4 DEF Between, Visible, Talk
  <2>10. RulesKept(s, t)
    BY <1>1, <2>3, <2>4, SameRules DEF Touches
  <2> QED BY <2>2, <2>4, <2>8, <2>9, <2>10 DEF Stepped, Cleaned
<1> QED BY <1>11, <1>12

\* The last step of a start: the LAN is rebuilt, an older file is replaced, and
\* the server is up; or the process ends.
LEMMA FinishRestoreEffect ==
  ASSUME NEW s, NEW dirt, Inv(s, dirt), s.phase = "restoring", s.todo = <<>>,
         NEW o \in finishRestore(s)
  PROVE  Stepped(s, o)
<1> DEFINE d == restoreData(s.disk)
           pairs == lanPairs(Normalized(s.disk))
<1>1. /\ s \in MStates /\ Sound(s.pool) /\ KeysExact(s.disk) /\ LanInv(s)
      /\ s.disk \in Files /\ s.data = d /\ GoodFile(d) /\ s.lan \subseteq pairs
      /\ Matches(s.pool, ClientsOf(d) \ ItemsOf(s.todo))
  BY DEF Inv, MStates, RestoreInv, LanInv
<1>2. /\ d \in Files /\ ClientsOf(d) = Normalized(s.disk) /\ Normalized(d) = ClientsOf(d)
      /\ KeysExact(d) /\ (~needsNormalization(s.disk) => d = s.disk)
  BY <1>1, RestoredFile, GoodClients DEF GoodFile
<1>3. ItemsOf(s.todo) = {}
  BY DEF ItemsOf
<1>4. Matches(s.pool, ClientsOf(d))
  <2>1. ClientsOf(d) \ ItemsOf(s.todo) = ClientsOf(d)
    BY <1>3
  <2> QED BY <1>1, <2>1
<1>5. ClientsOf(d) \subseteq Clients
  BY <1>1, GoodClients
<1>6. lanPairs(ClientsOf(s.data)) = pairs
  BY <1>1, <1>2
<1>7. pairs \subseteq Open
  BY <1>2, <1>5, PairsType
<1> DEFINE first == Then(rebuildLAN(s), LAMBDA z : IF needsNormalization(z.disk)
                                                     THEN Save(z, z.data) ELSE {Done(z)})
           second == Catch(first, LAMBDA x : closeAndExit(x.st, x.err))
<1>8. PICK w \in second :
        o \in IF w.err = "ok"
              THEN {Done([w.st EXCEPT !.phase = "up", !.clients = ClientsOf(w.st.data),
                                      !.usedIPs = {c.addr : c \in ClientsOf(w.st.data)}])}
              ELSE {w}
  BY DEF finishRestore, Then
<1>81. \E y : y \in first /\ w \in IF y.err = "ok" THEN {y} ELSE closeAndExit(y.st, y.err)
  BY <1>8 DEF Catch
<1> HIDE DEF second
<1>82. PICK y : y \in first /\ w \in IF y.err = "ok" THEN {y} ELSE closeAndExit(y.st, y.err)
  BY <1>81
<1>83. \E r : /\ r \in rebuildLAN(s)
              /\ y \in IF r.err = "ok"
                         THEN IF needsNormalization(r.st.disk) THEN Save(r.st, r.st.data)
                              ELSE {Done(r.st)}
                         ELSE {r}
  BY <1>82 DEF Then
<1> HIDE DEF first, d, pairs
<1>84. PICK r : /\ r \in rebuildLAN(s)
                /\ y \in IF r.err = "ok"
                           THEN IF needsNormalization(r.st.disk) THEN Save(r.st, r.st.data)
                                ELSE {Done(r.st)}
                           ELSE {r}
  BY <1>83
<1>9. /\ r \in rebuildLAN(s)
      /\ y \in IF r.err = "ok"
                 THEN IF needsNormalization(r.st.disk) THEN Save(r.st, r.st.data) ELSE {Done(r.st)}
                 ELSE {r}
      /\ w \in IF y.err = "ok" THEN {y} ELSE closeAndExit(y.st, y.err)
      /\ o \in IF w.err = "ok"
                 THEN {Done([w.st EXCEPT !.phase = "up", !.clients = ClientsOf(w.st.data),
                                         !.usedIPs = {c.addr : c \in ClientsOf(w.st.data)}])}
                 ELSE {w}
  BY <1>8, <1>82, <1>84
<1>10. \/ /\ r.err = "ok" /\ r.st \in MStates /\ r.st.lan = pairs /\ r.st.pool = s.pool
          /\ r.st.disk = s.disk /\ r.st.data = d /\ r.st.phase = "restoring"
          /\ r.st.probes = s.probes
       \/ r.err = "rebuildLAN" /\ Idle(s, r.st)
  <2>1. CASE r.st = [s EXCEPT !.lan = lanPairs(ClientsOf(s.data))] /\ r.err = "ok"
    <3>1. r.st = [s EXCEPT !.lan = pairs]
      BY <1>6, <2>1
    <3> QED BY <1>1, <1>7, <2>1, <3>1 DEF MStates
  <2> QED BY <1>1, <1>9, <2>1, RebuildEffect
<1>11. /\ y.st \in MStates /\ y.st.phase = "restoring" /\ y.st.data = d
       /\ y.st.probes = s.probes /\ SameBooks(s.pool, y.st.pool)
       /\ y.st.lan = s.lan \/ y.st.lan = pairs
       /\ y.st.disk = s.disk \/ y.st.disk = d
       /\ y.err = "ok" => y.st.disk = d
  <2>1. CASE r.err # "ok"
    <3>1. y = r /\ Idle(s, y.st)
      BY <1>9, <1>10, <2>1
    <3> QED BY <1>1, <1>10, <2>1, <3>1 DEF Idle, Frame
  <2>2. CASE r.err = "ok"
    <3> DEFINE z == r.st
    <3>1. /\ z \in MStates /\ z.lan = pairs /\ z.pool = s.pool
          /\ z.disk = s.disk /\ z.data = d /\ z.phase = "restoring" /\ z.probes = s.probes
      BY <1>10, <2>2
    <3>2. y \in IF needsNormalization(z.disk) THEN Save(z, z.data) ELSE {Done(z)}
      BY <1>9, <2>2
    <3>3. SameBooks(s.pool, z.pool)
      BY <1>1, <3>1, SameBooksRefl DEF Sound
    <3> HIDE DEF z
    <3>4. CASE needsNormalization(z.disk)
      <4>1. y \in Save(z, d)
        BY <3>1, <3>2, <3>4
      <4>2. \/ /\ y.err = "ok" /\ y.st \in MStates
               /\ y.st.disk = d /\ y.st.pool = z.pool /\ y.st.lan = z.lan
               /\ y.st.phase = z.phase /\ y.st.probes = z.probes /\ y.st.data = z.data
            \/ y.err = "save" /\ Idle(z, y.st)
        BY <1>2, <3>1, <4>1, Saved
      <4> QED BY <3>1, <3>3, <4>2 DEF Idle, Frame
    <3>5. CASE ~needsNormalization(z.disk)
      <4>1. y.st = z /\ d = s.disk
        BY <1>2, <3>1, <3>2, <3>5 DEF Done, Outcome
      <4> QED BY <3>1, <3>3, <4>1
    <3> QED BY <3>4, <3>5
  <2> QED BY <2>1, <2>2
<1>12. /\ Sound(y.st.pool) /\ Unruled(y.st.pool) = Unruled(s.pool)
       /\ Normalized(y.st.disk) = Normalized(s.disk) /\ KeysExact(y.st.disk) /\ LanInv(y.st)
  <2>1. Sound(y.st.pool) /\ Unruled(y.st.pool) = Unruled(s.pool)
    BY <1>1, <1>11, SameSound DEF SameBooks
  <2>2. Normalized(y.st.disk) = Normalized(s.disk) /\ KeysExact(y.st.disk)
    BY <1>1, <1>2, <1>11
  <2>3. y.st.lan \subseteq pairs
    BY <1>1, <1>11
  <2> QED BY <2>1, <2>2, <2>3 DEF LanInv, pairs
<1>13. Talk(s) = s.lan /\ Visible(s) = Normalized(s.disk)
  BY DEF Talk, Visible
<1>14. CASE y.err # "ok"
  <2>1. w \in closeAndExit(y.st, y.err)
    BY <1>9, <1>14
  <2> DEFINE v == y.st
             err == y.err
  <2>2. v \in MStates /\ KeysExact(v.disk) /\ LanInv(v) /\ Sound(v.pool)
        /\ w \in closeAndExit(v, err)
    BY <1>11, <1>12, <2>1
  <2> HIDE DEF v, err
  <2>3. ShutDown(v, w, err)
    BY <2>2, CloseExit
  <2>4. /\ w.err = err /\ Clean(w.st) /\ w.st.phase = "down" /\ RulesKept(v, w.st)
        /\ w.st.disk = v.disk /\ w.st.probes = v.probes /\ (Talk(w.st) = v.lan \/ Talk(w.st) = {})
    BY <2>3 DEF ShutDown
  <2>5. o = w
    <3>1. w.err # "ok"
      BY <1>14, <2>4 DEF err
    <3> QED BY <1>9, <3>1
  <2>6. Talk(w.st) = s.lan \/ Talk(w.st) = pairs \/ Talk(w.st) = {}
    BY <1>11, <2>4 DEF v
  <2>7. Visible(w.st) = Visible(s)
    BY <1>12, <1>13, <2>4 DEF Visible, v
  <2>8. Between(s, w.st)
    BY <1>13, <2>6, <2>7 DEF Between, pairs
  <2>9. RulesKept(s, w.st) /\ w.st.probes = s.probes
    BY <1>11, <1>12, <2>4 DEF RulesKept, v
  <2> QED BY <2>4, <2>5, <2>8, <2>9 DEF Stepped, Cleaned
<1>15. CASE y.err = "ok"
  <2> DEFINE z == y.st
             cs == ClientsOf(d)
             ips == {c.addr : c \in cs}
             t == [z EXCEPT !.phase = "up", !.clients = cs, !.usedIPs = ips]
  <2>1. o = Done(t)
    <3>1. w = y /\ z.data = d
      BY <1>9, <1>11, <1>15
    <3> QED BY <1>9, <1>15, <3>1
  <2>2. o.st = t /\ o.err = "ok"
    BY <2>1 DEF Done, Outcome
  <2>3. /\ z \in MStates /\ z.data = d /\ z.disk = d /\ z.probes = s.probes
        /\ SameBooks(s.pool, z.pool) /\ Sound(z.pool) /\ Unruled(z.pool) = Unruled(s.pool)
        /\ z.lan = s.lan \/ z.lan = pairs
    BY <1>11, <1>12, <1>15
  <2>4. cs \subseteq Clients /\ ips \subseteq Addrs
    BY <1>5 DEF Clients
  <2>5. ips = {c.addr : c \in cs} /\ cs = ClientsOf(d)
    OBVIOUS
  <2> HIDE DEF z, cs, ips
  <2>6. /\ t \in MStates /\ t.phase = "up" /\ t.clients = cs /\ t.usedIPs = ips
        /\ t.data = d /\ t.disk = d /\ t.probes = s.probes /\ t.pool = z.pool /\ t.lan = z.lan
    BY <2>3, <2>4 DEF MStates
  <2> HIDE DEF t
  <2>7. Matches(t.pool, t.clients)
    BY <1>4, <2>3, <2>5, <2>6 DEF Matches, SameBooks
  <2>8. UpInv(t, FALSE)
    BY <1>1, <2>5, <2>6, <2>7 DEF UpInv
  <2>9. LanInv(t)
    <3>1. t.lan \subseteq pairs
      BY <1>1, <2>3, <2>6
    <3> QED BY <1>2, <2>6, <3>1 DEF LanInv, pairs
  <2>10. Clean(t)
    BY <1>2, <2>3, <2>6, <2>8, <2>9 DEF Inv, Clean
  <2>11. Between(s, t)
    <3>1. Visible(t) = Visible(s)
      BY <1>2, <1>13, <2>5, <2>6 DEF Visible
    <3>2. Talk(t) = s.lan \/ Talk(t) = pairs
      BY <2>3, <2>6 DEF Talk
    <3> QED BY <1>13, <3>1, <3>2 DEF Between, pairs
  <2>12. RulesKept(s, t)
    BY <1>1, <2>3, <2>6, SameRules
  <2> QED BY <2>2, <2>6, <2>10, <2>11, <2>12 DEF Stepped, Cleaned, Bad
<1> QED BY <1>14, <1>15

\* A process that is told to stop closes its pool.
LEMMA ShutdownEffect ==
  ASSUME NEW s, NEW dirt, Inv(s, dirt), s.phase = "up", NEW err, NEW o \in closeAndExit(s, err)
  PROVE  Stepped(s, o) /\ o.st.phase # "up"
<1>1. /\ s \in MStates /\ KeysExact(s.disk) /\ LanInv(s) /\ Sound(s.pool)
  BY DEF Inv
<1>2. ShutDown(s, o, err)
  BY <1>1, CloseExit
<1>3. /\ o.err = err /\ Clean(o.st) /\ o.st.phase = "down" /\ RulesKept(s, o.st)
      /\ o.st.disk = s.disk /\ o.st.probes = s.probes
      /\ Talk(o.st) = s.lan \/ Talk(o.st) = {}
  BY <1>2 DEF ShutDown
<1>4. Visible(o.st) = Visible(s)
  <2>1. s.data = s.disk /\ GoodFile(s.data) /\ s.clients = ClientsOf(s.data)
    BY UpFacts
  <2>2. Normalized(s.disk) = s.clients
    BY <2>1, GoodClients
  <2> QED BY <1>3, <2>2 DEF Visible
<1>5. Talk(s) = s.lan
  BY DEF Talk
<1> QED BY <1>3, <1>4, <1>5 DEF Stepped, Between, Cleaned

\* A process that dies leaves the host and the file.
LEMMA CrashEffect ==
  ASSUME NEW s, NEW dirt, Inv(s, dirt), s.phase # "down"
  PROVE  LET t == Exited(s)
         IN Clean(t) /\ t.phase = "down" /\ Between(s, t) /\ t.probes = s.probes
<1> DEFINE t == Exited(s)
<1>1. /\ s \in MStates /\ KeysExact(s.disk) /\ LanInv(s)
  BY DEF Inv
<1>2. /\ Clean(t) /\ t.phase = "down" /\ t.disk = s.disk /\ t.probes = s.probes
      /\ Talk(t) = Talk(s) \/ Talk(t) = {}
  BY <1>1, ExitInv
<1> HIDE DEF t
<1>3. Visible(t) = Visible(s)
  <2>1. CASE s.phase = "up"
    <3>1. s.data = s.disk /\ GoodFile(s.data) /\ s.clients = ClientsOf(s.data)
      BY <2>1, UpFacts
    <3>2. Normalized(s.disk) = s.clients
      BY <3>1, GoodClients
    <3> QED BY <1>2, <2>1, <3>2 DEF Visible
  <2>2. CASE s.phase # "up"
    BY <1>2, <2>2 DEF Visible
  <2> QED BY <2>1, <2>2
<1> QED BY <1>2, <1>3 DEF Between, t

\* A host that restarts has the file and nothing else.
LEMMA RebootEffect ==
  ASSUME NEW s, NEW dirt, Inv(s, dirt)
  PROVE  LET t == NewProcess("down", EmptyPool, Open, s.disk, 0)
         IN /\ Clean(t) /\ t.phase = "down" /\ Between(s, t) /\ t.probes = 0
            /\ Unruled(t.pool) = 0
<1> DEFINE t == NewProcess("down", EmptyPool, Open, s.disk, 0)
<1>1. s.disk \in Files /\ KeysExact(s.disk)
  BY DEF Inv, MStates
<1>2. Sound(EmptyPool) /\ EmptyPool.kpeers = {} /\ Unruled(EmptyPool) = 0 /\ EmptyPool \in States
  BY EmptySound DEF Sound
<1>3. NoData \in Files
  BY DEF NoData, Stored, Files
<1>4. /\ t \in MStates /\ t.phase = "down" /\ t.pool = EmptyPool /\ t.disk = s.disk /\ t.probes = 0
  BY <1>1, <1>2, <1>3 DEF NewProcess, MStates
<1> HIDE DEF t
<1>5. DownInv(t) /\ LanInv(t)
  BY <1>2, <1>4 DEF DownInv, LanInv, EmptyPool
<1>6. Clean(t)
  BY <1>1, <1>2, <1>4, <1>5 DEF Inv, Clean
<1>7. Visible(t) = Visible(s)
  <2>1. CASE s.phase = "up"
    <3>1. s.data = s.disk /\ GoodFile(s.data) /\ s.clients = ClientsOf(s.data)
      BY <2>1, UpFacts
    <3>2. Normalized(s.disk) = s.clients
      BY <3>1, GoodClients
    <3> QED BY <1>4, <2>1, <3>2 DEF Visible
  <2>2. CASE s.phase # "up"
    BY <1>4, <2>2 DEF Visible
  <2> QED BY <2>1, <2>2
<1>8. Talk(t) = {}
  BY <1>2, <1>4 DEF Talk
<1> QED BY <1>2, <1>4, <1>6, <1>7, <1>8 DEF Between, t

-----------------------------------------------------------------------------
(***************************************************************************)
(* The steps of the specification.                                         *)
(***************************************************************************)
\* A call starts from the same state, with no command failed yet.
LEMMA FreshInv ==
  ASSUME NEW dirt, Inv(m, dirt)
  PROVE  /\ Inv(Fresh, dirt)
         /\ Fresh.phase = m.phase /\ Fresh.clients = m.clients /\ Fresh.lan = m.lan
         /\ Fresh.probes = m.probes /\ Fresh.todo = m.todo /\ Fresh.disk = m.disk
         /\ Talk(Fresh) = Talk(m) /\ Visible(Fresh) = Visible(m)
         /\ Unruled(Fresh.pool) = Unruled(m.pool)
<1> DEFINE q == [m.pool EXCEPT !.faults = 0]
           t == [m EXCEPT !.pool = q]
<1>1. m \in MStates /\ Sound(m.pool) /\ m.pool \in States
  BY DEF Inv, Sound
<1>2. Fresh = t
  BY DEF Fresh
<1>3. /\ q \in States /\ q.ifaces = m.pool.ifaces /\ q.orphans = m.pool.orphans
      /\ q.masq = m.pool.masq /\ q.masqAdded = m.pool.masqAdded /\ q.kpeers = m.pool.kpeers
  BY <1>1 DEF States
<1> HIDE DEF q
<1>4. /\ t \in MStates /\ t.pool = q /\ t.phase = m.phase /\ t.lan = m.lan /\ t.disk = m.disk
      /\ t.probes = m.probes /\ t.data = m.data /\ t.todo = m.todo /\ t.clients = m.clients
      /\ t.usedIPs = m.usedIPs
  BY <1>1, <1>3 DEF MStates
<1> HIDE DEF t
<1>5. SameBooks(m.pool, q) /\ Unruled(q) = Unruled(m.pool)
  BY <1>3 DEF SameBooks, Unruled
<1>6. Sound(q)
  BY <1>1, <1>5, SameSound
<1>7. KeysExact(t.disk) /\ LanInv(t)
  BY <1>3, <1>4 DEF Inv, LanInv
<1>8. /\ t.phase = "up" => UpInv(t, dirt)
      /\ t.phase = "restoring" => RestoreInv(t)
      /\ t.phase = "down" => DownInv(t)
  <2>1. \A cs : Matches(q, cs) <=> Matches(m.pool, cs)
    BY <1>3 DEF Matches
  <2>2. CASE t.phase = "up"
    BY <1>4, <2>1, <2>2 DEF Inv, UpInv
  <2>3. CASE t.phase = "restoring"
    BY <1>4, <2>1, <2>3 DEF Inv, RestoreInv
  <2>4. CASE t.phase = "down"
    BY <1>3, <1>4, <2>4 DEF Inv, DownInv
  <2> QED BY <2>2, <2>3, <2>4
<1>9. Inv(t, dirt)
  BY <1>4, <1>6, <1>7, <1>8 DEF Inv
<1>10. Talk(t) = Talk(m) /\ Visible(t) = Visible(m)
  BY <1>3, <1>4 DEF Talk, Visible
<1> QED BY <1>2, <1>4, <1>5, <1>9, <1>10

\* The step returns outcome o of operation op.
Returned(op, o) ==
  /\ m' = o.st
  /\ last' = [op |-> op, err |-> o.err]
  /\ dirty' = (o.st.phase = "up" /\ (dirty \/ o.err \in Bad))

\* Return takes one of the outcomes.
LEMMA ReturnOne ==
  ASSUME NEW op, NEW outcomes, Return(op, outcomes)
  PROVE  \E o \in outcomes : Returned(op, o)
BY DEF Return, Returned, Bad

\* A key that is new is no client's.
LEMMA KeyIsNew ==
  ASSUME NEW dirt, Inv(m, dirt), m.phase = "up", NEW key \in NewKeys
  PROVE  key \in Keys /\ \A x \in m.clients : x.key # key
<1>1. m.clients = ClientsOf(m.disk)
  BY DEF Inv, UpInv
<1> QED BY <1>1 DEF NewKeys

\* What a call to create a client does.
LEMMA CreateStep ==
  ASSUME ManagerInv, Create
  PROVE  \E o : /\ Returned("create", o)
                /\ \/ Aborted(Fresh, o)
                   \/ \E c, d : /\ Committed(Fresh, o.st, d) /\ Isolated(o)
                                /\ \A x \in m.clients :
                                     x.id # c.id /\ x.key # c.key /\ x.addr # c.addr
                                /\ ClientsOf(d) = m.clients \cup {c}
<1>1. m.phase = "up" /\ Inv(m, dirty)
  BY DEF Create, Serving, ManagerInv
<1>2. PICK id \in IDs, ver \in Versions, var \in Overrides, port \in Requests,
           group \in Groups, extra \in Extras, key \in NewKeys :
        Return("create", CreateClient(Fresh, [id |-> id, ver |-> ver, var |-> var, port |-> port,
                                              group |-> group, extra |-> extra], key))
  BY DEF Create
<1> DEFINE r == [id |-> id, ver |-> ver, var |-> var, port |-> port, group |-> group,
                 extra |-> extra]
           s == Fresh
<1>3. r \in CreateRequests
  BY DEF CreateRequests
<1>4. PICK o \in CreateClient(s, r, key) : Returned("create", o)
  BY <1>2, ReturnOne
<1>5. Inv(s, dirty) /\ s.phase = "up" /\ s.clients = m.clients
  BY <1>1, FreshInv
<1>6. key \in Keys /\ \A x \in s.clients : x.key # key
  BY <1>1, <1>5, KeyIsNew
<1> HIDE DEF r, s
<1>7. \/ Aborted(s, o)
      \/ \E c, d : /\ Committed(s, o.st, d) /\ Isolated(o)
                   /\ \A x \in s.clients : x.id # c.id /\ x.key # c.key /\ x.addr # c.addr
                   /\ ClientsOf(d) = s.clients \cup {c}
  BY <1>3, <1>4, <1>5, <1>6, CreateEffect
<1> QED BY <1>4, <1>5, <1>7 DEF s

\* What a call to update a client does.
LEMMA UpdateStep ==
  ASSUME ManagerInv, Update
  PROVE  \E o : /\ Returned("update", o)
                /\ \/ Aborted(Fresh, o)
                   \/ \E c \in m.clients, next \in Clients :
                        Replaces(next, c) /\ Updated(Fresh, o, c, next)
<1>1. m.phase = "up" /\ Inv(m, dirty)
  BY DEF Update, Serving, ManagerInv
<1>2. PICK id \in IDs, ver \in Versions, extra \in Extras, params \in Replacements :
        Return("update", UpdateClient(Fresh, [id |-> id, ver |-> ver, extra |-> extra,
                                              params |-> params]))
  BY DEF Update
<1> DEFINE r == [id |-> id, ver |-> ver, extra |-> extra, params |-> params]
           s == Fresh
<1>3. r \in UpdateRequests
  BY DEF UpdateRequests
<1>4. PICK o \in UpdateClient(s, r) : Returned("update", o)
  BY <1>2, ReturnOne
<1>5. Inv(s, dirty) /\ s.phase = "up" /\ s.clients = m.clients
  BY <1>1, FreshInv
<1> HIDE DEF r, s
<1>6. \/ Aborted(s, o)
      \/ \E c \in s.clients, next \in Clients : Replaces(next, c) /\ Updated(s, o, c, next)
  BY <1>3, <1>4, <1>5, UpdateEffect
<1> QED BY <1>4, <1>5, <1>6 DEF s

\* What a call to regenerate the parameters of a client does.
LEMMA RegenerateStep ==
  ASSUME ManagerInv, Regenerate
  PROVE  \E o : /\ Returned("regenerate", o)
                /\ \/ Aborted(Fresh, o)
                   \/ \E c \in m.clients, next \in Clients :
                        Replaces(next, c) /\ Updated(Fresh, o, c, next)
<1>1. m.phase = "up" /\ Inv(m, dirty)
  BY DEF Regenerate, Serving, ManagerInv
<1>2. PICK id \in IDs, var \in Variants, hk \in HeaderKeys :
        Return("regenerate", RegenerateAWGParams(Fresh, id, var, hk))
  BY DEF Regenerate, NewHeaderKeys
<1> DEFINE s == Fresh
<1>3. PICK o \in RegenerateAWGParams(s, id, var, hk) : Returned("regenerate", o)
  BY <1>2, ReturnOne
<1>4. Inv(s, dirty) /\ s.phase = "up" /\ s.clients = m.clients
  BY <1>1, FreshInv
<1> HIDE DEF s
<1>5. \/ Aborted(s, o)
      \/ \E c \in s.clients, next \in Clients : Replaces(next, c) /\ Updated(s, o, c, next)
  BY <1>3, <1>4, RegenerateEffect
<1> QED BY <1>3, <1>4, <1>5 DEF s

\* What a call to group clients does.
LEMMA GroupStep ==
  ASSUME ManagerInv, Group
  PROVE  \E o : /\ Returned("group", o)
                /\ \/ Aborted(Fresh, o)
                   \/ \E ids, group, d : /\ Committed(Fresh, o.st, d) /\ Isolated(o)
                                         /\ Chosen(group) /\ ids # {} /\ ids \subseteq ClientIDs(m)
                                         /\ ClientsOf(d) = {inGroup(c, ids, group) : c \in m.clients}
<1>1. m.phase = "up" /\ Inv(m, dirty)
  BY DEF Group, Serving, ManagerInv
<1> DEFINE some == (SUBSET IDs) \ {{}}
           named == Groups \ {""}
<1>21. \E ids \in some, group \in named : Return("group", UpdateLANGroup(Fresh, ids, group))
  BY Zenon DEF Group
<1>22. (\A ids \in some : ids # {}) /\ \A group \in named : Chosen(group)
  BY DEF Chosen
<1> HIDE DEF some, named
<1>2. \E ids, group : /\ ids # {} /\ Chosen(group)
                      /\ Return("group", UpdateLANGroup(Fresh, ids, group))
  BY <1>21, <1>22
<1>3. PICK ids, group : /\ ids # {} /\ Chosen(group)
                        /\ Return("group", UpdateLANGroup(Fresh, ids, group))
  BY <1>2
<1> DEFINE s == Fresh
<1>4. PICK o \in UpdateLANGroup(s, ids, group) : Returned("group", o)
  BY <1>3, ReturnOne
<1>5. Inv(s, dirty) /\ s.phase = "up" /\ s.clients = m.clients
  BY <1>1, FreshInv
<1> HIDE DEF s
<1>6. \/ Aborted(s, o)
      \/ \E d : /\ Committed(s, o.st, d) /\ Isolated(o) /\ ids \subseteq ClientIDs(s)
                /\ ClientsOf(d) = {inGroup(c, ids, group) : c \in s.clients}
  BY <1>3, <1>4, <1>5, GroupEffect
<1>7. ClientIDs(s) = ClientIDs(m)
  BY <1>5 DEF ClientIDs
<1> QED BY <1>3, <1>4, <1>5, <1>6, <1>7 DEF s

\* What a call to delete a client does.
LEMMA DeleteStep ==
  ASSUME ManagerInv, Delete
  PROVE  \E o : /\ Returned("delete", o)
                /\ \/ Aborted(Fresh, o)
                   \/ \E c \in m.clients : \E d : /\ Committed(Fresh, o.st, d) /\ Isolated(o)
                                                  /\ ClientsOf(d) = m.clients \ {c}
<1>1. m.phase = "up" /\ Inv(m, dirty)
  BY DEF Delete, Serving, ManagerInv
<1>2. PICK id \in IDs : Return("delete", DeleteClient(Fresh, id))
  BY DEF Delete
<1> DEFINE s == Fresh
<1>3. PICK o \in DeleteClient(s, id) : Returned("delete", o)
  BY <1>2, ReturnOne
<1>4. Inv(s, dirty) /\ s.phase = "up" /\ s.clients = m.clients
  BY <1>1, FreshInv
<1> HIDE DEF s
<1>5. \/ Aborted(s, o)
      \/ \E c \in s.clients : \E d : /\ Committed(s, o.st, d) /\ Isolated(o)
                                     /\ ClientsOf(d) = s.clients \ {c}
  BY <1>3, <1>4, DeleteEffect
<1> QED BY <1>3, <1>4, <1>5 DEF s

\* What a step between calls does: no record changes, and what may be left on
\* the host is known.
Rested(op, o) ==
  /\ Returned(op, o) /\ op \notin Calls
  /\ Clean(o.st) /\ Between(m, o.st)
  /\ Cleaned(m.probes, o) \/ o.st.probes = 0
  /\ op = "crash" \/ RulesKept(m, o.st)

\* The steps of a process that starts or stops.
LEMMA SteppedRests ==
  ASSUME ManagerInv, NEW op, NEW o, Returned(op, o), op \notin Calls, Stepped(Fresh, o)
  PROVE  Rested(op, o)
<1>1. Inv(m, dirty)
  BY DEF ManagerInv
<1>2. /\ Fresh.probes = m.probes /\ Talk(Fresh) = Talk(m) /\ Visible(Fresh) = Visible(m)
      /\ Unruled(Fresh.pool) = Unruled(m.pool)
  BY <1>1, FreshInv
<1>3. Between(m, o.st) /\ RulesKept(m, o.st) /\ Cleaned(m.probes, o) /\ Clean(o.st)
  BY <1>2 DEF Stepped, Between, RulesKept
<1> QED BY <1>3 DEF Rested

\* Every step that is not a call rests.
LEMMA RestStep ==
  ASSUME ManagerInv, Start \/ RestorePeer \/ FinishRestore \/ Shutdown \/ Crash \/ Reboot
  PROVE  \E op, o : Rested(op, o)
<1>1. Inv(m, dirty)
  BY DEF ManagerInv
<1> DEFINE s == Fresh
<1>2. /\ Inv(s, dirty) /\ s.phase = m.phase /\ s.todo = m.todo /\ s.probes = m.probes
      /\ Talk(s) = Talk(m) /\ Visible(s) = Visible(m) /\ s.disk = m.disk
      /\ Unruled(s.pool) = Unruled(m.pool)
  BY <1>1, FreshInv
<1>3. CASE Start
  <2>1. PICK o \in start(s) : Returned("start", o)
    BY <1>3, ReturnOne DEF Start
  <2>2. s.phase = "down"
    BY <1>2, <1>3 DEF Start
  <2> HIDE DEF s
  <2>3. Stepped(s, o)
    BY <1>2, <2>1, <2>2, StartEffect
  <2> QED BY <2>1, <2>3, SteppedRests DEF Calls, s
<1>4. CASE RestorePeer
  <2>1. PICK o \in restorePeer(s) : Returned("restore", o)
    BY <1>4, ReturnOne DEF RestorePeer
  <2>2. s.phase = "restoring" /\ s.todo # <<>>
    BY <1>2, <1>4 DEF RestorePeer
  <2> HIDE DEF s
  <2>3. Stepped(s, o)
    BY <1>2, <2>1, <2>2, RestorePeerEffect
  <2> QED BY <2>1, <2>3, SteppedRests DEF Calls, s
<1>5. CASE FinishRestore
  <2>1. PICK o \in finishRestore(s) : Returned("restore", o)
    BY <1>5, ReturnOne DEF FinishRestore
  <2>2. s.phase = "restoring" /\ s.todo = <<>>
    BY <1>2, <1>5 DEF FinishRestore
  <2> HIDE DEF s
  <2>3. Stepped(s, o)
    BY <1>2, <2>1, <2>2, FinishRestoreEffect
  <2> QED BY <2>1, <2>3, SteppedRests DEF Calls, s
<1>6. CASE Shutdown
  <2> DEFINE err == "ok"
  <2>1. PICK cause \in {"shutdown", "serverError"} : Return(cause, closeAndExit(s, err))
    BY <1>6 DEF Shutdown
  <2>2. PICK o \in closeAndExit(s, err) : Returned(cause, o)
    BY <2>1, ReturnOne
  <2>3. s.phase = "up"
    BY <1>2, <1>6 DEF Shutdown
  <2> HIDE DEF s, err
  <2>4. Stepped(s, o)
    BY <1>2, <2>2, <2>3, ShutdownEffect
  <2>5. cause \notin Calls
    BY <2>1 DEF Calls
  <2> QED BY <2>2, <2>4, <2>5, SteppedRests DEF s
<1>7. CASE Crash
  <2> DEFINE t == Exited(s)
  <2>1. PICK o \in {Done(t)} : Returned("crash", o)
    BY <1>7, ReturnOne DEF Crash
  <2>2. s.phase # "down"
    BY <1>2, <1>7 DEF Crash
  <2>3. o.st = t
    BY <2>1 DEF Done, Outcome
  <2> HIDE DEF s
  <2>4. Clean(t) /\ t.phase = "down" /\ Between(s, t) /\ t.probes = s.probes
    BY <1>2, <2>2, CrashEffect
  <2> HIDE DEF t
  <2>5. Between(m, t) /\ t.probes = m.probes
    BY <1>2, <2>4 DEF Between
  <2> QED BY <2>1, <2>3, <2>4, <2>5 DEF Rested, Calls, Cleaned
<1>8. CASE Reboot
  <2> DEFINE t == NewProcess("down", EmptyPool, Open, m.disk, 0)
  <2>1. PICK o \in {Done(t)} : Returned("reboot", o)
    BY <1>8, ReturnOne DEF Reboot
  <2>2. o.st = t
    BY <2>1 DEF Done, Outcome
  <2>3. Clean(t) /\ t.phase = "down" /\ Between(m, t) /\ t.probes = 0 /\ Unruled(t.pool) = 0
    BY <1>1, RebootEffect
  <2> HIDE DEF t
  <2>4. RulesKept(m, t)
    <3>1. Unruled(m.pool) \in Int /\ Unruled(m.pool) >= 0
      BY <1>1 DEF Inv, Sound, States, Unruled
    <3> QED BY <2>3, <3>1 DEF RulesKept
  <2> QED BY <2>1, <2>2, <2>3, <2>4 DEF Rested, Calls
<1> QED BY <1>3, <1>4, <1>5, <1>6, <1>7, <1>8

\* What a call does in any case: it ends with an error, or it makes new data
\* its memory and its file.
Answered(op, o) ==
  /\ Returned(op, o) /\ op \in Calls /\ m.phase = "up"
  /\ \/ Aborted(Fresh, o)
     \/ /\ o.err \in {"ok", "rebuildLAN"} /\ o.st.lan \subseteq lanPairs(o.st.clients)
        /\ \E d : Committed(Fresh, o.st, d)

\* Isolation opens the LAN to the clients of one group at most.
LEMMA IsolatedLan ==
  ASSUME NEW o, Isolated(o)
  PROVE  o.err \in {"ok", "rebuildLAN"} /\ o.st.lan \subseteq lanPairs(o.st.clients)
BY DEF Isolated

\* A pair that may talk.
LEMMA PairOf ==
  ASSUME NEW cs, NEW z
  PROVE  z \in lanPairs(cs) <=> \E x, y \in cs : x.group = y.group /\ z = <<x.addr, y.addr>>
<1>1. ASSUME z \in lanPairs(cs)
      PROVE  \E x, y \in cs : x.group = y.group /\ z = <<x.addr, y.addr>>
  BY <1>1 DEF lanPairs
<1>2. ASSUME NEW x \in cs, NEW y \in cs, x.group = y.group, z = <<x.addr, y.addr>>
      PROVE  z \in lanPairs(cs)
  <2> DEFINE w == <<x, y>>
  <2>1. w \in {u \in cs \X cs : u[1].group = u[2].group} /\ z = <<w[1].addr, w[2].addr>>
    BY <1>2
  <2> HIDE DEF w
  <2> QED BY <2>1 DEF lanPairs
<1> QED BY <1>1, <1>2

\* An update changes nobody's address or group.
LEMMA SamePairs ==
  ASSUME NEW cs, NEW c \in cs, NEW next, Replaces(next, c),
         NEW ds, ds = (cs \ {c}) \cup {next}
  PROVE  lanPairs(ds) = lanPairs(cs)
<1>1. next.addr = c.addr /\ next.group = c.group
  BY DEF Replaces
<1>2. ASSUME NEW x \in cs, NEW y \in cs, x.group = y.group
      PROVE  \E a, b \in ds : a.group = b.group /\ a.addr = x.addr /\ b.addr = y.addr
  <2>1. \E a \in ds : a.addr = x.addr /\ a.group = x.group
    BY <1>1
  <2>2. \E b \in ds : b.addr = y.addr /\ b.group = y.group
    BY <1>1
  <2> QED BY <1>2, <2>1, <2>2
<1>3. ASSUME NEW x \in ds, NEW y \in ds, x.group = y.group
      PROVE  \E a, b \in cs : a.group = b.group /\ a.addr = x.addr /\ b.addr = y.addr
  <2>1. \E a \in cs : a.addr = x.addr /\ a.group = x.group
    BY <1>1
  <2>2. \E b \in cs : b.addr = y.addr /\ b.group = y.group
    BY <1>1
  <2> QED BY <1>3, <2>1, <2>2
<1>4. lanPairs(cs) \subseteq lanPairs(ds)
  <2> SUFFICES ASSUME NEW z \in lanPairs(cs) PROVE z \in lanPairs(ds)
    OBVIOUS
  <2>1. PICK x \in cs, y \in cs : x.group = y.group /\ z = <<x.addr, y.addr>>
    BY PairOf
  <2>2. PICK a \in ds, b \in ds : a.group = b.group /\ a.addr = x.addr /\ b.addr = y.addr
    BY <1>2, <2>1
  <2>3. z = <<a.addr, b.addr>>
    BY <2>1, <2>2
  <2> QED BY <2>2, <2>3, PairOf
<1>5. lanPairs(ds) \subseteq lanPairs(cs)
  <2> SUFFICES ASSUME NEW z \in lanPairs(ds) PROVE z \in lanPairs(cs)
    OBVIOUS
  <2>1. PICK x \in ds, y \in ds : x.group = y.group /\ z = <<x.addr, y.addr>>
    BY PairOf
  <2>2. PICK a \in cs, b \in cs : a.group = b.group /\ a.addr = x.addr /\ b.addr = y.addr
    BY <1>3, <2>1
  <2>3. z = <<a.addr, b.addr>>
    BY <2>1, <2>2
  <2> QED BY <2>2, <2>3, PairOf
<1> QED BY <1>4, <1>5

\* Updates are answered.
LEMMA UpdateAnswers ==
  ASSUME ManagerInv, m.phase = "up", NEW op \in Calls, NEW o, Returned(op, o),
         NEW c \in m.clients, NEW next \in Clients, Replaces(next, c), Updated(Fresh, o, c, next)
  PROVE  Answered(op, o)
<1>1. Inv(m, dirty) /\ m.lan \subseteq lanPairs(m.clients)
  BY UpFacts DEF ManagerInv
<1>2. Fresh.lan = m.lan /\ Fresh.clients = m.clients
  BY <1>1, FreshInv
<1>3. PICK d : Committed(Fresh, o.st, d) /\ ClientsOf(d) = (m.clients \ {c}) \cup {next}
  BY <1>2 DEF Updated
<1>4. o.st.clients = (m.clients \ {c}) \cup {next}
  BY <1>3 DEF Committed
<1>5. lanPairs(o.st.clients) = lanPairs(m.clients)
  BY <1>4, SamePairs
<1>6. o.err = "ok" /\ o.st.lan = m.lan
  BY <1>2 DEF Updated
<1> QED BY <1>1, <1>3, <1>5, <1>6 DEF Answered

\* Every call is answered.
LEMMA CallStep ==
  ASSUME ManagerInv, Create \/ Update \/ Regenerate \/ Group \/ Delete
  PROVE  \E op, o : Answered(op, o)
<1>1. m.phase = "up"
  BY DEF Create, Update, Regenerate, Group, Delete, Serving
<1>2. CASE Create
  <2>1. PICK o : /\ Returned("create", o)
                 /\ Aborted(Fresh, o) \/ \E d : Committed(Fresh, o.st, d) /\ Isolated(o)
    BY <1>2, CreateStep
  <2> QED BY <1>1, <2>1, IsolatedLan DEF Answered, Calls
<1>3. CASE Update
  <2>1. PICK o : /\ Returned("update", o)
                 /\ \/ Aborted(Fresh, o)
                    \/ \E c \in m.clients, next \in Clients :
                         Replaces(next, c) /\ Updated(Fresh, o, c, next)
    BY <1>3, UpdateStep
  <2>2. CASE Aborted(Fresh, o)
    BY <1>1, <2>1, <2>2 DEF Answered, Calls
  <2> QED BY <1>1, <2>1, <2>2, UpdateAnswers DEF Calls
<1>4. CASE Regenerate
  <2>1. PICK o : /\ Returned("regenerate", o)
                 /\ \/ Aborted(Fresh, o)
                    \/ \E c \in m.clients, next \in Clients :
                         Replaces(next, c) /\ Updated(Fresh, o, c, next)
    BY <1>4, RegenerateStep
  <2>2. CASE Aborted(Fresh, o)
    BY <1>1, <2>1, <2>2 DEF Answered, Calls
  <2> QED BY <1>1, <2>1, <2>2, UpdateAnswers DEF Calls
<1>5. CASE Group
  <2>1. PICK o : /\ Returned("group", o)
                 /\ Aborted(Fresh, o) \/ \E d : Committed(Fresh, o.st, d) /\ Isolated(o)
    BY <1>5, GroupStep
  <2> QED BY <1>1, <2>1, IsolatedLan DEF Answered, Calls
<1>6. CASE Delete
  <2>1. PICK o : /\ Returned("delete", o)
                 /\ Aborted(Fresh, o) \/ \E d : Committed(Fresh, o.st, d) /\ Isolated(o)
    BY <1>6, DeleteStep
  <2> QED BY <1>1, <2>1, IsolatedLan DEF Answered, Calls
<1> QED BY <1>2, <1>3, <1>4, <1>5, <1>6

\* Every step is a call or a step between calls.
LEMMA NextStep ==
  ASSUME ManagerInv, Next
  PROVE  \E op, o : Answered(op, o) \/ Rested(op, o)
BY CallStep, RestStep DEF Next

\* An invariant of an intact pool is one of a pool that may not be.
LEMMA WeakerInv ==
  ASSUME NEW s, Clean(s), NEW dirt
  PROVE  Inv(s, dirt)
BY DEF Clean, Inv, UpInv

\* The manager starts in order.
LEMMA InitInv ==
  ASSUME Init
  PROVE  ManagerInv
<1>1. PICK d \in InitDisks : m = NewProcess("down", EmptyPool, Open, d, 0)
  BY DEF Init
<1>2. d \in Files /\ KeysExact(d)
  BY <1>1, FileAssumption
<1>3. Sound(EmptyPool) /\ EmptyPool.kpeers = {} /\ EmptyPool \in States
  BY EmptySound DEF Sound
<1>4. NoData \in Files
  BY DEF NoData, Stored, Files
<1>5. m \in MStates /\ m.phase = "down" /\ m.pool = EmptyPool /\ m.disk = d
  BY <1>1, <1>2, <1>3, <1>4 DEF NewProcess, MStates
<1>6. DownInv(m) /\ LanInv(m)
  BY <1>3, <1>5 DEF DownInv, LanInv, EmptyPool
<1>7. Inv(m, dirty)
  BY <1>2, <1>3, <1>5, <1>6 DEF Inv
<1> QED BY <1>7 DEF ManagerInv, Init

\* Every step keeps the manager in order.
LEMMA StepInv ==
  ASSUME ManagerInv, [Next]_vars
  PROVE  ManagerInv'
<1>1. CASE UNCHANGED vars
  BY <1>1 DEF vars, ManagerInv, Inv, UpInv, RestoreInv, DownInv, LanInv
<1>2. CASE Next
  <2>1. PICK op, o : Answered(op, o) \/ Rested(op, o)
    BY <1>2, NextStep
  <2> DEFINE t == o.st
  <2>2. m' = t /\ dirty' = (t.phase = "up" /\ (dirty \/ o.err \in Bad))
    BY <2>1 DEF Answered, Rested, Returned
  <2>3. dirty' \in BOOLEAN /\ dirty \in BOOLEAN /\ Inv(m, dirty)
    BY <2>2 DEF ManagerInv
  <2>4. Inv(t, dirty')
    <3>1. CASE Rested(op, o)
      <4>1. Clean(t)
        BY <3>1 DEF Rested
      <4> HIDE DEF t
      <4> QED BY <4>1, WeakerInv
    <3>2. CASE Answered(op, o)
      <4> DEFINE s == Fresh
      <4>1. Inv(s, dirty) /\ s.phase = "up"
        BY <2>3, <3>2, FreshInv DEF Answered
      <4>2. CASE Aborted(s, o)
        <5> HIDE DEF s
        <5>1. Inv(o.st, dirty \/ o.err \in Bad)
          BY <2>3, <4>1, <4>2, AbortedInv
        <5>2. t.phase = "up"
          BY <4>1, <4>2 DEF Aborted, Frame
        <5>3. dirty' = (dirty \/ o.err \in Bad)
          BY <2>2, <5>2
        <5> QED BY <5>1, <5>3
      <4>3. CASE ~Aborted(s, o)
        <5>1. PICK d : Committed(s, t, d)
          BY <3>2, <4>3 DEF Answered
        <5>2. t.lan \subseteq lanPairs(t.clients) /\ o.err \notin Bad
          BY <3>2, <4>3 DEF Answered, Bad
        <5> HIDE DEF s, t
        <5>3. Inv(t, dirty)
          BY <2>3, <4>1, <5>1, <5>2, CommittedInv
        <5>4. t.phase = "up"
          BY <4>1, <5>1 DEF Committed
        <5>5. dirty' = dirty
          BY <2>2, <2>3, <5>2, <5>4
        <5> QED BY <5>3, <5>5
      <4> QED BY <4>2, <4>3
    <3> QED BY <2>1, <3>1, <3>2
  <2> HIDE DEF t
  <2> QED BY <2>2, <2>3, <2>4 DEF ManagerInv, Inv, UpInv, RestoreInv, DownInv, LanInv
<1> QED BY <1>1, <1>2

-----------------------------------------------------------------------------
(***************************************************************************)
(* Theorems.                                                               *)
(***************************************************************************)
\* The manager is in order after every call, failure, crash and restart.
THEOREM Invariance == Spec => []ManagerInv
<1>1. Init => ManagerInv
  BY InitInv
<1>2. ManagerInv /\ [Next]_vars => ManagerInv'
  BY StepInv
<1> QED BY <1>1, <1>2, PTL DEF Spec

\* Memory, prospective data and clients.json never drift apart.
THEOREM MemoryIsTheFile == Spec => []MemoryMatchesDisk
<1>1. ManagerInv => MemoryMatchesDisk
  <2> SUFFICES ASSUME ManagerInv, m.phase = "up"
               PROVE  /\ m.data = m.disk
                      /\ m.clients = ClientsOf(m.disk)
                      /\ m.usedIPs = {c.addr : c \in m.clients}
                      /\ \A i, j \in DOMAIN m.disk.clients :
                           LET c == m.disk.clients[i]
                               e == m.disk.clients[j]
                           IN i # j => c.id # e.id /\ c.key # e.key /\ c.addr # e.addr
    BY DEF MemoryMatchesDisk
  <2> QED BY DEF ManagerInv, Inv, UpInv, GoodFile, Unique
<1> QED BY <1>1, Invariance, PTL

\* A pool whose rollbacks worked has exactly the peers of the stored clients.
THEOREM PoolHasTheClients == Spec => []PoolMatchesClients
<1>1. ManagerInv => PoolMatchesClients
  BY DEF ManagerInv, Inv, UpInv, Matches, KeysOn, PoolMatchesClients
<1> QED BY <1>1, Invariance, PTL

\* No failure, crash or restart opens the LAN beyond the groups of the file.
THEOREM LanIsClosed == Spec => []LanFailsClosed
<1>1. ManagerInv => LanFailsClosed
  BY DEF ManagerInv, Inv, LanInv, Normalized, LanFailsClosed
<1> QED BY <1>1, Invariance, PTL

\* No header key is lost while a client refers to it, and none is kept after.
THEOREM HeaderKeysSwept == Spec => []HeaderKeysExact
<1>1. ManagerInv => HeaderKeysExact
  BY DEF ManagerInv, Inv, HeaderKeysExact
<1> QED BY <1>1, Invariance, PTL

\* Only a probe interface whose deletion failed stays, and the error says so.
THEOREM ProbesCleaned == Spec => ProbeRemoved
<1> DEFINE Removed == m'.probes > m.probes =>
                        \/ last'.err = "cleanup"
                        \/ last'.err = "runtimeCleanup" /\ m'.pool.faults > 1
<1>1. ManagerInv /\ [Next]_vars => [Removed]_vars
  <2> SUFFICES ASSUME ManagerInv, Next, m'.probes > m.probes
               PROVE  \/ last'.err = "cleanup"
                      \/ last'.err = "runtimeCleanup" /\ m'.pool.faults > 1
    OBVIOUS
  <2>1. m.probes \in Nat
    BY DEF ManagerInv, Inv, MStates
  <2>2. PICK op, o : Answered(op, o) \/ Rested(op, o)
    BY NextStep
  <2>3. m' = o.st /\ last'.err = o.err
    <3>1. m' = o.st /\ last' = [op |-> op, err |-> o.err]
      BY <2>2 DEF Answered, Rested, Returned
    <3> QED BY <3>1
  <2>4. CASE Answered(op, o)
    <3>1. Fresh.probes = m.probes
      BY FreshInv DEF ManagerInv
    <3>2. o.st.probes = Fresh.probes
      BY <2>4 DEF Answered, Aborted, Frame, Committed
    <3> QED BY <2>1, <2>3, <3>1, <3>2
  <2>5. CASE Rested(op, o)
    BY <2>1, <2>3, <2>5 DEF Rested, Cleaned
  <2> QED BY <2>2, <2>4, <2>5
<1> QED BY <1>1, Invariance, PTL DEF Spec, ProbeRemoved

\* Calls, starts and stops leave no MASQUERADE rule behind unless a command fails.
THEOREM RulesAreFew == Spec => RulesDoNotPileUp
<1> DEFINE Few == RulesLeft(m') > RulesLeft(m) => last'.op = "crash" \/ m'.pool.faults > 0
<1>1. ManagerInv /\ [Next]_vars => [Few]_vars
  <2> SUFFICES ASSUME ManagerInv, Next, RulesLeft(m') > RulesLeft(m)
               PROVE  last'.op = "crash" \/ m'.pool.faults > 0
    OBVIOUS
  <2>1. PICK op, o : Answered(op, o) \/ Rested(op, o)
    BY NextStep
  <2>2. m' = o.st /\ last'.op = op
    <3>1. m' = o.st /\ last' = [op |-> op, err |-> o.err]
      BY <2>1 DEF Answered, Rested, Returned
    <3> QED BY <3>1
  <2>3. RulesLeft(m) = Unruled(m.pool) /\ RulesLeft(m') = Unruled(m'.pool)
    BY DEF RulesLeft, Unruled
  <2>4. Unruled(o.st.pool) > Unruled(m.pool)
    BY <2>2, <2>3
  <2>5. CASE Answered(op, o)
    <3>1. Unruled(Fresh.pool) = Unruled(m.pool) /\ Unruled(m.pool) \in Int
      BY FreshInv DEF ManagerInv, Inv, Sound, States, Unruled
    <3>2. Unruled(o.st.pool) = Unruled(Fresh.pool)
      BY <2>5 DEF Answered, Aborted, Committed
    <3> QED BY <2>4, <3>1, <3>2
  <2>6. CASE Rested(op, o)
    BY <2>2, <2>4, <2>6 DEF Rested, RulesKept
  <2> QED BY <2>1, <2>5, <2>6
<1> QED BY <1>1, Invariance, PTL DEF Spec, RulesDoNotPileUp

-----------------------------------------------------------------------------
(***************************************************************************)
(* Refinement.                                                             *)
(***************************************************************************)
\* What callers are told: the refinement mapping of ClientStore's reply.
Reply(l) ==
  IF l.op \notin Calls THEN [op |-> "none", res |-> "ok"]
  ELSE [op |-> l.op,
        res |-> IF l.err = "ok" THEN "ok"
                ELSE IF l.err = "rebuildLAN" THEN "committed" ELSE "error"]

\* A call that failed, as callers of the store see it.
LEMMA SeesError ==
  ASSUME NEW op \in Calls, Reply(last') = [op |-> op, res |-> "error"],
         Visible(m') = Visible(m), Talk(m') = Talk(m) \/ Talk(m') = {}
  PROVE  Store!StoreError
BY DEF Store!StoreError, Reply, Visible, Talk, Normalized, Calls

\* A step between calls, as callers of the store see it.
LEMMA SeesIdle ==
  ASSUME Reply(last') = [op |-> "none", res |-> "ok"], Visible(m') = Visible(m),
         Talk(m') \in {Talk(m), {}, lanPairs(Visible(m))}
  PROVE  Store!StoreIdle
BY DEF Store!StoreIdle, Store!SameGroup, Reply, Visible, Talk, Normalized, lanPairs

\* The records callers may see.
Records ==
  [id: IDs, ver: Versions, key: Keys, addr: Addrs, group: IDs \cup (Groups \ {""}),
   var: Variants \cup {Inherit}, port: Nat, extra: Extras, hk: HeaderKeys \cup {NoKey}]

\* A file a running server holds has no other records.
LEMMA GoodRecords ==
  ASSUME NEW d, GoodFile(d)
  PROVE  ClientsOf(d) \subseteq Records
<1> SUFFICES ASSUME NEW c \in ClientsOf(d) PROVE c \in Records
  OBVIOUS
<1>1. c \in Clients /\ c.ver \in Versions /\ normalizeClient(c) = c
  BY FileClients DEF GoodFile, GoodClient
<1>2. c.group \in IDs \cup (Groups \ {""})
  <2>1. c.group = "" => c.group = c.id
    BY <1>1 DEF normalizeClient, Clients
  <2>2. c.group \in IDs \cup Groups \cup {""} /\ c.id \in IDs
    BY <1>1 DEF Clients
  <2> QED BY <2>1, <2>2
<1> DEFINE gs == IDs \cup (Groups \ {""})
<1>3. c.group \in gs
  BY <1>2
<1> HIDE DEF gs
<1>4. c \in [id: IDs, ver: Versions, key: Keys, addr: Addrs, group: gs,
             var: Variants \cup {Inherit}, port: Nat, extra: Extras, hk: HeaderKeys \cup {NoKey}]
  BY <1>1, <1>3 DEF Clients
<1> QED BY <1>4 DEF Records, gs

\* The LAN was decided by the call, as callers of the store see it.
Decided(op) ==
  \/ Reply(last') = [op |-> op, res |-> "ok"] /\ Talk(m') = lanPairs(Visible(m'))
  \/ Reply(last') = [op |-> op, res |-> "committed"] /\ Talk(m') = {}

\* A client was created, as callers of the store see it.
LEMMA SeesCreate ==
  ASSUME Decided("create"), NEW c \in Records, Visible(m') = Visible(m) \cup {c},
         \A d \in Visible(m) : c.id # d.id /\ c.key # d.key /\ c.addr # d.addr
  PROVE  Store!StoreCreate
<1>1. Store!Isolated("create")
  BY DEF Decided, Store!Isolated, Store!SameGroup, Reply, Visible, Talk, Normalized, lanPairs
<1>2. c \in Visible(m') \cap Records
  OBVIOUS
<1> QED BY <1>1, <1>2 DEF Store!StoreCreate, Records, Visible, Normalized

\* A client was deleted, as callers of the store see it.
LEMMA SeesDelete ==
  ASSUME Decided("delete"), NEW c \in Visible(m), Visible(m') = Visible(m) \ {c}
  PROVE  Store!StoreDelete
<1>1. Store!Isolated("delete")
  BY DEF Decided, Store!Isolated, Store!SameGroup, Reply, Visible, Talk, Normalized, lanPairs
<1> QED BY <1>1 DEF Store!StoreDelete, Visible, Normalized

\* Clients were put in one group, as callers of the store see it.
LEMMA SeesGroup ==
  ASSUME Decided("group"), Visible(m') \subseteq Records,
         NEW some, some \subseteq Visible(m), some # {}, NEW g \in {c.group : c \in Visible(m')},
         Visible(m') = (Visible(m) \ some) \cup {[c EXCEPT !.group = g] : c \in some}
  PROVE  Store!StoreGroup
<1>1. Store!Isolated("group")
  BY DEF Decided, Store!Isolated, Store!SameGroup, Reply, Visible, Talk, Normalized, lanPairs
<1>2. some \in (SUBSET Visible(m)) \ {{}}
  OBVIOUS
<1> QED BY <1>1, <1>2 DEF Store!StoreGroup, Records, Visible, Normalized

\* A client was updated, as callers of the store see it.
LEMMA SeesUpdate ==
  ASSUME NEW op, Reply(last') = [op |-> op, res |-> "ok"], Talk(m') = Talk(m),
         NEW c \in Visible(m), NEW next \in Records, Replaces(next, c),
         Visible(m') = (Visible(m) \ {c}) \cup {next}
  PROVE  Store!StoreUpdate(op)
<1>1. next \in Visible(m') \cap Records
  OBVIOUS
<1> QED BY <1>1 DEF Store!StoreUpdate, Replaces, Records, Reply, Visible, Talk, Normalized

\* What callers see of a call.
LEMMA CallView ==
  ASSUME ManagerInv, m.phase = "up", NEW op \in Calls, NEW o, Returned(op, o),
         Aborted(Fresh, o) \/ \E d : Committed(Fresh, o.st, d)
  PROVE  /\ m' = o.st /\ m'.phase = "up"
         /\ Visible(m) = m.clients /\ Visible(m') = o.st.clients
         /\ Talk(m) = m.lan /\ Talk(m') = o.st.lan
         /\ Reply(last') = [op |-> op, res |-> IF o.err = "ok" THEN "ok"
                                               ELSE IF o.err = "rebuildLAN" THEN "committed"
                                               ELSE "error"]
<1>1. m' = o.st /\ last' = [op |-> op, err |-> o.err]
  BY DEF Returned
<1>2. Fresh.phase = "up"
  BY FreshInv DEF ManagerInv
<1>3. o.st.phase = "up"
  BY <1>2 DEF Aborted, Frame, Committed
<1>4. last'.op = op /\ last'.err = o.err
  BY <1>1
<1>5. Reply(last') = [op |-> op, res |-> IF o.err = "ok" THEN "ok"
                                         ELSE IF o.err = "rebuildLAN" THEN "committed"
                                         ELSE "error"]
  BY <1>4 DEF Reply
<1> QED BY <1>1, <1>3, <1>5 DEF Visible, Talk

\* A call that ends with an error is one of the store's.
LEMMA AbortRefines ==
  ASSUME ManagerInv, m.phase = "up", NEW op \in Calls, NEW o, Returned(op, o), Aborted(Fresh, o)
  PROVE  Store!StoreError
<1>1. /\ Visible(m) = m.clients /\ Visible(m') = o.st.clients
      /\ Talk(m) = m.lan /\ Talk(m') = o.st.lan
      /\ Reply(last') = [op |-> op, res |-> IF o.err = "ok" THEN "ok"
                                            ELSE IF o.err = "rebuildLAN" THEN "committed"
                                            ELSE "error"]
  BY CallView
<1>2. o.err \notin {"ok", "rebuildLAN"} /\ o.st.clients = m.clients
      /\ (o.st.lan = m.lan \/ o.st.lan = {})
  <2>1. Fresh.clients = m.clients /\ Fresh.lan = m.lan
    BY FreshInv DEF ManagerInv
  <2> QED BY <2>1 DEF Aborted, Frame
<1>3. Reply(last') = [op |-> op, res |-> "error"]
  BY <1>1, <1>2
<1> QED BY <1>1, <1>2, <1>3, SeesError

\* A call that decides who may talk.
LEMMA CommitDecides ==
  ASSUME ManagerInv, m.phase = "up", NEW op \in Calls, NEW o, Returned(op, o),
         NEW d, Committed(Fresh, o.st, d), Isolated(o)
  PROVE  /\ Decided(op) /\ Visible(m) = m.clients
         /\ Visible(m') = ClientsOf(d) /\ ClientsOf(d) \subseteq Records
<1>1. /\ Visible(m) = m.clients /\ Visible(m') = o.st.clients
      /\ Talk(m') = o.st.lan
      /\ Reply(last') = [op |-> op, res |-> IF o.err = "ok" THEN "ok"
                                            ELSE IF o.err = "rebuildLAN" THEN "committed"
                                            ELSE "error"]
  BY CallView
<1>2. o.st.clients = ClientsOf(d) /\ GoodFile(d)
  BY DEF Committed
<1>3. Decided(op)
  <2>1. CASE o.err = "ok" /\ o.st.lan = lanPairs(o.st.clients)
    <3>1. Reply(last') = [op |-> op, res |-> "ok"]
      BY <1>1, <2>1
    <3> QED BY <1>1, <2>1, <3>1 DEF Decided
  <2>2. CASE o.err = "rebuildLAN" /\ o.st.lan = {}
    <3>1. Reply(last') = [op |-> op, res |-> "committed"]
      BY <1>1, <2>2
    <3> QED BY <1>1, <2>2, <3>1 DEF Decided
  <2> QED BY <2>1, <2>2 DEF Isolated
<1> QED BY <1>1, <1>2, <1>3, GoodRecords

\* A call that creates a client is one of the store's.
LEMMA CreateRefines ==
  ASSUME ManagerInv, Create
  PROVE  Store!StoreCreate \/ Store!StoreError
<1>1. m.phase = "up" /\ "create" \in Calls
  BY DEF Create, Serving, Calls
<1>2. PICK o : /\ Returned("create", o)
               /\ \/ Aborted(Fresh, o)
                  \/ \E c, d : /\ Committed(Fresh, o.st, d) /\ Isolated(o)
                               /\ \A x \in m.clients :
                                    x.id # c.id /\ x.key # c.key /\ x.addr # c.addr
                               /\ ClientsOf(d) = m.clients \cup {c}
  BY CreateStep
<1>3. CASE Aborted(Fresh, o)
  BY <1>1, <1>2, <1>3, AbortRefines
<1>4. CASE ~Aborted(Fresh, o)
  <2>1. PICK c, d : /\ Committed(Fresh, o.st, d) /\ Isolated(o)
                    /\ \A x \in m.clients : x.id # c.id /\ x.key # c.key /\ x.addr # c.addr
                    /\ ClientsOf(d) = m.clients \cup {c}
    BY <1>2, <1>4
  <2>2. /\ Decided("create") /\ Visible(m) = m.clients
        /\ Visible(m') = ClientsOf(d) /\ ClientsOf(d) \subseteq Records
    BY <1>1, <1>2, <2>1, CommitDecides
  <2> QED BY <2>1, <2>2, SeesCreate
<1> QED BY <1>3, <1>4

\* A call that deletes a client is one of the store's.
LEMMA DeleteRefines ==
  ASSUME ManagerInv, Delete
  PROVE  Store!StoreDelete \/ Store!StoreError
<1>1. m.phase = "up" /\ "delete" \in Calls
  BY DEF Delete, Serving, Calls
<1>2. PICK o : /\ Returned("delete", o)
               /\ \/ Aborted(Fresh, o)
                  \/ \E c \in m.clients : \E d : /\ Committed(Fresh, o.st, d) /\ Isolated(o)
                                                 /\ ClientsOf(d) = m.clients \ {c}
  BY DeleteStep
<1>3. CASE Aborted(Fresh, o)
  BY <1>1, <1>2, <1>3, AbortRefines
<1>4. CASE ~Aborted(Fresh, o)
  <2>0. PICK c \in m.clients : \E d : /\ Committed(Fresh, o.st, d) /\ Isolated(o)
                                      /\ ClientsOf(d) = m.clients \ {c}
    BY <1>2, <1>4
  <2>1. PICK d : /\ Committed(Fresh, o.st, d) /\ Isolated(o)
                 /\ ClientsOf(d) = m.clients \ {c}
    BY <2>0
  <2>2. /\ Decided("delete") /\ Visible(m) = m.clients
        /\ Visible(m') = ClientsOf(d) /\ ClientsOf(d) \subseteq Records
    BY <1>1, <1>2, <2>1, CommitDecides
  <2> QED BY <2>1, <2>2, SeesDelete
<1> QED BY <1>3, <1>4

\* A call that groups clients is one of the store's.
LEMMA GroupRefines ==
  ASSUME ManagerInv, Group
  PROVE  Store!StoreGroup \/ Store!StoreError
<1>1. m.phase = "up" /\ "group" \in Calls
  BY DEF Group, Serving, Calls
<1>2. PICK o : /\ Returned("group", o)
               /\ \/ Aborted(Fresh, o)
                  \/ \E ids, group, d : /\ Committed(Fresh, o.st, d) /\ Isolated(o)
                                        /\ Chosen(group) /\ ids # {} /\ ids \subseteq ClientIDs(m)
                                        /\ ClientsOf(d) = {inGroup(c, ids, group) : c \in m.clients}
  BY GroupStep
<1>3. CASE Aborted(Fresh, o)
  BY <1>1, <1>2, <1>3, AbortRefines
<1>4. CASE ~Aborted(Fresh, o)
  <2>1. PICK ids, group, d : /\ Committed(Fresh, o.st, d) /\ Isolated(o)
                             /\ Chosen(group) /\ ids # {} /\ ids \subseteq ClientIDs(m)
                             /\ ClientsOf(d) = {inGroup(c, ids, group) : c \in m.clients}
    BY <1>2, <1>4
  <2>2. /\ Decided("group") /\ Visible(m) = m.clients
        /\ Visible(m') = ClientsOf(d) /\ ClientsOf(d) \subseteq Records
    BY <1>1, <1>2, <2>1, CommitDecides
  <2> DEFINE some == {c \in m.clients : c.id \in ids}
  <2>3. PICK e \in m.clients : e.id \in ids
    BY <2>1 DEF ClientIDs
  <2>4. ClientsOf(d) = (m.clients \ some) \cup {[c EXCEPT !.group = group] : c \in some}
    BY <2>1 DEF inGroup
  <2>5. group \in {c.group : c \in ClientsOf(d)}
    <3>1. e \in Clients
      BY <1>1, <2>3, UpFacts DEF ManagerInv
    <3>2. [e EXCEPT !.group = group].group = group
      BY <3>1 DEF Clients
    <3>3. [e EXCEPT !.group = group] \in ClientsOf(d)
      BY <2>3, <2>4
    <3> QED BY <3>2, <3>3
  <2>6. some \subseteq Visible(m) /\ some # {}
    BY <2>2, <2>3
  <2> HIDE DEF some
  <2> QED BY <2>2, <2>4, <2>5, <2>6, SeesGroup
<1> QED BY <1>3, <1>4

\* A call that replaces a record is one of the store's.
LEMMA ReplaceRefines ==
  ASSUME ManagerInv, m.phase = "up", NEW op \in Calls, NEW o, Returned(op, o),
         NEW c \in m.clients, NEW next \in Clients, Replaces(next, c), Updated(Fresh, o, c, next)
  PROVE  Store!StoreUpdate(op)
<1>1. Fresh.clients = m.clients /\ Fresh.lan = m.lan
  BY FreshInv DEF ManagerInv
<1>2. PICK d : Committed(Fresh, o.st, d) /\ ClientsOf(d) = (m.clients \ {c}) \cup {next}
  BY <1>1 DEF Updated
<1>3. /\ Visible(m) = m.clients /\ Visible(m') = o.st.clients
      /\ Talk(m) = m.lan /\ Talk(m') = o.st.lan
      /\ Reply(last') = [op |-> op, res |-> IF o.err = "ok" THEN "ok"
                                            ELSE IF o.err = "rebuildLAN" THEN "committed"
                                            ELSE "error"]
  BY <1>2, CallView
<1>4. o.err = "ok" /\ o.st.lan = m.lan
  BY <1>1 DEF Updated
<1>5. Reply(last') = [op |-> op, res |-> "ok"]
  BY <1>3, <1>4
<1>6. o.st.clients = (m.clients \ {c}) \cup {next} /\ next \in Records
  BY <1>2, GoodRecords DEF Committed
<1> QED BY <1>3, <1>4, <1>5, <1>6, SeesUpdate

\* Before the first start callers see the records of the file, and nobody talks.
LEMMA InitRefines ==
  ASSUME Init
  PROVE  Store!StoreInit
<1>1. m.phase = "down" /\ m.pool.kpeers = {} /\ m.disk \in InitDisks
  BY DEF Init, NewProcess, EmptyPool
<1>2. m.disk \in Files
  BY <1>1, FileAssumption
<1>3. Reply(last) = [op |-> "none", res |-> "ok"]
  BY DEF Init, Reply, Calls
<1>4. Normalized(m.disk) \subseteq Records
  <2> SUFFICES ASSUME NEW c \in ClientsOf(m.disk) PROVE normalizeClient(c) \in Records
    BY DEF Normalized
  <2>1. c \in Clients
    BY <1>2, FileClients
  <2> DEFINE gs == IDs \cup (Groups \ {""})
             g == IF c.group = "" THEN c.id ELSE c.group
             v == IF c.ver = "" THEN "2.0" ELSE c.ver
  <2>2. g \in gs /\ v \in Versions
    BY <2>1 DEF Clients, Versions
  <2>3. normalizeClient(c) = [c EXCEPT !.ver = v, !.group = g]
    BY DEF normalizeClient
  <2> HIDE DEF gs, g, v
  <2>4. [c EXCEPT !.ver = v, !.group = g]
          \in [id: IDs, ver: Versions, key: Keys, addr: Addrs, group: gs,
               var: Variants \cup {Inherit}, port: Nat, extra: Extras,
               hk: HeaderKeys \cup {NoKey}]
    BY <2>1, <2>2 DEF Clients
  <2> QED BY <2>3, <2>4 DEF Records, gs
<1> QED BY <1>1, <1>3, <1>4 DEF Store!StoreInit, Reply, Records, Normalized

\* Every step is a step of the store, or one that its callers do not see.
LEMMA StepRefines ==
  ASSUME ManagerInv, [Next]_vars
  PROVE  [Store!StoreNext]_(Store!storeVars)
<1>1. CASE UNCHANGED vars
  BY <1>1 DEF vars, Store!storeVars
<1>2. CASE Create
  BY <1>2, CreateRefines DEF Store!StoreNext
<1>3. CASE Update
  <2>1. m.phase = "up" /\ "update" \in Calls
    BY <1>3 DEF Update, Serving, Calls
  <2>2. PICK o : /\ Returned("update", o)
                 /\ \/ Aborted(Fresh, o)
                    \/ \E c \in m.clients, next \in Clients :
                         Replaces(next, c) /\ Updated(Fresh, o, c, next)
    BY <1>3, UpdateStep
  <2>3. Store!StoreUpdate("update") \/ Store!StoreError
    BY <2>1, <2>2, AbortRefines, ReplaceRefines
  <2> QED BY <2>3 DEF Store!StoreNext
<1>4. CASE Regenerate
  <2>1. m.phase = "up" /\ "regenerate" \in Calls
    BY <1>4 DEF Regenerate, Serving, Calls
  <2>2. PICK o : /\ Returned("regenerate", o)
                 /\ \/ Aborted(Fresh, o)
                    \/ \E c \in m.clients, next \in Clients :
                         Replaces(next, c) /\ Updated(Fresh, o, c, next)
    BY <1>4, RegenerateStep
  <2>3. Store!StoreUpdate("regenerate") \/ Store!StoreError
    BY <2>1, <2>2, AbortRefines, ReplaceRefines
  <2> QED BY <2>3 DEF Store!StoreNext
<1>5. CASE Group
  BY <1>5, GroupRefines DEF Store!StoreNext
<1>6. CASE Delete
  BY <1>6, DeleteRefines DEF Store!StoreNext
<1>7. CASE Start \/ RestorePeer \/ FinishRestore \/ Shutdown \/ Crash \/ Reboot
  <2>1. PICK op, o : Rested(op, o)
    BY <1>7, RestStep
  <2>2. m' = o.st /\ last' = [op |-> op, err |-> o.err] /\ op \notin Calls
    BY <2>1 DEF Rested, Returned
  <2>3. Reply(last') = [op |-> "none", res |-> "ok"]
    BY <2>2 DEF Reply
  <2>4. Visible(m') = Visible(m) /\ Talk(m') \in {Talk(m), {}, lanPairs(Visible(m))}
    BY <2>1, <2>2 DEF Rested, Between
  <2> QED BY <2>3, <2>4, SeesIdle DEF Store!StoreNext
<1> QED BY <1>1, <1>2, <1>3, <1>4, <1>5, <1>6, <1>7 DEF Next

\* The manager implements the client store, whatever fails and whenever the
\* process dies: a call had its whole effect or none, the answer says which, and
\* no restart loses or changes a record.
THEOREM Refinement == Spec => ImplementsStore
<1>1. Init => Store!StoreInit
  BY InitRefines
<1>2. ManagerInv /\ [Next]_vars => [Store!StoreNext]_(Store!storeVars)
  BY StepRefines
<1> QED BY <1>1, <1>2, Invariance, PTL DEF Spec, ImplementsStore, Store!StoreSpec

=============================================================================
