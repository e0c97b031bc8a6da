--------------------------- MODULE SettingsProofs ---------------------------
(***************************************************************************)
(* Proofs about Settings and Params for any clients, requests, server      *)
(* configurations, generated values and limits.                            *)
(*                                                                         *)
(* The argument: a stored object is in a normal form (Stable) that every   *)
(* later normalisation, the one after a restart and the one for the other  *)
(* version included, refuses or keeps; every stored client has a valid     *)
(* profile; and an interface is what the key of its profile says (Shape),  *)
(* so that it does not matter which client it was created for.             *)
(***************************************************************************)
EXTENDS Settings, WellFoundedInduction, TLAPS

(***************************************************************************)
(* DNS servers: the loop that drops repetitions.                           *)
(***************************************************************************)
\* Every nonempty set of naturals has a least element: what the induction over
\* the servers rests on.
LEMMA Least ==
  ASSUME NEW T, T \subseteq Nat, T # {}
  PROVE  \E n \in T : \A k \in T : n <= k
<1> DEFINE R == OpToRel(<, Nat)
<1>1. IsWellFoundedOn(R, Nat)
  BY NatLessThanWellFounded, Zenon
<1>2. \A x, y \in Nat : x < y => <<x, y>> \in R
  BY DEF OpToRel
<1> HIDE DEF R
<1>3. PICK n \in T : \A k \in T : ~(<<k, n>> \in R)
  BY <1>1, WFMin
<1>4. \A k \in T : ~(k < n)
  BY <1>2, <1>3
<1> QED BY <1>4

\* One more server.
Added(out, x) == IF Contains(out, x) THEN out ELSE Append(out, x)

\* f[i] is what is kept of the first i servers, for i up to n.
Kept(s, f, n) == f = [i \in 0..n |-> IF i = 0 THEN <<>> ELSE Added(f[i - 1], s[i])]

Elements(s) == {s[i] : i \in 1..Len(s)}
NoRepeats(s) == \A i, j \in 1..Len(s) : s[i] = s[j] => i = j

\* The recursion of distinct defines a function.
LEMMA KeptExists ==
  ASSUME NEW s, NEW n \in Nat
  PROVE  \E f : Kept(s, f, n)
<1> DEFINE T == {i \in Nat : ~\E f : Kept(s, f, i)}
<1>1. SUFFICES ASSUME T # {} PROVE FALSE
  OBVIOUS
<1>2. T \subseteq Nat
  OBVIOUS
<1> HIDE DEF T
<1>3. PICK l \in T : \A k \in T : l <= k
  BY <1>1, <1>2, Least
<1>4. l \in Nat /\ ~\E f : Kept(s, f, l)
  BY <1>3 DEF T
<1>5. CASE l = 0
  <2> DEFINE f == [i \in 0..0 |-> <<>>]
  <2>1. f = [i \in 0..0 |-> IF i = 0 THEN <<>> ELSE Added(f[i - 1], s[i])]
    OBVIOUS
  <2> QED BY <1>4, <1>5, <2>1 DEF Kept
<1>6. CASE l # 0
  <2>1. l - 1 \in Nat /\ l - 1 \notin T
    BY <1>3, <1>4, <1>6
  <2>2. PICK g : Kept(s, g, l - 1)
    BY <2>1 DEF T
  <2> DEFINE end == Added(g[l - 1], s[l])
             f == [i \in 0..l |-> IF i = l THEN end ELSE g[i]]
  <2>3. \A i \in 0..(l - 1) : g[i] = IF i = 0 THEN <<>> ELSE Added(g[i - 1], s[i])
    BY <2>2 DEF Kept
  <2>4. \A i \in 0..l : f[i] = IF i = 0 THEN <<>> ELSE Added(f[i - 1], s[i])
    <3> TAKE i \in 0..l
    <3>1. CASE i = l
      <4>1. f[i] = end /\ f[i - 1] = g[l - 1]
        BY <1>4, <1>6, <3>1
      <4> QED BY <1>6, <3>1, <4>1
    <3>2. CASE i # l
      <4>1. f[i] = g[i] /\ i \in 0..(l - 1)
        BY <1>4, <3>2
      <4>2. i # 0 => f[i - 1] = g[i - 1]
        BY <1>4, <3>2
      <4> QED BY <2>3, <4>1, <4>2
    <3> QED BY <3>1, <3>2
  <2>5. f = [i \in 0..l |-> IF i = 0 THEN <<>> ELSE Added(f[i - 1], s[i])]
    BY <2>4
  <2> QED BY <1>4, <2>5 DEF Kept
<1> QED BY <1>5, <1>6

\* out is what the loop has kept of the first n elements of s.
KeptSo(X, s, out, n) ==
  /\ out \in Seq(X)
  /\ Len(out) <= n
  /\ {out[i] : i \in 1..Len(out)} = {s[i] : i \in 1..n}
  /\ NoRepeats(out)
  /\ NoRepeats(s) => Len(out) = n /\ \A i \in 1..n : out[i] = s[i]

\* One step of the loop.
LEMMA KeptNext ==
  ASSUME NEW X, NEW s \in Seq(X), NEW n \in 1..Len(s), NEW out, KeptSo(X, s, out, n - 1)
  PROVE  KeptSo(X, s, Added(out, s[n]), n)
<1> DEFINE x == s[n]
<1>1. out \in Seq(X) /\ x \in X /\ Len(out) \in Nat /\ Len(s) \in Nat /\ n \in Nat
  BY DEF KeptSo
<1>2. CASE Contains(out, x)
  <2>1. ~NoRepeats(s)
    <3> SUFFICES ASSUME NoRepeats(s) PROVE FALSE
      OBVIOUS
    <3>1. Len(out) = n - 1 /\ \A i \in 1..(n - 1) : out[i] = s[i]
      BY DEF KeptSo
    <3>2. PICK i \in 1..Len(out) : out[i] = x
      BY <1>2 DEF Contains
    <3>3. i \in 1..(n - 1) /\ s[i] = s[n]
      BY <3>1, <3>2
    <3>4. i \in 1..Len(s) /\ n \in 1..Len(s) /\ i # n
      BY <1>1, <3>3
    <3> QED BY <3>3, <3>4 DEF NoRepeats
  <2>2. Added(out, x) = out
    BY <1>2 DEF Added
  <2>3. {out[i] : i \in 1..Len(out)} = {s[i] : i \in 1..n}
    <3>1. PICK i \in 1..Len(out) : out[i] = x
      BY <1>2 DEF Contains
    <3>2. x \in {s[j] : j \in 1..(n - 1)}
      BY <3>1 DEF KeptSo
    <3>3. {s[j] : j \in 1..n} = {s[j] : j \in 1..(n - 1)} \cup {x}
      BY <1>1
    <3> QED BY <3>2, <3>3 DEF KeptSo
  <2>4. Len(out) <= n
    BY <1>1 DEF KeptSo
  <2> QED BY <2>1, <2>2, <2>3, <2>4 DEF KeptSo
<1>3. CASE ~Contains(out, x)
  <2> DEFINE b == Append(out, x)
  <2>1. /\ b \in Seq(X) /\ Len(b) = Len(out) + 1 /\ b[Len(out) + 1] = x
        /\ \A i \in 1..Len(out) : b[i] = out[i]
    BY <1>1
  <2>2. Added(out, x) = b
    BY <1>3 DEF Added
  <2> HIDE DEF b
  <2>3. NoRepeats(b)
    <3> SUFFICES ASSUME NEW i \in 1..Len(b), NEW j \in 1..Len(b), b[i] = b[j] PROVE i = j
      BY DEF NoRepeats
    <3>1. \A l \in 1..Len(out) : out[l] # x
      BY <1>3 DEF Contains
    <3>2. \A k, l \in 1..Len(out) : out[k] = out[l] => k = l
      BY DEF KeptSo, NoRepeats
    <3>3. CASE i = Len(b) /\ j = Len(b)
      BY <3>3
    <3>4. CASE i # Len(b) /\ j = Len(b)
      BY <1>1, <2>1, <3>1, <3>4
    <3>5. CASE i = Len(b) /\ j # Len(b)
      BY <1>1, <2>1, <3>1, <3>5
    <3>6. CASE i # Len(b) /\ j # Len(b)
      BY <1>1, <2>1, <3>2, <3>6
    <3> QED BY <3>3, <3>4, <3>5, <3>6
  <2>4. ASSUME NoRepeats(s) PROVE Len(b) = n /\ \A i \in 1..n : b[i] = s[i]
    <3>1. Len(out) = n - 1 /\ \A i \in 1..(n - 1) : out[i] = s[i]
      BY <2>4 DEF KeptSo
    <3>2. Len(b) = n /\ b[n] = s[n]
      BY <1>1, <2>1, <3>1
    <3>3. ASSUME NEW i \in 1..n PROVE b[i] = s[i]
      <4>1. CASE i = n
        BY <3>2, <4>1
      <4>2. CASE i # n
        <5>1. i \in 1..(n - 1) /\ i \in 1..Len(out)
          BY <1>1, <3>1, <3>3, <4>2
        <5> QED BY <2>1, <3>1, <5>1
      <4> QED BY <4>1, <4>2
    <3> QED BY <3>2, <3>3
  <2>5. {b[i] : i \in 1..Len(b)} = {s[i] : i \in 1..n}
    <3>1. {b[i] : i \in 1..Len(b)} = {out[i] : i \in 1..Len(out)} \cup {x}
      BY <1>1, <2>1, SMTT(30)
    <3>2. {s[j] : j \in 1..n} = {s[j] : j \in 1..(n - 1)} \cup {x}
      BY <1>1
    <3> QED BY <3>1, <3>2 DEF KeptSo
  <2>6. Len(b) <= n
    BY <1>1, <2>1 DEF KeptSo
  <2> QED BY <2>1, <2>2, <2>3, <2>4, <2>5, <2>6 DEF KeptSo
<1> QED BY <1>2, <1>3

\* No element is left twice, and a list without repetitions stays as it is.
LEMMA Distinct ==
  ASSUME NEW X, NEW s \in Seq(X)
  PROVE  /\ distinct(s) \in Seq(X)
         /\ Len(distinct(s)) <= Len(s)
         /\ Elements(distinct(s)) = Elements(s)
         /\ NoRepeats(distinct(s))
         /\ NoRepeats(s) => distinct(s) = s
<1> DEFINE L == Len(s)
           f == CHOOSE g : Kept(s, g, L)
<1>1. L \in Nat
  OBVIOUS
<1>2. distinct(s) = f[L]
  BY DEF distinct, Kept, Added
<1>3. Kept(s, f, L)
  BY <1>1, KeptExists
<1> HIDE DEF f
<1>4. \A i \in 0..L : f[i] = IF i = 0 THEN <<>> ELSE Added(f[i - 1], s[i])
  BY <1>3 DEF Kept
<1> DEFINE T == {i \in 0..L : ~KeptSo(X, s, f[i], i)}
<1>5. T = {}
  <2>1. SUFFICES ASSUME T # {} PROVE FALSE
    OBVIOUS
  <2>2. T \subseteq Nat
    BY <1>1
  <2> HIDE DEF T
  <2>3. PICK l \in T : \A k \in T : l <= k
    BY <2>1, <2>2, Least
  <2>4. l \in 0..L /\ ~KeptSo(X, s, f[l], l)
    BY <2>3 DEF T
  <2>5. CASE l = 0
    <3>1. f[0] = <<>>
      BY <1>1, <1>4
    <3>2. KeptSo(X, s, <<>>, 0)
      BY DEF KeptSo, NoRepeats
    <3> QED BY <2>4, <2>5, <3>1, <3>2
  <2>6. CASE l # 0
    <3>1. l - 1 \in 0..L /\ l - 1 \notin T /\ l \in 1..L
      BY <1>1, <2>2, <2>3, <2>4, <2>6
    <3>2. KeptSo(X, s, f[l - 1], l - 1)
      BY <3>1 DEF T
    <3>3. f[l] = Added(f[l - 1], s[l])
      BY <1>4, <2>4, <2>6
    <3> QED BY <2>4, <3>1, <3>2, <3>3, KeptNext
  <2> QED BY <2>5, <2>6
<1>6. KeptSo(X, s, f[L], L)
  BY <1>1, <1>5
<1> HIDE DEF L, T
<1>7. /\ distinct(s) \in Seq(X) /\ NoRepeats(distinct(s)) /\ Len(distinct(s)) <= Len(s)
      /\ Elements(distinct(s)) = Elements(s)
  BY <1>2, <1>6 DEF KeptSo, L, Elements
<1>8. ASSUME NoRepeats(s) PROVE distinct(s) = s
  <2>1. Len(distinct(s)) = Len(s) /\ \A i \in 1..Len(s) : distinct(s)[i] = s[i]
    BY <1>2, <1>6, <1>8 DEF KeptSo, L
  <2> QED BY <1>7, <2>1
<1> QED BY <1>7, <1>8

(***************************************************************************)
(* The normal form of stored objects.                                      *)
(***************************************************************************)
Stable(ver, p) ==
  /\ ValidateOverridesForVersion(ver, p)
  /\ p.set = {}
  /\ Canonical(p.timing) = p.timing /\ Canonical(p.keepalive) = p.keepalive
  /\ p.mode = "custom" => NoRepeats(p.servers)

\* A range is put into its canonical form once.
LEMMA CanonicalTwice ==
  ASSUME NEW r \in Uint16Range
  PROVE  /\ Canonical(r) \in Uint16Range
         /\ Canonical(Canonical(r)) = Canonical(r)
         /\ Canonical(r).kind = "unset" <=> r.kind = "unset"
         /\ r.kind = "scalar" => Canonical(r) = r
         /\ r.kind = "unset" => Canonical(r) = r
BY DEF Canonical, Uint16Range, Scalar

\* The marker of an error is not an object anybody sends or stores.
LEMMA NotInvalid == \A p \in AWGParams : p # InvalidParams
<1>1. InvalidParams.cps = "invalid"
  BY DEF InvalidParams, Empty
<1>2. \A p \in AWGParams : p.cps # "invalid"
  BY DEF AWGParams
<1> QED BY <1>1, <1>2

\* An object that is in normal form and valid for the version is left as it is;
\* so is one that differs from it in the fields that are present only.
LEMMA NormalizeKeeps ==
  ASSUME NEW ver \in Versions, NEW p \in AWGParams,
         Canonical(p.timing) = p.timing, Canonical(p.keepalive) = p.keepalive,
         p.mode = "custom" => NoRepeats(p.servers)
  PROVE  /\ ValidateOverridesForVersion(ver, p) =>
              NormalizeOverridesForVersion(ver, p) = [p EXCEPT !.set = {}]
         /\ ~ValidateOverridesForVersion(ver, p) =>
              NormalizeOverridesForVersion(ver, p) = InvalidParams
<1> DEFINE q == IF p.mode = "custom" THEN [p EXCEPT !.servers = distinct(@)] ELSE p
<1>1. p.servers \in Seq(STRING)
  BY DEF AWGParams
<1>2. p.mode = "custom" => distinct(p.servers) = p.servers
  BY <1>1, Distinct
<1>3. q = p
  BY <1>2 DEF AWGParams
<1>4. canonicalizeUnsignedRanges(p) = p
  BY DEF canonicalizeUnsignedRanges, AWGParams
<1> QED BY <1>3, <1>4 DEF NormalizeOverridesForVersion

\* What is accepted is in normal form.
LEMMA NormalizeStable ==
  ASSUME NEW ver \in Versions, NEW p \in AWGParams,
         NormalizeOverridesForVersion(ver, p) # InvalidParams
  PROVE  /\ NormalizeOverridesForVersion(ver, p) \in AWGParams
         /\ Stable(ver, NormalizeOverridesForVersion(ver, p))
<1> DEFINE q == IF p.mode = "custom" THEN [p EXCEPT !.servers = distinct(@)] ELSE p
           r == [canonicalizeUnsignedRanges(q) EXCEPT !.set = {}]
<1>1. p.servers \in Seq(STRING)
  BY DEF AWGParams
<1>2. distinct(p.servers) \in Seq(STRING) /\ NoRepeats(distinct(p.servers))
  BY <1>1, Distinct
<1>3. q \in AWGParams
  BY <1>2 DEF AWGParams
<1>4. q.mode = "custom" => NoRepeats(q.servers)
  BY <1>2 DEF AWGParams
<1>5. ValidateOverridesForVersion(ver, q) /\ NormalizeOverridesForVersion(ver, p) = r
  BY DEF NormalizeOverridesForVersion
<1> HIDE DEF q
<1>6. /\ r = [q EXCEPT !.timing = Canonical(@), !.keepalive = Canonical(@), !.set = {}]
      /\ q.timing \in Uint16Range /\ q.keepalive \in Uint16Range
  BY <1>3 DEF canonicalizeUnsignedRanges, AWGParams
<1>7. /\ Canonical(q.timing) \in Uint16Range /\ Canonical(q.keepalive) \in Uint16Range
      /\ Canonical(Canonical(q.timing)) = Canonical(q.timing)
      /\ Canonical(Canonical(q.keepalive)) = Canonical(q.keepalive)
      /\ q.keepalive.kind \in {"unset", "scalar"} => Canonical(q.keepalive) = q.keepalive
      /\ q.timing = Unset => Canonical(q.timing) = Unset
  BY <1>6, CanonicalTwice DEF Unset
<1>8. r \in AWGParams
  BY <1>3, <1>6, <1>7 DEF AWGParams
<1>9. /\ r.s = q.s /\ r.h = q.h /\ r.j = q.j /\ r.toggle = q.toggle /\ r.cps = q.cps
      /\ r.dns = q.dns /\ r.mode = q.mode /\ r.servers = q.servers /\ r.set = {}
      /\ r.timing = Canonical(q.timing) /\ r.keepalive = Canonical(q.keepalive)
  BY <1>3, <1>6 DEF AWGParams
<1> HIDE DEF r
<1>10. validateDNSSettings(r)
  BY <1>5, <1>9 DEF ValidateOverridesForVersion, validateDNSSettings
<1>11. ValidateOverridesForVersion(ver, r)
  BY <1>5, <1>7, <1>9, <1>10 DEF ValidateOverridesForVersion
<1>12. Stable(ver, r)
  BY <1>4, <1>7, <1>9, <1>11 DEF Stable
<1> QED BY <1>5, <1>8, <1>12

\* What a restart reads and normalises is what was stored.
LEMMA RestoreKeeps ==
  ASSUME NEW ver \in Versions, NEW p \in AWGParams, Stable(ver, p)
  PROVE  NormalizeOverridesForVersion(ver, Reloaded(p)) = p
<1> DEFINE fields == {f \in {"dns", "mode", "servers"} :
                        \/ f = "dns" /\ p.dns # ""
                        \/ f = "mode" /\ p.mode # ""
                        \/ f = "servers" /\ p.servers # <<>>}
           r == [p EXCEPT !.set = fields]
<1>1. Reloaded(p) = r
  BY DEF Reloaded, Stable, AWGParams
<1>2. /\ "dns" \in fields <=> p.dns # ""
      /\ "mode" \in fields <=> p.mode # ""
      /\ "servers" \in fields <=> p.servers # <<>>
      /\ fields \in SUBSET {"dns", "mode", "servers"}
  OBVIOUS
<1> HIDE DEF fields
<1>3. r \in AWGParams
  BY <1>2 DEF AWGParams
<1>4. /\ r.s = p.s /\ r.h = p.h /\ r.j = p.j /\ r.toggle = p.toggle /\ r.cps = p.cps
      /\ r.dns = p.dns /\ r.mode = p.mode /\ r.servers = p.servers /\ r.set = fields
      /\ r.timing = p.timing /\ r.keepalive = p.keepalive
      /\ [r EXCEPT !.set = {}] = [p EXCEPT !.set = {}]
  BY DEF AWGParams
<1>5. [p EXCEPT !.set = {}] = p
  BY DEF Stable, AWGParams
<1> HIDE DEF r
<1>6. validateDNSSettings(r)
  BY <1>2, <1>4 DEF Stable, ValidateOverridesForVersion, validateDNSSettings
<1>7. ValidateOverridesForVersion(ver, r)
  BY <1>4, <1>6 DEF Stable, ValidateOverridesForVersion
<1>8. NormalizeOverridesForVersion(ver, r) = [r EXCEPT !.set = {}]
  <2>1. /\ Canonical(r.timing) = r.timing /\ Canonical(r.keepalive) = r.keepalive
        /\ r.mode = "custom" => NoRepeats(r.servers)
    BY <1>4 DEF Stable
  <2> QED BY <1>3, <1>7, <2>1, NormalizeKeeps
<1> QED BY <1>1, <1>4, <1>5, <1>8

\* The next normalisation, for the same version or the other, keeps or refuses it.
LEMMA StableKept ==
  ASSUME NEW ver \in Versions, NEW p \in AWGParams, Stable(ver, p), NEW other \in Versions
  PROVE  /\ NormalizeOverridesForVersion(other, p) \in {p, InvalidParams}
         /\ NormalizeOverridesForVersion(ver, p) = p
<1>1. [p EXCEPT !.set = {}] = p
  BY DEF Stable, AWGParams
<1> QED BY <1>1, NormalizeKeeps DEF Stable

(***************************************************************************)
(* Effective parameters and valid profiles.                                *)
(***************************************************************************)
\* The defaults that configurations and generated values give have Go's types.
LEMMA BaseTypes ==
  ASSUME NEW e \in Envs, NEW gen \in Defaults, NEW ver \in Versions
  PROVE  /\ base(e, gen, ver).s \in [1..4 -> Int]
         /\ base(e, gen, ver).h \in Headers
         /\ base(e, gen, ver).j \in [1..3 -> Int]
<1> DEFINE p == [Empty EXCEPT !.j = e.j, !.cps = e.cps, !.dns = "d"]
<1>1. gen[ver] \in AWGParams /\ gen["2.0"] \in AWGParams /\ gen["3.1"] \in AWGParams
  BY InputAssumption DEF Versions
<1>2. e.j \in [1..3 -> Int] /\ e.s3 \in Int /\ e.s4 \in Int
  BY InputAssumption
<1>3. p.j = e.j
  BY DEF Empty
<1>4. CASE ver = "2.0"
  <2>1. /\ base(e, gen, ver).h = gen["2.0"].h
        /\ base(e, gen, ver).s = <<gen["2.0"].s[1], gen["2.0"].s[2], e.s3, e.s4>>
        /\ base(e, gen, ver).j = e.j
    BY <1>4 DEF base, Empty
  <2> DEFINE g == gen["2.0"]
  <2>2. g.s \in [1..4 -> Int] /\ g.h \in Headers
    BY <1>1 DEF AWGParams
  <2> HIDE DEF g
  <2>3. g.s[1] \in Int /\ g.s[2] \in Int /\ g.h \in Headers
    BY <2>2
  <2> QED BY <1>2, <2>1, <2>3 DEF g
<1>5. CASE ver = "3.1"
  <2>1. /\ base(e, gen, ver).h = gen["3.1"].h
        /\ base(e, gen, ver).s = gen["3.1"].s
        /\ base(e, gen, ver).j = e.j
    BY <1>5 DEF base, Empty
  <2> QED BY <1>1, <1>2, <2>1 DEF AWGParams
<1> QED BY <1>4, <1>5 DEF Versions

\* So have the effective parameters, each of them an override or a default.
LEMMA EffectiveTypes ==
  ASSUME NEW e \in Envs, NEW gen \in Defaults, NEW ver \in Versions, NEW p \in AWGParams
  PROVE  LET f == effectiveParamsForVersion(e, gen, ver, p)
             b == base(e, gen, ver)
         IN /\ f.s \in [1..4 -> Int]
            /\ f.h \in Headers
            /\ f.j \in [1..3 -> Int]
            /\ \A i \in 1..4 : f.s[i] = IF p.s[i] = 0 THEN b.s[i] ELSE p.s[i]
            /\ \A i \in 1..4 : f.h[i] = IF p.h[i] = <<>> THEN b.h[i] ELSE p.h[i]
            /\ \A i \in 1..3 : f.j[i] = IF p.j[i] = 0 THEN b.j[i] ELSE p.j[i]
<1> DEFINE f == effectiveParamsForVersion(e, gen, ver, p)
           b == base(e, gen, ver)
<1>1. /\ f.s = [i \in 1..4 |-> IF p.s[i] = 0 THEN b.s[i] ELSE p.s[i]]
      /\ f.h = [i \in 1..4 |-> IF p.h[i] = <<>> THEN b.h[i] ELSE p.h[i]]
      /\ f.j = [i \in 1..3 |-> IF p.j[i] = 0 THEN b.j[i] ELSE p.j[i]]
  BY DEF effectiveParamsForVersion
<1>2. b.s \in [1..4 -> Int] /\ b.h \in Headers /\ b.j \in [1..3 -> Int]
  BY BaseTypes
<1>3. p.s \in [1..4 -> Int] /\ p.h \in Headers /\ p.j \in [1..3 -> Int]
  BY DEF AWGParams
<1> HIDE DEF f, b
<1>4. f.s \in [1..4 -> Int] /\ f.j \in [1..3 -> Int]
  <2>1. [i \in 1..4 |-> IF p.s[i] = 0 THEN b.s[i] ELSE p.s[i]] \in [1..4 -> Int]
    BY <1>2, <1>3
  <2>2. [i \in 1..3 |-> IF p.j[i] = 0 THEN b.j[i] ELSE p.j[i]] \in [1..3 -> Int]
    BY <1>2, <1>3
  <2> QED BY <1>1, <2>1, <2>2, Zenon
<1>5. f.h \in Headers
  <2>1. [i \in 1..4 |-> IF p.h[i] = <<>> THEN b.h[i] ELSE p.h[i]] \in Headers
    BY <1>2, <1>3 DEF Headers
  <2> QED BY <1>1, <2>1, Zenon
<1> QED BY <1>1, <1>4, <1>5 DEF f, b

\* What a peer can tell apart in a valid profile.
Distinguishable(ver, p) ==
  LET values(i) == p.h[i][1]..p.h[i][2]
  IN /\ \A i, j \in 1..4 : values(i) # {} /\ (i # j => values(i) \cap values(j) = {})
     /\ p.s[2] # p.s[1] + Gap
     /\ p.j[1] > 0 => 0 < p.j[2] /\ p.j[2] < p.j[3]
     /\ ver = "3.1" => \A i \in 1..4 : p.s[i] >= MinS31

\* The validation of a profile is strong enough for that.
LEMMA ValidDistinguishable ==
  ASSUME NEW ver \in Versions, NEW p, p.h \in Headers, ValidateProfileForVersion(ver, p)
  PROVE  Distinguishable(ver, p)
<1>1. ASSUME NEW i \in 1..4
      PROVE  p.h[i][1] \in Nat /\ p.h[i][2] \in Nat /\ p.h[i][1] <= p.h[i][2]
  <2>1. p.h[i] \in Nat \X Nat
    BY DEF ValidateProfileForVersion, Headers
  <2>2. p.h[i][1] <= p.h[i][2]
    BY DEF ValidateProfileForVersion, ValidateOverridesForVersion
  <2> QED BY <2>1, <2>2
<1>2. ASSUME NEW i \in 1..4, NEW j \in 1..4, i # j
      PROVE  p.h[i][2] < p.h[j][1] \/ p.h[j][2] < p.h[i][1]
  <2>1. disjointHeaders(p.h)
    BY DEF ValidateProfileForVersion
  <2> QED BY <1>2, <2>1 DEF disjointHeaders
<1>3. ASSUME NEW i \in 1..4 PROVE p.h[i][1]..p.h[i][2] # {}
  <2>1. p.h[i][1] \in p.h[i][1]..p.h[i][2]
    BY <1>1
  <2> QED BY <2>1
<1>4. ASSUME NEW i \in 1..4, NEW j \in 1..4, i # j
      PROVE  (p.h[i][1]..p.h[i][2]) \cap (p.h[j][1]..p.h[j][2]) = {}
  BY <1>1, <1>2, <1>4
<1>5. /\ p.s[2] # p.s[1] + Gap
      /\ p.j[1] > 0 => 0 < p.j[2] /\ p.j[2] < p.j[3]
      /\ ver = "3.1" => \A i \in 1..4 : p.s[i] >= MinS31
  BY DEF ValidateProfileForVersion
<1> QED BY <1>3, <1>4, <1>5 DEF Distinguishable

(***************************************************************************)
(* Generated values.                                                       *)
(***************************************************************************)
\* Headers in their tiers, as both generators draw them.
InTiers(h) ==
  /\ h \in Headers
  /\ \A i \in 1..4 : /\ h[i] \in Nat \X Nat /\ h[i][1] <= h[i][2]
                     /\ Tiers[i].min <= h[i][1] /\ h[i][2] < Tiers[i].max

\* S values that replace those of p: every one is allowed in both versions, or
\* that of p, and the first two are generated as a pair.
Drawn(p, s) ==
  /\ s \in [1..4 -> Int]
  /\ \A i \in 1..4 : s[i] = p.s[i] \/ s[i] \in MinS31..MaxS[i]
  /\ s[1] # 0 /\ s[2] # 0 /\ s[1] + Gap # s[2]

\* The tiers follow each other.
LEMMA TiersOrdered ==
  ASSUME NEW i \in 1..4, NEW j \in 1..4, i < j
  PROVE  Tiers[i].max <= Tiers[j].min
<1>1. \A k \in 1..4 : Tiers[k].min \in Nat /\ Tiers[k].max \in Nat /\ Tiers[k].min < Tiers[k].max
  BY TierAssumption
<1>2. Tiers[1].max <= Tiers[2].min /\ Tiers[2].max <= Tiers[3].min /\ Tiers[3].max <= Tiers[4].min
  BY TierAssumption
<1>3. /\ Tiers[1].max <= Tiers[3].min /\ Tiers[1].max <= Tiers[4].min
      /\ Tiers[2].max <= Tiers[4].min
  BY <1>1, <1>2
<1>4. \/ i = 1 /\ j \in {2, 3, 4}
      \/ i = 2 /\ j \in {3, 4}
      \/ i = 3 /\ j = 4
  OBVIOUS
<1> QED BY <1>2, <1>3, <1>4

\* Headers of different tiers share no value.
LEMMA TiersDisjoint ==
  ASSUME NEW h, InTiers(h)
  PROVE  disjointHeaders(h)
<1> SUFFICES ASSUME NEW i \in 1..4, NEW j \in 1..4, i < j PROVE h[i][2] < h[j][1]
  BY DEF disjointHeaders
<1>1. Tiers[i].max <= Tiers[j].min /\ Tiers[i].max \in Nat /\ Tiers[j].min \in Nat
  BY TiersOrdered, TierAssumption
<1>2. h[i][2] < Tiers[i].max /\ Tiers[j].min <= h[j][1] /\ h[i][2] \in Nat /\ h[j][1] \in Nat
  BY DEF InTiers
<1> QED BY <1>1, <1>2

\* What generateHRange draws is a range of its tier.
LEMMA RangesInTiers ==
  ASSUME NEW h \in generatedHRanges
  PROVE  InTiers(h)
<1> DEFINE mid(t) == t.min + (t.max - t.min) \div 2
           ranges(t) == (t.min..(mid(t) - 1)) \X (mid(t)..(t.max - 1))
<1>1. /\ DOMAIN h = 1..4 /\ h = [i \in 1..4 |-> h[i]]
      /\ \A i \in 1..4 : h[i] \in ranges(Tiers[i])
  BY DEF generatedHRanges
<1>2. ASSUME NEW i \in 1..4
      PROVE  /\ h[i] \in Nat \X Nat /\ h[i][1] <= h[i][2]
             /\ Tiers[i].min <= h[i][1] /\ h[i][2] < Tiers[i].max
  <2> DEFINE lo == Tiers[i].min
             hi == Tiers[i].max
             m == mid(Tiers[i])
  <2>1. lo \in Nat /\ hi \in Nat /\ lo + 1 < hi
    BY TierAssumption
  <2>2. m = lo + (hi - lo) \div 2
    OBVIOUS
  <2>3. h[i] \in (lo..(m - 1)) \X (m..(hi - 1))
    BY <1>1
  <2> HIDE DEF lo, hi, m
  <2>4. m \in Nat /\ lo < m /\ m < hi
    BY <2>1, <2>2
  <2>5. h[i][1] \in lo..(m - 1) /\ h[i][2] \in m..(hi - 1) /\ h[i] \in Nat \X Nat
    BY <2>1, <2>3, <2>4
  <2>6. h[i][1] <= h[i][2] /\ lo <= h[i][1] /\ h[i][2] < hi
    BY <2>1, <2>4, <2>5
  <2> QED BY <2>5, <2>6 DEF lo, hi
<1> HIDE DEF mid, ranges
<1>3. h \in Headers
  BY <1>1, <1>2 DEF Headers
<1> QED BY <1>2, <1>3, SMTT(30) DEF InTiers

\* So is what generateHValue draws.
LEMMA ValuesInTiers ==
  ASSUME NEW h \in generatedHValues
  PROVE  InTiers(h)
<1>1. PICK v : /\ h = [i \in 1..4 |-> <<v[i], v[i]>>]
               /\ \A i \in 1..4 : v[i] \in Tiers[i].min..(Tiers[i].max - 1)
  BY DEF generatedHValues
<1>2. ASSUME NEW i \in 1..4
      PROVE  /\ h[i] \in Nat \X Nat /\ h[i][1] <= h[i][2]
             /\ Tiers[i].min <= h[i][1] /\ h[i][2] < Tiers[i].max
  <2>1. Tiers[i].min \in Nat /\ Tiers[i].max \in Nat
    BY TierAssumption
  <2>2. v[i] \in Nat /\ Tiers[i].min <= v[i] /\ v[i] < Tiers[i].max
    BY <1>1, <2>1
  <2>3. h[i] = <<v[i], v[i]>>
    BY <1>1
  <2> QED BY <2>2, <2>3
<1>3. h \in Headers
  BY <1>1, <1>2 DEF Headers
<1> QED BY <1>2, <1>3 DEF InTiers

\* The two generators of S1 and S2 never draw the forbidden pair, and what they
\* draw is valid in both versions.
LEMMA SizesDrawn ==
  ASSUME NEW s \in generatedS
  PROVE  /\ s[1] \in MinS31..MaxS[1] /\ s[2] \in MinS31..MaxS[2]
         /\ s[1] # 0 /\ s[2] # 0 /\ s[1] + Gap # s[2]
<1>1. s[1] \in GenS.lo..GenS.hi /\ s[2] \in GenS.lo..GenS.hi /\ s[1] + Gap # s[2]
  BY DEF generatedS
<1>2. /\ GenS.lo \in Nat /\ GenS.hi \in Nat /\ MinS31 \in Nat /\ MaxS[1] \in Nat /\ MaxS[2] \in Nat
      /\ MinS31 <= GenS.lo /\ GenS.hi <= MaxS[1] /\ GenS.hi <= MaxS[2] /\ 0 < MinS31
  BY SizeAssumption
<1> QED BY <1>1, <1>2

\* An object with generated headers and S values.
Redrawn(p, q) ==
  \E h, s : InTiers(h) /\ Drawn(p, s) /\ q = [p EXCEPT !.h = h, !.s = s]

\* What ApplyGeneratedParams makes of an object.
LEMMA GeneratedRedrawn ==
  ASSUME NEW p \in AWGParams, NEW q \in ApplyGeneratedParams(p)
  PROVE  Redrawn(p, q)
<1>1. PICK h \in generatedHRanges, x \in generatedS :
        q = withValues(p, h, <<x[1], x[2], p.s[3], p.s[4]>>)
  BY DEF ApplyGeneratedParams
<1> DEFINE s == <<x[1], x[2], p.s[3], p.s[4]>>
<1>2. InTiers(h)
  BY RangesInTiers
<1>3. /\ x[1] \in MinS31..MaxS[1] /\ x[2] \in MinS31..MaxS[2]
      /\ x[1] # 0 /\ x[2] # 0 /\ x[1] + Gap # x[2]
  BY SizesDrawn
<1>4. p.s \in [1..4 -> Int]
  BY DEF AWGParams
<1>5. /\ s \in [1..4 -> Int] /\ s[1] = x[1] /\ s[2] = x[2] /\ s[3] = p.s[3] /\ s[4] = p.s[4]
  BY <1>3, <1>4
<1>6. q = [p EXCEPT !.h = h, !.s = s]
  BY <1>1, Zenon DEF withValues
<1> HIDE DEF s
<1>7. Drawn(p, s)
  <2>1. ASSUME NEW i \in 1..4 PROVE s[i] = p.s[i] \/ s[i] \in MinS31..MaxS[i]
    <3>1. i = 1 \/ i = 2 \/ i = 3 \/ i = 4
      OBVIOUS
    <3> QED BY <1>3, <1>5, <3>1
  <2> QED BY <1>3, <1>5, <2>1 DEF Drawn
<1> QED BY <1>2, <1>6, <1>7 DEF Redrawn

\* What ApplyGeneratedParamsV31 makes of it.
LEMMA GeneratedV31Redrawn ==
  ASSUME NEW p \in AWGParams, NEW q \in ApplyGeneratedParamsV31(p)
  PROVE  Redrawn(p, q)
<1>1. PICK h \in generatedHValues, x \in generatedS, s3 \in GenS3.lo..GenS3.hi :
        q = withValues(p, h, <<x[1], x[2], s3, MinS31>>)
  BY DEF ApplyGeneratedParamsV31
<1> DEFINE s == <<x[1], x[2], s3, MinS31>>
<1>2. InTiers(h)
  BY ValuesInTiers
<1>3. /\ x[1] \in MinS31..MaxS[1] /\ x[2] \in MinS31..MaxS[2]
      /\ x[1] # 0 /\ x[2] # 0 /\ x[1] + Gap # x[2]
  BY SizesDrawn
<1>4. s3 \in MinS31..MaxS[3] /\ MinS31 \in MinS31..MaxS[4] /\ s3 \in Int /\ MinS31 \in Int
  BY SizeAssumption
<1>5. s \in [1..4 -> Int] /\ s[1] = x[1] /\ s[2] = x[2] /\ s[3] = s3 /\ s[4] = MinS31
  BY <1>3, <1>4
<1>6. q = [p EXCEPT !.h = h, !.s = s]
  BY <1>1, Zenon DEF withValues
<1> HIDE DEF s
<1>7. Drawn(p, s)
  <2>1. ASSUME NEW i \in 1..4 PROVE s[i] \in MinS31..MaxS[i]
    <3>1. i = 1 \/ i = 2 \/ i = 3 \/ i = 4
      OBVIOUS
    <3> QED BY <1>3, <1>4, <1>5, <3>1
  <2> QED BY <1>3, <1>5, <2>1 DEF Drawn
<1> QED BY <1>2, <1>6, <1>7 DEF Redrawn

\* Generated values beside any overrides that were valid give a valid object and
\* a valid profile.
LEMMA RedrawnValid ==
  ASSUME NEW ver \in Versions, NEW e \in Envs, NEW gen \in Defaults,
         NEW p \in AWGParams, Stable(ver, p),
         ValidateProfileForVersion(ver, effectiveParamsForVersion(e, gen, ver, p)),
         NEW q, Redrawn(p, q)
  PROVE  /\ q \in AWGParams /\ Stable(ver, q)
         /\ ValidateProfileForVersion(ver, effectiveParamsForVersion(e, gen, ver, q))
<1>1. PICK h, s : InTiers(h) /\ Drawn(p, s) /\ q = [p EXCEPT !.h = h, !.s = s]
  BY DEF Redrawn
<1>2. h \in Headers /\ s \in [1..4 -> Int]
  BY <1>1 DEF InTiers, Drawn
<1>3. q \in AWGParams
  BY <1>1, <1>2 DEF AWGParams
<1>4. /\ q.h = h /\ q.s = s /\ q.j = p.j /\ q.timing = p.timing /\ q.toggle = p.toggle
      /\ q.keepalive = p.keepalive /\ q.cps = p.cps /\ q.set = p.set /\ q.dns = p.dns
      /\ q.mode = p.mode /\ q.servers = p.servers
  BY <1>1 DEF AWGParams
<1>5. ASSUME NEW i \in 1..4
      PROVE  /\ h[i] # <<>> /\ h[i][1] <= h[i][2]
             /\ h[i] \in Nat \X Nat
  BY <1>1 DEF InTiers
<1>6. ASSUME NEW i \in 1..4 PROVE s[i] = p.s[i] \/ (s[i] \in 0..MaxS[i] /\ s[i] >= MinS31 /\ s[i] # 0)
  <2>1. MinS31 \in Nat /\ 0 < MinS31 /\ MaxS[i] \in Nat
    BY SizeAssumption
  <2>2. s[i] = p.s[i] \/ s[i] \in MinS31..MaxS[i]
    BY <1>1 DEF Drawn
  <2> QED BY <2>1, <2>2
<1>7. validateDNSSettings(q)
  BY <1>4 DEF Stable, ValidateOverridesForVersion, validateDNSSettings
<1>8. ValidateOverridesForVersion(ver, q)
  <2>1. \A i \in 1..4 : q.s[i] \in 0..MaxS[i]
    <3> SUFFICES ASSUME NEW i \in 1..4 PROVE q.s[i] \in 0..MaxS[i]
      OBVIOUS
    <3>1. p.s[i] \in 0..MaxS[i]
      BY DEF Stable, ValidateOverridesForVersion
    <3> QED BY <1>4, <1>6, <3>1
  <2>2. \A i \in 1..4 : q.h[i] # <<>> => q.h[i][1] <= q.h[i][2]
    BY <1>4, <1>5
  <2> QED BY <1>4, <1>7, <2>1, <2>2 DEF Stable, ValidateOverridesForVersion
<1>9. Stable(ver, q)
  BY <1>4, <1>8 DEF Stable
<1> DEFINE b == base(e, gen, ver)
           f == effectiveParamsForVersion(e, gen, ver, p)
           g == effectiveParamsForVersion(e, gen, ver, q)
<1>10. /\ g.j = f.j /\ g.timing = f.timing /\ g.toggle = f.toggle /\ g.keepalive = f.keepalive
       /\ g.cps = f.cps /\ g.set = f.set /\ g.dns = f.dns /\ g.mode = f.mode
       /\ g.servers = f.servers
  BY <1>4, ZenonT(40) DEF effectiveParamsForVersion
<1>11. /\ f.s \in [1..4 -> Int] /\ g.s \in [1..4 -> Int]
       /\ \A i \in 1..4 : f.s[i] = IF p.s[i] = 0 THEN b.s[i] ELSE p.s[i]
       /\ \A i \in 1..4 : g.s[i] = IF s[i] = 0 THEN b.s[i] ELSE s[i]
       /\ \A i \in 1..4 : g.h[i] = IF h[i] = <<>> THEN b.h[i] ELSE h[i]
       /\ g.h \in Headers
  BY <1>3, <1>4, EffectiveTypes
<1> HIDE DEF b, f, g
<1>12. g.h = h
  <2>1. \A i \in 1..4 : g.h[i] = h[i]
    BY <1>5, <1>11
  <2>2. g.h = [i \in 1..4 |-> g.h[i]] /\ h = [i \in 1..4 |-> h[i]]
    BY <1>2, <1>11 DEF Headers
  <2>3. [i \in 1..4 |-> g.h[i]] = [i \in 1..4 |-> h[i]]
    BY <2>1, Zenon
  <2> QED BY <2>2, <2>3, Zenon
<1>13. ASSUME NEW i \in 1..4
       PROVE  g.s[i] = f.s[i] \/ (g.s[i] \in 0..MaxS[i] /\ g.s[i] >= MinS31)
  BY <1>6, <1>11
<1>14. g.s[1] + Gap # g.s[2]
  <2>1. s[1] # 0 /\ s[2] # 0 /\ s[1] + Gap # s[2]
    BY <1>1 DEF Drawn
  <2> QED BY <1>11, <2>1
<1>15. ValidateProfileForVersion(ver, f)
  BY DEF f
<1>16. ValidateOverridesForVersion(ver, g)
  <2>1. \A i \in 1..4 : g.s[i] \in 0..MaxS[i]
    <3> SUFFICES ASSUME NEW i \in 1..4 PROVE g.s[i] \in 0..MaxS[i]
      OBVIOUS
    <3>1. f.s[i] \in 0..MaxS[i]
      BY <1>15 DEF ValidateProfileForVersion, ValidateOverridesForVersion
    <3> QED BY <1>13, <3>1
  <2>2. \A i \in 1..4 : g.h[i] # <<>> => g.h[i][1] <= g.h[i][2]
    BY <1>5, <1>12
  <2>3. validateDNSSettings(g)
    BY <1>10, <1>15 DEF ValidateProfileForVersion, ValidateOverridesForVersion, validateDNSSettings
  <2> QED BY <1>10, <1>15, <2>1, <2>2, <2>3
          DEF ValidateProfileForVersion, ValidateOverridesForVersion
<1>17. ValidateProfileForVersion(ver, g)
  <2>1. ver = "3.1" => \A i \in 1..4 : g.s[i] >= MinS31
    BY <1>13, <1>15 DEF ValidateProfileForVersion
  <2>2. \A i \in 1..4 : g.h[i] # <<>>
    BY <1>5, <1>12
  <2>3. disjointHeaders(g.h)
    BY <1>1, <1>12, TiersDisjoint
  <2> QED BY <1>10, <1>14, <1>15, <1>16, <2>1, <2>2, <2>3 DEF ValidateProfileForVersion
<1> QED BY <1>3, <1>9, <1>17 DEF g

(***************************************************************************)
(* Interfaces.                                                             *)
(***************************************************************************)
\* The configuration a profile key stands for.
Shape(k) ==
  [j |-> k[2], s |-> k[3], h |-> k[4], timing |-> k[5], toggle |-> k[6], hk |-> k[7]]

\* The interfaces of the clients st: one for each key, with what the key says.
Interfaces(e, st) == [k \in {Key(e, st[c]) : c \in Existing(st)} |-> Shape(k)]

\* The key of a profile determines the configuration of the interface.
LEMMA ShapeOfKey ==
  ASSUME NEW e, NEW c
  PROVE  Config(e, c) = Shape(Key(e, c))
<1> DEFINE p == Effective(e, c)
<1>1. Config(e, c) = [j |-> p.j, s |-> p.s, h |-> p.h, timing |-> Canonical(p.timing),
                      toggle |-> p.toggle, hk |-> c.hk]
  BY DEF Config, ServerConfig
<1>2. Key(e, c) = <<c.ver, p.j, p.s, p.h, Canonical(p.timing), p.toggle, c.hk>>
  BY DEF Key, canonicalProfileKey
<1> HIDE DEF p
<1> QED BY <1>1, <1>2 DEF Shape

\* Interfaces that are what their keys say stay so when clients move.
LEMMA MovedIs ==
  ASSUME NEW e, NEW old, NEW st, \A k \in DOMAIN old : old[k] = Shape(k)
  PROVE  Moved(e, old, st) = Interfaces(e, st)
<1> DEFINE K == {Key(e, st[c]) : c \in Existing(st)}
           first(k) == CHOOSE c \in Existing(st) : Key(e, st[c]) = k
<1>1. ASSUME NEW k \in K
      PROVE  (IF k \in DOMAIN old THEN old[k] ELSE Config(e, st[first(k)])) = Shape(k)
  <2>1. CASE k \in DOMAIN old
    BY <2>1
  <2>2. CASE k \notin DOMAIN old
    <3>1. \E c \in Existing(st) : Key(e, st[c]) = k
      BY <1>1, Zenon
    <3>2. Key(e, st[first(k)]) = k
      BY <3>1, Zenon
    <3>3. Config(e, st[first(k)]) = Shape(Key(e, st[first(k)]))
      BY ShapeOfKey, Zenon
    <3> QED BY <2>2, <3>2, <3>3, Zenon
  <2> QED BY <2>1, <2>2
<1>2. [k \in K |-> IF k \in DOMAIN old THEN old[k] ELSE Config(e, st[first(k)])] = [k \in K |-> Shape(k)]
  BY <1>1, Zenon
<1> QED BY <1>2, Zenon DEF Moved, Interfaces

\* In particular when they are all created anew.
LEMMA MovedFromNothing ==
  ASSUME NEW e, NEW st
  PROVE  Moved(e, <<>>, st) = Interfaces(e, st)
<1>1. \A k \in DOMAIN <<>> : <<>>[k] = Shape(k)
  OBVIOUS
<1> QED BY <1>1, MovedIs

(***************************************************************************)
(* The inductive invariant.                                                *)
(***************************************************************************)
Records == [ver: Versions, params: AWGParams, hk: HeaderKeys \cup {NoKey}]

\* A record the server accepted.
Recorded(e, r) == r \in Records /\ Stable(r.ver, r.params) /\ Usable(e, r)

Configured == env \in Envs /\ generated \in Defaults /\ DefaultsUsable(env)
AllRecorded == \A c \in Existing(stored) : Recorded(env, stored[c])

SettingsInv ==
  /\ Configured
  /\ stored = [c \in Clients |-> stored[c]]
  /\ AllRecorded
  /\ ifaces = Interfaces(env, stored)

\* At the first start there are no clients.
LEMMA InitInv == Init => SettingsInv
<1> SUFFICES ASSUME Init PROVE SettingsInv
  OBVIOUS
<1>1. Configured
  BY InputAssumption DEF Init, Configured
<1>2. stored = [c \in Clients |-> NoClient]
  BY DEF Init
<1>3. Existing(stored) = {} /\ stored = [c \in Clients |-> stored[c]]
  BY <1>2 DEF Existing
<1>4. Interfaces(env, stored) = <<>>
  <2>1. {Key(env, stored[c]) : c \in Existing(stored)} = {}
    BY <1>3, Zenon
  <2>2. Interfaces(env, stored) = [k \in {} |-> Shape(k)]
    BY <2>1, Zenon DEF Interfaces
  <2>3. [k \in {} |-> Shape(k)] = <<>>
    OBVIOUS
  <2> QED BY <2>2, <2>3, Zenon
<1> QED BY <1>1, <1>3, <1>4 DEF Init, SettingsInv, AllRecorded

\* A change that every client survives.
LEMMA ChangeInv ==
  ASSUME Configured', generated' = generated,
         stored' = [c \in Clients |-> stored'[c]],
         \A c \in Existing(stored') : Recorded(env', stored'[c]),
         NEW old, \A k \in DOMAIN old : old[k] = Shape(k), ifaces' = Moved(env', old, stored')
  PROVE  SettingsInv'
<1>1. \A c \in Existing(stored)' : Recorded(env, stored[c])'
  BY Zenon DEF Recorded, Existing, Usable
<1>2. ifaces' = Interfaces(env', stored')
  BY MovedIs, Zenon
<1>3. Interfaces(env, stored)' = Interfaces(env', stored')
  BY Zenon DEF Interfaces, Key, Effective, Existing
<1> QED BY <1>1, <1>2, <1>3 DEF SettingsInv, AllRecorded

\* The interfaces are what their keys say.
LEMMA InterfacesShaped ==
  ASSUME SettingsInv
  PROVE  \A k \in DOMAIN ifaces : ifaces[k] = Shape(k)
BY DEF SettingsInv, Interfaces

\* Apply keeps the invariant for a record in normal form.
LEMMA ApplyInv ==
  ASSUME SettingsInv, NEW c \in Clients, NEW next, Apply(c, next),
         next.params # InvalidParams => next \in Records /\ Stable(next.ver, next.params)
  PROVE  SettingsInv'
<1>1. CASE ~Acceptable(next)
  <2>1. UNCHANGED vars
    BY <1>1 DEF Apply, Refuse
  <2> QED BY <2>1 DEF vars, SettingsInv, Configured, DefaultsUsable, AllRecorded, Recorded, Usable,
                      Interfaces, Existing, Key, Effective
<1>2. CASE Acceptable(next)
  <2>1. /\ stored' = [stored EXCEPT ![c] = next] /\ ifaces' = Moved(env, ifaces, stored')
        /\ env' = env /\ generated' = generated
    BY <1>2, Zenon DEF Apply
  <2>2. Recorded(env, next)
    BY <1>2 DEF Acceptable, Recorded
  <2>3. stored' = [d \in Clients |-> stored'[d]] /\ stored'[c] = next
        /\ \A d \in Clients \ {c} : stored'[d] = stored[d]
    BY <2>1 DEF SettingsInv
  <2>4. \A d \in Existing(stored') : Recorded(env', stored'[d])
    BY <2>1, <2>2, <2>3 DEF Existing, SettingsInv, AllRecorded
  <2>5. Configured'
    BY <2>1 DEF SettingsInv, Configured, DefaultsUsable
  <2>6. ifaces' = Moved(env', ifaces, stored')
    BY <2>1, Zenon
  <2> QED BY <2>1, <2>3, <2>4, <2>5, <2>6, InterfacesShaped, ChangeInv, Zenon
<1> QED BY <1>1, <1>2

\* A request with an object of Go's types changes a client to a record in normal
\* form, or is refused.
LEMMA NormalizedRecord ==
  ASSUME NEW ver \in Versions, NEW p \in AWGParams, NEW hk \in HeaderKeys \cup {NoKey}, NEW next,
         next = [ver |-> ver, params |-> NormalizeOverridesForVersion(ver, p), hk |-> hk],
         next.params # InvalidParams
  PROVE  next \in Records /\ Stable(next.ver, next.params)
<1> DEFINE n == NormalizeOverridesForVersion(ver, p)
<1>1. next.params = n /\ next.ver = ver /\ next = [ver |-> ver, params |-> n, hk |-> hk]
  OBVIOUS
<1>2. n \in AWGParams /\ Stable(ver, n)
  BY <1>1, NormalizeStable
<1> HIDE DEF n
<1> QED BY <1>1, <1>2 DEF Records

\* Creating a client keeps the invariant.
LEMMA CreateInv ==
  ASSUME SettingsInv, NEW c \in Clients, NEW ver \in Versions, NEW p \in AWGParams,
         CreateClient(c, ver, p)
  PROVE  SettingsInv'
<1> DEFINE hk == IF ver = "3.1" THEN DefaultKey ELSE NoKey
           next == [ver |-> ver, params |-> NormalizeOverridesForVersion(ver, p), hk |-> hk]
<1>1. Apply(c, next)
  BY Zenon DEF CreateClient
<1>2. hk \in HeaderKeys \cup {NoKey}
  BY KeyAssumption
<1>3. next = [ver |-> ver, params |-> NormalizeOverridesForVersion(ver, p), hk |-> hk]
  OBVIOUS
<1> HIDE DEF hk, next
<1>4. next.params # InvalidParams => next \in Records /\ Stable(next.ver, next.params)
  BY <1>2, <1>3, NormalizedRecord
<1> QED BY <1>1, <1>4, ApplyInv

\* So does changing one.
LEMMA UpdateInv ==
  ASSUME SettingsInv, NEW c \in Clients, NEW ver \in Versions, NEW p \in AWGParams,
         NEW reset \in BOOLEAN, UpdateClient(c, ver, p, reset)
  PROVE  SettingsInv'
<1> DEFINE hk == IF ver = "2.0" THEN NoKey
                 ELSE IF ver # stored[c].ver \/ reset THEN DefaultKey ELSE stored[c].hk
           next == [ver |-> ver, params |-> NormalizeOverridesForVersion(ver, p), hk |-> hk]
<1>1. Apply(c, next) /\ stored[c] # NoClient
  BY Zenon DEF UpdateClient
<1>2. hk \in HeaderKeys \cup {NoKey}
  <2>1. stored[c] \in Records
    BY <1>1 DEF SettingsInv, AllRecorded, Existing, Recorded
  <2>2. stored[c].hk \in HeaderKeys \cup {NoKey}
    BY <2>1 DEF Records
  <2> QED BY <2>2, KeyAssumption
<1>3. next = [ver |-> ver, params |-> NormalizeOverridesForVersion(ver, p), hk |-> hk]
  OBVIOUS
<1> HIDE DEF hk, next
<1>4. next.params # InvalidParams => next \in Records /\ Stable(next.ver, next.params)
  BY <1>2, <1>3, NormalizedRecord
<1> QED BY <1>1, <1>4, ApplyInv

\* New values with generated ones: whatever is drawn, the result is a record in
\* normal form with a valid profile.
LEMMA RegeneratedRecord ==
  ASSUME SettingsInv, NEW c \in Existing(stored), NEW next \in regenerated(c)
  PROVE  next \in Records /\ Stable(next.ver, next.params) /\ Acceptable(next)
<1> DEFINE r == stored[c]
           p == r.params
<1>1. /\ r \in Records /\ Stable(r.ver, r.params) /\ Usable(env, r)
      /\ env \in Envs /\ generated \in Defaults
  BY DEF SettingsInv, Configured, AllRecorded, Recorded
<1>2. r.ver \in Versions /\ p \in AWGParams /\ r.hk \in HeaderKeys \cup {NoKey}
  BY <1>1 DEF Records
<1>3. \E q, hk : Redrawn(p, q) /\ hk \in HeaderKeys \cup {NoKey} /\ next = changedTo(c, q, hk)
  <2>1. CASE r.ver = "2.0"
    <3>1. next \in {changedTo(c, q, stored[c].hk) : q \in ApplyGeneratedParams(stored[c].params)}
      BY <2>1 DEF regenerated
    <3>2. PICK q \in ApplyGeneratedParams(stored[c].params) : next = changedTo(c, q, stored[c].hk)
      BY <3>1, Zenon
    <3>3. Redrawn(p, q)
      BY <1>2, <3>2, GeneratedRedrawn
    <3> QED BY <1>2, <3>2, <3>3
  <2>2. CASE r.ver # "2.0"
    <3> DEFINE free == HeaderKeys \ ({DefaultKey} \cup {stored[d].hk : d \in Existing(stored)})
    <3>1. next \in {changedTo(c, q, hk) : q \in ApplyGeneratedParamsV31(stored[c].params), hk \in free}
      BY <2>2 DEF regenerated
    <3>2. \A hk \in free : hk \in HeaderKeys \cup {NoKey}
      OBVIOUS
    <3> HIDE DEF free
    <3>3. PICK q \in ApplyGeneratedParamsV31(stored[c].params), hk \in free : next = changedTo(c, q, hk)
      BY <3>1
    <3>4. Redrawn(p, q)
      BY <1>2, <3>3, GeneratedV31Redrawn
    <3> QED BY <3>2, <3>3, <3>4
  <2> QED BY <2>1, <2>2
<1>4. PICK q, hk : Redrawn(p, q) /\ hk \in HeaderKeys \cup {NoKey} /\ next = changedTo(c, q, hk)
  BY <1>3
<1>5. ValidateProfileForVersion(r.ver, effectiveParamsForVersion(env, generated, r.ver, p))
  BY <1>1 DEF Usable
<1>6. next = [r EXCEPT !.params = NormalizeOverridesForVersion(r.ver, q), !.hk = hk]
  BY <1>4, Zenon DEF changedTo
<1> HIDE DEF r, p
<1>7. /\ q \in AWGParams /\ Stable(r.ver, q)
      /\ ValidateProfileForVersion(r.ver, effectiveParamsForVersion(env, generated, r.ver, q))
  BY <1>1, <1>2, <1>4, <1>5, RedrawnValid DEF p
<1>8. NormalizeOverridesForVersion(r.ver, q) = q
  BY <1>2, <1>7, StableKept
<1>9. next \in Records /\ next.ver = r.ver /\ next.params = q
  BY <1>1, <1>4, <1>6, <1>7, <1>8 DEF Records
<1>10. Acceptable(next)
  <2>1. q # InvalidParams
    BY <1>7, NotInvalid
  <2> QED BY <1>7, <1>9, <2>1 DEF Acceptable, Usable
<1> QED BY <1>7, <1>9, <1>10

\* Regenerating keeps the invariant.
LEMMA RegenerateInv ==
  ASSUME SettingsInv, NEW c \in Clients, RegenerateAWGParams(c)
  PROVE  SettingsInv'
<1>1. PICK next \in regenerated(c) : Apply(c, next)
  BY Zenon DEF RegenerateAWGParams
<1>2. c \in Existing(stored)
  BY DEF RegenerateAWGParams, Existing
<1>3. next \in Records /\ Stable(next.ver, next.params)
  BY <1>2, RegeneratedRecord
<1> QED BY <1>1, <1>3, ApplyInv

\* So does deleting a client.
LEMMA DeleteInv ==
  ASSUME SettingsInv, NEW c \in Clients, DeleteClient(c)
  PROVE  SettingsInv'
<1>1. /\ stored' = [stored EXCEPT ![c] = NoClient] /\ ifaces' = Moved(env, ifaces, stored')
      /\ env' = env /\ generated' = generated
  BY Zenon DEF DeleteClient
<1>2. stored' = [d \in Clients |-> stored'[d]] /\ stored'[c] = NoClient
      /\ \A d \in Clients \ {c} : stored'[d] = stored[d]
  BY <1>1 DEF SettingsInv
<1>3. \A d \in Existing(stored') : Recorded(env', stored'[d])
  BY <1>1, <1>2 DEF Existing, SettingsInv, AllRecorded
<1>4. Configured'
  BY <1>1 DEF SettingsInv, Configured, DefaultsUsable
<1>5. ifaces' = Moved(env', ifaces, stored')
  BY <1>1, Zenon
<1> QED BY <1>1, <1>2, <1>3, <1>4, <1>5, InterfacesShaped, ChangeInv, Zenon

\* A restart reads every record as it was stored.
LEMMA RestoredSame ==
  ASSUME SettingsInv
  PROVE  [c \in Clients |-> Restored(stored[c])] = stored
<1>1. ASSUME NEW c \in Clients PROVE Restored(stored[c]) = stored[c]
  <2>1. CASE stored[c] = NoClient
    BY <2>1 DEF Restored
  <2>2. CASE stored[c] # NoClient
    <3> DEFINE r == stored[c]
    <3>1. r \in Records /\ Stable(r.ver, r.params)
      BY <2>2 DEF SettingsInv, AllRecorded, Existing, Recorded
    <3>2. Restored(r) = [r EXCEPT !.params = NormalizeOverridesForVersion(r.ver, Reloaded(r.params))]
      BY <2>2 DEF Restored
    <3> HIDE DEF r
    <3>3. r.ver \in Versions /\ r.params \in AWGParams
      BY <3>1 DEF Records
    <3>4. NormalizeOverridesForVersion(r.ver, Reloaded(r.params)) = r.params
      BY <3>1, <3>3, RestoreKeeps
    <3>5. Restored(r) = r
      BY <3>1, <3>2, <3>4 DEF Records
    <3> QED BY <3>5 DEF r
  <2> QED BY <2>1, <2>2
<1>2. [c \in Clients |-> Restored(stored[c])] = [c \in Clients |-> stored[c]]
  BY <1>1, Zenon
<1> QED BY <1>2, Zenon DEF SettingsInv

\* Starting again, with this configuration or another, keeps the invariant.
LEMMA RestartInv ==
  ASSUME SettingsInv, NEW e \in Envs, Restart(e)
  PROVE  SettingsInv'
<1> DEFINE st == [c \in Clients |-> Restored(stored[c])]
<1>1. st = stored
  BY RestoredSame
<1>2. IF ~Startable(e, st) THEN Refuse
      ELSE /\ env' = e /\ stored' = st /\ ifaces' = Moved(e, <<>>, st) /\ generated' = generated
  BY Zenon DEF Restart
<1> HIDE DEF st
<1>3. CASE ~Startable(e, st)
  <2>1. UNCHANGED vars
    BY <1>2, <1>3 DEF Refuse
  <2> QED BY <2>1 DEF vars, SettingsInv, Configured, DefaultsUsable, AllRecorded, Recorded, Usable,
                      Interfaces, Existing, Key, Effective
<1>4. CASE Startable(e, st)
  <2>1. env' = e /\ stored' = stored /\ ifaces' = Moved(e, <<>>, stored) /\ generated' = generated
    BY <1>1, <1>2, <1>4, Zenon
  <2>2. DefaultsUsable(e) /\ \A c \in Existing(stored) : Usable(e, stored[c])
    BY <1>1, <1>4, Zenon DEF Startable
  <2>3. Configured'
    BY <2>1, <2>2 DEF SettingsInv, Configured, DefaultsUsable
  <2>4. \A c \in Existing(stored) : Recorded(e, stored[c])
    BY <2>2 DEF SettingsInv, AllRecorded, Recorded
  <2>5. stored' = [c \in Clients |-> stored'[c]]
    BY <2>1, Zenon DEF SettingsInv
  <2>6. \A c \in Existing(stored') : Recorded(env', stored'[c])
    BY <2>1, <2>4, Zenon
  <2>7. \A k \in DOMAIN <<>> : <<>>[k] = Shape(k)
    OBVIOUS
  <2>8. ifaces' = Moved(env', <<>>, stored')
    BY <2>1, Zenon
  <2> QED BY <2>1, <2>3, <2>5, <2>6, <2>7, <2>8, ChangeInv, Zenon
<1> QED BY <1>3, <1>4

\* Every step keeps the invariant.
LEMMA NextInv == SettingsInv /\ [Next]_vars => SettingsInv'
<1> SUFFICES ASSUME SettingsInv, [Next]_vars PROVE SettingsInv'
  OBVIOUS
<1>1. Empty \in AWGParams
  <2>1. /\ <<0, 0, 0, 0>> \in [1..4 -> Int] /\ <<0, 0, 0>> \in [1..3 -> Int]
        /\ Unset \in Uint16Range
    BY DEF Uint16Range, Unset
  <2>2. <<<<>>, <<>>, <<>>, <<>>>> \in Headers
    <3> DEFINE h == <<<<>>, <<>>, <<>>, <<>>>>
    <3>1. DOMAIN h = 1..4 /\ h = [i \in 1..4 |-> h[i]] /\ \A i \in 1..4 : h[i] = <<>>
      OBVIOUS
    <3> HIDE DEF h
    <3>2. h \in [1..4 -> {<<>>} \cup (Nat \X Nat)]
      BY <3>1
    <3> QED BY <3>2 DEF h, Headers
  <2>3. {} \in SUBSET {"dns", "mode", "servers"} /\ <<>> \in Seq(STRING)
    OBVIOUS
  <2> QED BY <2>1, <2>2, <2>3, TextAssumption DEF Empty, AWGParams
<1>2. ASSUME NEW c \in Clients, NEW ver \in Versions, NEW p \in Inputs[c],
             CreateClient(c, ver, p) \/ SetParams(c, ver, p)
      PROVE  SettingsInv'
  <2>1. p \in AWGParams
    BY InputAssumption
  <2> QED BY <1>2, <2>1, CreateInv, UpdateInv DEF SetParams
<1>3. ASSUME NEW c \in Clients, NEW ver \in Versions, SwitchVersion(c, ver)
      PROVE  SettingsInv'
  <2>1. stored[c] \in Records
    BY <1>3 DEF SwitchVersion, UpdateClient, SettingsInv, AllRecorded, Existing, Recorded
  <2>2. stored[c].params \in AWGParams
    BY <2>1 DEF Records
  <2> QED BY <1>3, <2>2, UpdateInv DEF SwitchVersion
<1>4. ASSUME NEW c \in Clients, NEW ver \in Versions, ResetParams(c, ver)
      PROVE  SettingsInv'
  BY <1>1, <1>4, UpdateInv DEF ResetParams
<1>5. ASSUME NEW c \in Regenerated, RegenerateAWGParams(c)
      PROVE  SettingsInv'
  BY <1>5, RegenerateInv, InputAssumption
<1>6. ASSUME NEW c \in Clients, DeleteClient(c)
      PROVE  SettingsInv'
  BY <1>6, DeleteInv
<1>7. ASSUME NEW e \in Envs, Restart(e)
      PROVE  SettingsInv'
  BY <1>7, RestartInv
<1>8. CASE UNCHANGED vars
  BY <1>8 DEF vars, SettingsInv, Configured, DefaultsUsable, AllRecorded, Recorded, Usable,
              Interfaces, Existing, Key, Effective
<1> QED BY <1>2, <1>3, <1>4, <1>5, <1>6, <1>7, <1>8 DEF Next

\* It holds in every state, whatever policies are looked at.
LEMMA Invariant == SettingsSpec => []SettingsInv
<1>1. SettingsInit => SettingsInv
  BY InitInv DEF SettingsInit
<1>2. SettingsInv /\ [SettingsNext]_settings => SettingsInv'
  <2>1. [SettingsNext]_settings => [Next]_vars
    BY DEF SettingsNext, Answer, settings
  <2> QED BY <2>1, NextInv
<1> QED BY <1>1, <1>2, PTL DEF SettingsSpec

(***************************************************************************)
(* Theorems.                                                               *)
(***************************************************************************)
\* The records that create, update, regenerate and restore accept have profiles
\* whose packets a peer can tell apart: the validation and the generators
\* (internal/awg/validation.go, params.go) are strong enough for every limit,
\* every set of tiers and every configuration the assumptions allow.
THEOREM Profiles == SettingsSpec => []ProfilesUsable
<1>1. SettingsInv => ProfilesUsable
  <2> SUFFICES ASSUME SettingsInv, NEW c \in Existing(stored)
               PROVE  Distinguishable(stored[c].ver, Effective(env, stored[c]))
    BY Zenon DEF ProfilesUsable, Distinguishable
  <2> DEFINE r == stored[c]
             p == Effective(env, r)
  <2>1. /\ r \in Records /\ Usable(env, r) /\ env \in Envs /\ generated \in Defaults
    BY DEF SettingsInv, Configured, AllRecorded, Recorded
  <2>2. r.ver \in Versions /\ r.params \in AWGParams
    BY <2>1 DEF Records
  <2>3. p = effectiveParamsForVersion(env, generated, r.ver, r.params)
    BY DEF Effective
  <2>4. ValidateProfileForVersion(r.ver, p)
    BY <2>1, <2>3, Zenon DEF Usable
  <2> HIDE DEF r
  <2>5. p.h \in Headers
    BY <2>1, <2>2, <2>3, EffectiveTypes
  <2> HIDE DEF p
  <2> QED BY <2>2, <2>4, <2>5, ValidDistinguishable DEF p, r
<1> QED BY <1>1, Invariant, PTL

\* The key of a profile (canonicalProfileKey) determines every setting of the
\* interface, so that clients that share one agree with it, in whatever order they
\* came, moved and left.
THEOREM SharedInterfaces == SettingsSpec => []InterfaceMatchesClients
<1>1. SettingsInv => InterfaceMatchesClients
  <2> SUFFICES ASSUME SettingsInv, NEW c \in Existing(stored)
               PROVE  ifaces[Key(env, stored[c])] = Config(env, stored[c])
    BY DEF InterfaceMatchesClients
  <2>1. ifaces[Key(env, stored[c])] = Shape(Key(env, stored[c]))
    BY DEF SettingsInv, Interfaces
  <2> QED BY <2>1, ShapeOfKey
<1> QED BY <1>1, Invariant, PTL

\* RegenerateAWGParams never draws values that the validation refuses: beside the
\* overrides of any accepted client every draw gives a valid profile.
THEOREM Regenerating == SettingsSpec => []RegenerateAccepted
<1>1. SettingsInv => RegenerateAccepted
  BY RegeneratedRecord DEF RegenerateAccepted
<1> QED BY <1>1, Invariant, PTL

\* What LoadStorage and PrepareRestorePlan make of the stored records with the
\* same configuration is what was there, interfaces included, and is accepted.
THEOREM Restarting == SettingsSpec => []RestartChangesNothing
<1>1. SettingsInv => RestartChangesNothing
  <2> SUFFICES ASSUME SettingsInv PROVE RestartChangesNothing
    OBVIOUS
  <2> DEFINE st == [c \in Clients |-> Restored(stored[c])]
  <2>1. st = stored
    BY RestoredSame
  <2>2. Startable(env, stored)
    <3> SUFFICES ASSUME NEW c \in Existing(stored)
                 PROVE  stored[c].params # InvalidParams /\ Usable(env, stored[c])
      BY DEF Startable, SettingsInv, Configured
    <3>1. stored[c] \in Records /\ Usable(env, stored[c])
      BY DEF SettingsInv, AllRecorded, Recorded
    <3>2. stored[c].params \in AWGParams
      BY <3>1 DEF Records
    <3> QED BY <3>1, <3>2, NotInvalid
  <2>3. ifaces = Moved(env, <<>>, stored)
    BY MovedFromNothing DEF SettingsInv
  <2> HIDE DEF st
  <2>4. st = stored /\ Startable(env, st) /\ ifaces = Moved(env, <<>>, st)
    BY <2>1, <2>2, <2>3, Zenon
  <2> QED BY <2>4, Zenon DEF RestartChangesNothing, st
<1> QED BY <1>1, Invariant, PTL

\* resolveClientUpdate never loses an override on the way to the other version: it
\* keeps all of them or refuses the change.
THEOREM Switching == SettingsSpec => SwitchKeepsOverrides
<1>1. SettingsInv => \A c \in Clients, ver \in Versions :
                       stored'[c] # stored[c] /\ SwitchVersion(c, ver) =>
                         stored'[c].params = stored[c].params
  <2> SUFFICES ASSUME SettingsInv, NEW c \in Clients, NEW ver \in Versions,
                      stored'[c] # stored[c], SwitchVersion(c, ver)
               PROVE  stored'[c].params = stored[c].params
    OBVIOUS
  <2> DEFINE p == stored[c].params
             hk == IF ver = "2.0" THEN NoKey
                   ELSE IF ver # stored[c].ver \/ FALSE THEN DefaultKey ELSE stored[c].hk
             next == [ver |-> ver, params |-> NormalizeOverridesForVersion(ver, p), hk |-> hk]
  <2>1. stored[c] # NoClient /\ Apply(c, next)
    BY Zenon DEF SwitchVersion, UpdateClient
  <2>2. stored[c] \in Records /\ Stable(stored[c].ver, p)
    BY <2>1 DEF SettingsInv, AllRecorded, Existing, Recorded
  <2>3. stored[c].ver \in Versions /\ p \in AWGParams
    BY <2>2 DEF Records
  <2>4. next.params \in {p, InvalidParams}
    BY <2>2, <2>3, StableKept
  <2> HIDE DEF next, p
  <2>5. Acceptable(next)
    BY <2>1 DEF Apply, Refuse, vars
  <2>6. stored' = [stored EXCEPT ![c] = next]
    BY <2>1, <2>5 DEF Apply
  <2>7. stored'[c] = next
    BY <2>6 DEF SettingsInv
  <2>8. next.params = p
    BY <2>4, <2>5 DEF Acceptable
  <2> QED BY <2>7, <2>8 DEF p
<1> QED BY <1>1, Invariant, PTL DEF SwitchKeepsOverrides
(***************************************************************************)
(* Routing: loops.  Induction over the rounds of a loop, and that the      *)
(* recursion of a loop defines a function.                                 *)
(***************************************************************************)
LEMMA Induct ==
  ASSUME NEW n \in Nat, NEW T, 0 \in T, \A i \in 1..n : i - 1 \in T => i \in T
  PROVE  \A i \in 0..n : i \in T
<1> DEFINE B == {i \in 0..n : i \notin T}
<1>1. SUFFICES ASSUME B # {} PROVE FALSE
  OBVIOUS
<1>2. B \subseteq Nat
  OBVIOUS
<1> HIDE DEF B
<1>3. PICK l \in B : \A k \in B : l <= k
  BY <1>1, <1>2, Least
<1>4. l \in 0..n /\ l \notin T
  BY <1>3 DEF B
<1>5. l \in 1..n
  BY <1>4
<1>6. l - 1 \notin B
  BY <1>3, <1>5
<1>7. l - 1 \in T
  BY <1>5, <1>6 DEF B
<1> QED BY <1>4, <1>5, <1>7

\* f is the loop of n rounds that starts with x, g[i] what round i makes of a
\* value of X.
Rounds(X, x, g, n, f) ==
  /\ f \in [0..n -> X]
  /\ f[0] = x
  /\ \A i \in 1..n : f[i] = g[i][f[i - 1]]

LEMMA RoundsExist ==
  ASSUME NEW X, NEW x \in X, NEW n \in Nat, NEW g,
         \A i \in 1..n : \A y \in X : g[i][y] \in X
  PROVE  \E f : Rounds(X, x, g, n, f)
<1> DEFINE T == {m \in 0..n : \E f : Rounds(X, x, g, m, f)}
<1>1. 0 \in T
  <2> DEFINE f == [i \in 0..0 |-> x]
  <2>1. Rounds(X, x, g, 0, f)
    BY DEF Rounds
  <2> QED BY <2>1
<1>2. ASSUME NEW m \in 1..n, m - 1 \in T PROVE m \in T
  <2>1. PICK h : Rounds(X, x, g, m - 1, h)
    BY <1>2
  <2> DEFINE f == [i \in 0..m |-> IF i = m THEN g[m][h[m - 1]] ELSE h[i]]
  <2>2. m - 1 \in 0..(m - 1) /\ h[m - 1] \in X
    BY <2>1 DEF Rounds
  <2>3. f \in [0..m -> X]
    BY <2>1, <2>2 DEF Rounds
  <2>4. f[0] = x
    BY <2>1 DEF Rounds
  <2>5. ASSUME NEW i \in 1..m PROVE f[i] = g[i][f[i - 1]]
    <3>1. CASE i = m
      BY <2>2, <3>1
    <3>2. CASE i # m
      <4>1. f[i] = h[i] /\ i \in 1..(m - 1) /\ f[i - 1] = h[i - 1]
        BY <3>2
      <4> QED BY <2>1, <4>1 DEF Rounds
    <3> QED BY <3>1, <3>2
  <2>6. Rounds(X, x, g, m, f)
    BY <2>3, <2>4, <2>5 DEF Rounds
  <2> QED BY <2>6
<1> HIDE DEF T
<1>3. n \in T
  BY <1>1, <1>2, Induct
<1> QED BY <1>3 DEF T

(***************************************************************************)
(* Routing: the stored form of a policy.                                   *)
(***************************************************************************)
\* The sizes of blocks.
LEMMA Powers ==
  /\ PowerOfTwo[0] = 1
  /\ \A k \in 0..Width : PowerOfTwo[k] \in Nat \ {0}
  /\ \A k \in 1..Width : PowerOfTwo[k] = 2 * PowerOfTwo[k - 1]
<1> DEFINE g == [i \in 1..Width |-> [y \in Nat |-> 2 * y]]
           P == PowerOfTwo
<1>1. Width \in Nat
  BY RoutingAssumption
<1>2. \A i \in 1..Width : \A y \in Nat : g[i][y] \in Nat
  OBVIOUS
<1> HIDE DEF g
<1>3. PICK f : Rounds(Nat, 1, g, Width, f)
  BY <1>1, <1>2, RoundsExist
<1>4. f = [k \in 0..Width |-> IF k = 0 THEN 1 ELSE 2 * f[k - 1]]
  <2>1. ASSUME NEW k \in 1..Width PROVE f[k] = 2 * f[k - 1]
    <3>1. f[k] = g[k][f[k - 1]] /\ f[k - 1] \in Nat
      BY <1>1, <1>3 DEF Rounds
    <3> QED BY <3>1 DEF g
  <2>2. f[0] = 1 /\ f \in [0..Width -> Nat]
    BY <1>3 DEF Rounds
  <2> QED BY <1>1, <2>1, <2>2
<1>5. P = [k \in 0..Width |-> IF k = 0 THEN 1 ELSE 2 * P[k - 1]]
  BY <1>4 DEF PowerOfTwo
<1> HIDE DEF P
<1>6. /\ P[0] = 1
      /\ \A k \in 1..Width : P[k] = 2 * P[k - 1]
  BY <1>1, <1>5
<1> DEFINE T == {k \in 0..Width : P[k] \in Nat \ {0}}
<1>7. 0 \in T
  BY <1>1, <1>6
<1>8. \A k \in 1..Width : k - 1 \in T => k \in T
  BY <1>1, <1>6
<1> HIDE DEF T
<1>9. \A k \in 0..Width : k \in T
  BY <1>1, <1>7, <1>8, Induct
<1>10. \A k \in 0..Width : P[k] \in Nat \ {0}
  BY <1>9 DEF T
<1> QED BY <1>6, <1>10 DEF P

\* Masking a CIDR a second time changes nothing.
LEMMA MaskedTwice ==
  ASSUME NEW t \in Texts, Valid(t)
  PROVE  /\ BlockSize(t) \in Nat \ {0}
         /\ Masked(t) \in Texts /\ Valid(Masked(t)) /\ Masked(t).bits = t.bits
         /\ Masked(t).addr = t.addr - (t.addr % BlockSize(t))
         /\ Masked(t).addr % BlockSize(t) = 0
         /\ Masked(Masked(t)) = Masked(t)
<1> DEFINE B == BlockSize(t)
           a == t.addr - (t.addr % B)
<1>1. Width \in Nat /\ t.bits \in 0..Width /\ t.addr \in Addresses /\ PowerOfTwo[Width] \in Nat
  BY Powers, RoutingAssumption DEF Texts, Valid
<1>2. B \in Nat \ {0}
  BY <1>1, Powers DEF BlockSize
<1>3. t.addr \in Nat /\ t.addr <= PowerOfTwo[Width] - 1
  BY <1>1 DEF Addresses
<1> HIDE DEF B
<1>4. a \in Nat /\ a <= t.addr /\ a % B = 0
  BY <1>2, <1>3, SMTT(30)
<1>5. Masked(t) = [t EXCEPT !.addr = a]
  BY DEF Masked, B
<1> HIDE DEF a
<1>6. Masked(t).addr = a /\ Masked(t).bits = t.bits /\ a \in Addresses
  BY <1>1, <1>3, <1>4, <1>5 DEF Addresses, Texts
<1>7. Masked(t) \in Texts /\ Valid(Masked(t))
  BY <1>5, <1>6 DEF Texts, Valid
<1>8. BlockSize(Masked(t)) = B
  BY <1>6 DEF BlockSize, B
<1>9. Masked(Masked(t)) = [Masked(t) EXCEPT !.addr = a - (a % B)]
  BY <1>6, <1>8 DEF Masked
<1>10. Masked(Masked(t)) = Masked(t)
  BY <1>4, <1>6, <1>7, <1>9 DEF Texts
<1> QED BY <1>2, <1>4, <1>6, <1>7, <1>10 DEF B, a
CIDRs == {t \in Texts : Valid(t)}

\* What a list is after masking, and without repetitions.
Tidied(list) == /\ list \in Seq(CIDRs)
                /\ NoRepeats(list)
                /\ \A i \in 1..Len(list) : Masked(list[i]) = list[i]

\* What normalizeIPv4Prefixes makes of a list whose texts are all CIDRs.
LEMMA NormalizedList ==
  ASSUME NEW texts \in Seq(Texts), \A i \in DOMAIN texts : Valid(texts[i])
  PROVE  /\ Tidied(normalizeIPv4Prefixes(texts))
         /\ Len(normalizeIPv4Prefixes(texts)) <= Len(texts)
         /\ Elements(normalizeIPv4Prefixes(texts)) = {Masked(texts[i]) : i \in 1..Len(texts)}
         /\ normalizeIPv4Prefixes(texts) = <<>> <=> texts = <<>>
<1> DEFINE m == [i \in DOMAIN texts |-> Masked(texts[i])]
           n == normalizeIPv4Prefixes(texts)
<1>1. n = distinct(m)
  BY DEF normalizeIPv4Prefixes, distinct
<1>2. \A i \in 1..Len(texts) : /\ texts[i] \in CIDRs /\ Masked(texts[i]) \in CIDRs
                               /\ Masked(Masked(texts[i])) = Masked(texts[i])
  BY MaskedTwice DEF CIDRs
<1>3. m \in Seq(CIDRs) /\ Len(m) = Len(texts) /\ \A i \in 1..Len(m) : m[i] = Masked(texts[i])
  BY <1>2
<1> HIDE DEF m, n
<1>4. /\ n \in Seq(CIDRs) /\ Len(n) <= Len(m) /\ NoRepeats(n)
      /\ Elements(n) = Elements(m)
  BY <1>1, <1>3, Distinct
<1>5. Elements(n) = {Masked(texts[i]) : i \in 1..Len(texts)}
  BY <1>3, <1>4 DEF Elements
<1>6. ASSUME NEW i \in 1..Len(n) PROVE Masked(n[i]) = n[i]
  <2>1. n[i] \in {Masked(texts[j]) : j \in 1..Len(texts)}
    BY <1>5 DEF Elements
  <2> QED BY <1>2, <2>1
<1>7. n = <<>> <=> texts = <<>>
  <2>1. n = <<>> <=> Len(n) = 0
    BY <1>4
  <2>2. texts = <<>> <=> Len(texts) = 0
    OBVIOUS
  <2>3. Len(n) \in Nat /\ Len(texts) \in Nat
    BY <1>4
  <2>4. ASSUME Len(texts) # 0 PROVE Len(n) # 0
    <3>1. 1 \in 1..Len(texts)
      BY <2>3, <2>4
    <3>2. Masked(texts[1]) \in {n[i] : i \in 1..Len(n)}
      BY <1>5, <3>1 DEF Elements
    <3>3. PICK i \in 1..Len(n) : TRUE
      BY <3>2
    <3> QED BY <3>3
  <2> QED BY <1>3, <1>4, <2>1, <2>2, <2>3, <2>4
<1> QED BY <1>3, <1>4, <1>5, <1>6, <1>7 DEF Tidied, n

\* A tidied list stays as it is.
LEMMA TidiedStays ==
  ASSUME NEW list, Tidied(list)
  PROVE  normalizeIPv4Prefixes(list) = list
<1> DEFINE m == [i \in DOMAIN list |-> Masked(list[i])]
<1>1. normalizeIPv4Prefixes(list) = distinct(m)
  BY DEF normalizeIPv4Prefixes, distinct
<1>2. list \in Seq(CIDRs) /\ NoRepeats(list)
  BY DEF Tidied
<1>3. m = list
  BY <1>2 DEF Tidied
<1> HIDE DEF m
<1>4. distinct(list) = list
  BY <1>2, Distinct
<1> QED BY <1>1, <1>3, <1>4

\* What NormalizeRouting stores: the full tunnel, or the lists of the request tidied.
LEMMA StoredPolicy ==
  ASSUME NEW r \in Routings, NormalizeRouting(r) # InvalidRouting, r # Full
  PROVE  LET s == NormalizeRouting(r)
         IN /\ s = [mode |-> r.mode, allowed |-> normalizeIPv4Prefixes(r.allowed),
                    excluded |-> normalizeIPv4Prefixes(r.excluded)]
            /\ \/ r.mode = "bypass" /\ r.allowed = <<>> /\ r.excluded # <<>>
               \/ r.mode = "split" /\ r.allowed # <<>>
            /\ Len(r.allowed) <= MaxRoutingListEntries
            /\ Len(r.excluded) <= MaxRoutingListEntries
            /\ \A i \in DOMAIN r.allowed : Valid(r.allowed[i])
            /\ \A i \in DOMAIN r.excluded : Valid(r.excluded[i])
            /\ computable(s)
<1>1. Len(r.allowed) \in Nat /\ Len(r.excluded) \in Nat /\ MaxRoutingListEntries \in Nat
  BY RoutingAssumption DEF Routings
<1> QED BY <1>1 DEF NormalizeRouting

\* A stored policy is accepted again as it is, and can be rendered.
LEMMA StoredUsable ==
  ASSUME NEW r \in Routings, NormalizeRouting(r) # InvalidRouting
  PROVE  LET s == NormalizeRouting(r)
         IN NormalizeRouting(s) = s /\ routingAllowedIPs(s).v4 # <<>>
<1> DEFINE s == NormalizeRouting(r)
<1>1. CASE r = Full
  <2>1. s = Full
    BY <1>1 DEF NormalizeRouting
  <2>2. NormalizeRouting(Full) = Full
    BY DEF NormalizeRouting
  <2>3. Full.mode = "full"
    BY DEF Full
  <2>4. routingAllowedIPs(Full).v4 = <<Everything>>
    BY <2>3 DEF routingAllowedIPs
  <2> QED BY <2>1, <2>2, <2>4
<1>2. CASE r # Full
  <2> DEFINE al == normalizeIPv4Prefixes(r.allowed)
             ex == normalizeIPv4Prefixes(r.excluded)
  <2> HIDE DEF al, ex
  <2>1. /\ s = [mode |-> r.mode, allowed |-> al, excluded |-> ex]
        /\ \/ r.mode = "bypass" /\ r.allowed = <<>> /\ r.excluded # <<>>
           \/ r.mode = "split" /\ r.allowed # <<>>
        /\ Len(r.allowed) <= MaxRoutingListEntries
        /\ Len(r.excluded) <= MaxRoutingListEntries
        /\ \A i \in DOMAIN r.allowed : Valid(r.allowed[i])
        /\ \A i \in DOMAIN r.excluded : Valid(r.excluded[i])
        /\ computable(s)
    BY <1>2, StoredPolicy DEF al, ex
  <2>2. r.allowed \in Seq(Texts) /\ r.excluded \in Seq(Texts) /\ MaxRoutingListEntries \in Nat
    BY RoutingAssumption DEF Routings
  <2>3. Tidied(al) /\ Len(al) <= Len(r.allowed) /\ (al = <<>> <=> r.allowed = <<>>)
    BY <2>1, <2>2, NormalizedList DEF al
  <2>4. Tidied(ex) /\ Len(ex) <= Len(r.excluded) /\ (ex = <<>> <=> r.excluded = <<>>)
    BY <2>1, <2>2, NormalizedList DEF ex
  <2> HIDE DEF s
  <2>5. s.mode = r.mode /\ s.allowed = al /\ s.excluded = ex
    BY <2>1
  <2>6. normalizeIPv4Prefixes(al) = al /\ normalizeIPv4Prefixes(ex) = ex
    BY <2>3, <2>4, TidiedStays
  <2>7. \/ s.mode = "bypass" /\ s.allowed = <<>> /\ s.excluded # <<>>
        \/ s.mode = "split" /\ s.allowed # <<>>
    BY <2>1, <2>3, <2>4, <2>5
  <2>8. ~(Len(al) > MaxRoutingListEntries) /\ ~(Len(ex) > MaxRoutingListEntries)
    <3>1. Len(al) \in Nat /\ Len(ex) \in Nat /\ Len(r.allowed) \in Nat /\ Len(r.excluded) \in Nat
      BY <2>2, <2>3, <2>4 DEF Tidied
    <3> QED BY <2>1, <2>2, <2>3, <2>4, <3>1
  <2>9. (\A i \in DOMAIN al : Valid(al[i])) /\ (\A i \in DOMAIN ex : Valid(ex[i]))
    BY <2>3, <2>4 DEF Tidied, CIDRs
  <2>10. s # Full
    BY <2>7 DEF Full
  <2>11. [mode |-> s.mode, allowed |-> al, excluded |-> ex] = s
    BY <2>1, <2>5
  <2>12. NormalizeRouting(s) = s
    BY <2>1, <2>5, <2>6, <2>7, <2>8, <2>9, <2>10, <2>11 DEF NormalizeRouting
  <2>13. routingAllowedIPs(s).v4 # <<>>
    BY <2>1, <2>7 DEF routingAllowedIPs, computable
  <2> QED BY <2>12, <2>13 DEF s
<1> QED BY <1>1, <1>2

\* A policy is looked at as it was received and normalised.
PolicyIs == policy = NoPolicy \/ \E r \in Policies : policy = [asked |-> r, stored |-> NormalizeRouting(r)]

LEMMA PolicyInvariant == SettingsSpec => []PolicyIs
<1>1. SettingsInit => PolicyIs
  BY DEF SettingsInit, PolicyIs
<1>2. PolicyIs /\ [SettingsNext]_settings => PolicyIs'
  BY DEF PolicyIs, SettingsNext, Answer, settings
<1> QED BY <1>1, <1>2, PTL DEF SettingsSpec

\* PolicyStaysUsable: NormalizeRouting of what NormalizeRouting stored gives the
\* same policy again, as masking and dropping repetitions are done once and for all,
\* and the AllowedIPs it computed before it accepted the policy are those every
\* later configuration gets (routing.go:38-98, 112-136).
THEOREM PolicyUsable == SettingsSpec => []PolicyStaysUsable
<1>1. PolicyIs => PolicyStaysUsable
  <2> SUFFICES ASSUME PolicyIs, Accepted
               PROVE  NormalizeRouting(policy.stored) = policy.stored /\ Rendered # <<>>
    BY DEF PolicyStaysUsable
  <2>1. PICK r \in Policies : policy = [asked |-> r, stored |-> NormalizeRouting(r)]
    BY DEF PolicyIs, Accepted
  <2>2. r \in Routings /\ policy.stored = NormalizeRouting(r) /\ NormalizeRouting(r) # InvalidRouting
    BY <2>1, PoliciesAssumption DEF Accepted
  <2>3. NormalizeRouting(NormalizeRouting(r)) = NormalizeRouting(r)
        /\ routingAllowedIPs(NormalizeRouting(r)).v4 # <<>>
    BY <2>2, StoredUsable
  <2> QED BY <2>2, <2>3 DEF Rendered
<1> QED BY <1>1, PolicyInvariant, PTL

(***************************************************************************)
(* Routing: blocks.                                                        *)
(***************************************************************************)
\* Multiples of b are b apart.
LEMMA Multiples ==
  ASSUME NEW b \in Nat \ {0}, NEW x \in Int, NEW y \in Int, x % b = 0, y % b = 0, x < y
  PROVE  x + b <= y
<1> DEFINE p == x \div b
           q == y \div b
<1>1. p \in Int /\ q \in Int /\ x = b * p /\ y = b * q
  <2>1. x = b * p + (x % b) /\ y = b * q + (y % b)
    OBVIOUS
  <2> QED BY <2>1
<1> HIDE DEF p, q
<1>2. p < q
  <2> SUFFICES ASSUME q <= p PROVE FALSE
    BY <1>1
  <2>1. b * q <= b * p
    BY <1>1
  <2> QED BY <1>1, <2>1
<1>3. b * (p + 1) <= b * q
  BY <1>1, <1>2
<1> QED BY <1>1, <1>3

LEMMA Remainder ==
  ASSUME NEW b \in Nat \ {0}, NEW q \in Int, NEW r \in 0..(b - 1)
  PROVE  (q * b + r) % b = r
OBVIOUS

LEMMA RoundedDown ==
  ASSUME NEW b \in Nat \ {0}, NEW a \in Int
  PROVE  (a - (a % b)) % b = 0
OBVIOUS

\* Masking gives the block an address is in.
LEMMA Aligned ==
  ASSUME NEW b \in Nat \ {0}, NEW x \in Int, NEW a \in Int, x % b = 0
  PROVE  a - (a % b) = x <=> x <= a /\ a < x + b
<1> DEFINE y == a - (a % b)
<1>1. y \in Int /\ y % b = 0 /\ y <= a /\ a < y + b
  <2>1. a % b \in 0..(b - 1)
    OBVIOUS
  <2>2. (a - (a % b)) % b = 0
    BY RoundedDown
  <2> QED BY <2>1, <2>2
<1> HIDE DEF y
<1>2. y < x => y + b <= x
  BY <1>1, Multiples
<1>3. x < y => x + b <= y
  BY <1>1, Multiples
<1>4. y = x <=> x <= a /\ a < x + b
  BY <1>1, <1>2, <1>3
<1> QED BY <1>4 DEF y

\* A smaller block divides a larger one.
LEMMA PowersDivide ==
  ASSUME NEW j \in 0..Width, NEW k \in 0..Width, j <= k
  PROVE  PowerOfTwo[k] % PowerOfTwo[j] = 0 /\ PowerOfTwo[j] <= PowerOfTwo[k]
<1> DEFINE b == PowerOfTwo[j]
           T == {i \in Nat : j + i \in 0..Width =>
                               \E m \in Nat \ {0} : PowerOfTwo[j + i] = m * b}
<1>1. Width \in Nat /\ j \in Nat /\ k \in Nat /\ k - j \in Nat
  BY RoutingAssumption
<1>2. b \in Nat \ {0} /\ PowerOfTwo[k] \in Nat
  BY Powers
<1>3. 0 \in T
  <2>1. PowerOfTwo[j + 0] = 1 * b
    BY <1>1, <1>2
  <2> QED BY <2>1
<1>4. ASSUME NEW i \in 1..(k - j), i - 1 \in T PROVE i \in T
  <2> SUFFICES ASSUME j + i \in 0..Width PROVE \E m \in Nat \ {0} : PowerOfTwo[j + i] = m * b
    BY <1>1
  <2>1. j + (i - 1) \in 0..Width /\ j + i \in 1..Width /\ (j + i) - 1 = j + (i - 1)
    BY <1>1
  <2>2. PICK m \in Nat \ {0} : PowerOfTwo[j + (i - 1)] = m * b
    BY <1>4, <2>1
  <2>3. PowerOfTwo[j + i] = 2 * PowerOfTwo[j + (i - 1)]
    BY <2>1, Powers
  <2>4. PowerOfTwo[j + i] = (2 * m) * b /\ 2 * m \in Nat \ {0}
    BY <1>2, <2>2, <2>3
  <2> QED BY <2>4
<1> HIDE DEF T
<1>5. k - j \in T
  BY <1>1, <1>3, <1>4, Induct
<1>6. PICK m \in Nat \ {0} : PowerOfTwo[k] = m * b
  <2>1. j + (k - j) = k
    BY <1>1
  <2> QED BY <1>5, <2>1 DEF T
<1> HIDE DEF b
<1>7. (m * b) % b = 0
  BY <1>2
<1>8. b <= m * b
  BY <1>2
<1> QED BY <1>6, <1>7, <1>8 DEF b

\* A multiple of a large block is one of a smaller block.
LEMMA DividesDown ==
  ASSUME NEW j \in 0..Width, NEW k \in 0..Width, j <= k, NEW x \in Int, x % PowerOfTwo[k] = 0
  PROVE  x % PowerOfTwo[j] = 0
<1> DEFINE b == PowerOfTwo[j]
           c == PowerOfTwo[k]
<1>1. b \in Nat \ {0} /\ c \in Nat \ {0} /\ c % b = 0
  BY Powers, PowersDivide
<1>2. x % c = 0
  OBVIOUS
<1> HIDE DEF b, c
<1> DEFINE m == c \div b
           n == x \div c
<1>3. m \in Int /\ n \in Int /\ c = b * m /\ x = c * n
  <2>1. c = b * m + (c % b) /\ x = c * n + (x % c)
    BY <1>1
  <2> QED BY <1>1, <1>2, <2>1
<1> HIDE DEF m, n
<1>4. x = (m * n) * b
  BY <1>1, <1>3
<1>5. ((m * n) * b) % b = 0
  BY <1>1, <1>3
<1> QED BY <1>4, <1>5 DEF b

\* An aligned block of addresses ends with an address.
LEMMA BlockFits ==
  ASSUME NEW k \in 0..Width, NEW x \in Addresses, x % PowerOfTwo[k] = 0
  PROVE  x + PowerOfTwo[k] <= PowerOfTwo[Width]
<1>1. Width \in 0..Width /\ k <= Width
  BY RoutingAssumption
<1>2. PowerOfTwo[Width] % PowerOfTwo[k] = 0 /\ PowerOfTwo[k] \in Nat \ {0} /\ PowerOfTwo[Width] \in Nat
  BY <1>1, Powers, PowersDivide
<1>3. x \in Int /\ x < PowerOfTwo[Width]
  BY <1>2 DEF Addresses
<1> QED BY <1>2, <1>3, Multiples

(***************************************************************************)
(* Routing: ranges.                                                        *)
(***************************************************************************)
Intervals == {r \in [start: Addresses, end: Addresses] : r.start <= r.end}
InRange(r, a) == r.start <= a /\ a <= r.end
Within(rs, a) == \E i \in 1..Len(rs) : InRange(rs[i], a)

RangeOf(t) == range(Masked(t).addr, Masked(t).addr + BlockSize(t) - 1)

LEMMA AddressTypes ==
  /\ Addresses \subseteq Nat
  /\ \A r \in Intervals : /\ r \in [start: Addresses, end: Addresses]
                          /\ r.start \in Nat /\ r.end \in Nat
                          /\ r.start \in Addresses /\ r.end \in Addresses /\ r.start <= r.end
BY Powers, RoutingAssumption DEF Addresses, Intervals

LEMMA SmallerAddress ==
  ASSUME NEW a \in Addresses, NEW x \in Nat, x <= a
  PROVE  x \in Addresses
BY Powers, RoutingAssumption DEF Addresses

\* The range of a CIDR has the addresses the CIDR covers.
LEMMA RangeOfCIDR ==
  ASSUME NEW t \in CIDRs
  PROVE  /\ RangeOf(t) \in Intervals
         /\ \A a \in Addresses : InRange(RangeOf(t), a) <=> a \in Covers(t)
<1> DEFINE b == BlockSize(t)
           x == Masked(t).addr
           k == Width - t.bits
<1>1. b \in Nat \ {0} /\ Masked(t) \in Texts /\ x % b = 0
  BY MaskedTwice DEF CIDRs
<1>2. x \in Addresses /\ x \in Nat /\ PowerOfTwo[Width] \in Nat /\ k \in 0..Width /\ b = PowerOfTwo[k]
  <2>1. Masked(t).addr \in Addresses
    BY <1>1 DEF Texts
  <2>2. t.bits \in 0..Width /\ Width \in Nat
    BY RoutingAssumption DEF Texts, CIDRs, Valid
  <2>3. k \in 0..Width
    BY <2>2
  <2>4. b = PowerOfTwo[k]
    BY DEF BlockSize
  <2>5. Masked(t).addr \in Nat
    BY <2>1, AddressTypes
  <2>6. PowerOfTwo[Width] \in Nat
    BY <2>2, Powers
  <2> QED BY <2>1, <2>3, <2>4, <2>5, <2>6
<1>3. x % PowerOfTwo[k] = 0
  BY <1>1, <1>2
<1>4. x + b <= PowerOfTwo[Width]
  BY <1>2, <1>3, BlockFits
<1>5. RangeOf(t) = [start |-> x, end |-> x + b - 1]
  BY DEF RangeOf, range
<1>6. \A a \in Addresses : a \in Covers(t) <=> x = a - (a % b)
  BY DEF Covers
<1> HIDE DEF b, x, k
<1>7. x + b - 1 \in Addresses /\ x <= x + b - 1
  BY <1>1, <1>2, <1>4 DEF Addresses
<1>8. RangeOf(t) \in Intervals
  BY <1>2, <1>5, <1>7 DEF Intervals
<1>9. ASSUME NEW a \in Addresses PROVE InRange(RangeOf(t), a) <=> a \in Covers(t)
  <2>1. a \in Int
    BY AddressTypes
  <2>2. InRange(RangeOf(t), a) <=> x <= a /\ a < x + b
    BY <1>1, <1>2, <1>5, <2>1 DEF InRange
  <2>3. a - (a % b) = x <=> x <= a /\ a < x + b
    BY <1>1, <1>2, <2>1, Aligned
  <2> QED BY <1>6, <2>2, <2>3
<1> QED BY <1>8, <1>9

\* One more text in the loop of prefixesToIPv4Ranges.
Ranged(out, t) == IF Valid(t) THEN Append(out, RangeOf(t)) ELSE out

LEMMA RangesOfCIDRs ==
  ASSUME NEW ps \in Seq(CIDRs)
  PROVE  /\ prefixesToIPv4Ranges(ps) \in Seq(Intervals)
         /\ \A a \in Addresses : Within(prefixesToIPv4Ranges(ps), a) <=> a \in Union(ps)
<1> DEFINE n == Len(ps)
           X == Seq(Intervals)
           Is(f) == f = [i \in 0..n |-> IF i = 0 THEN <<>> ELSE Ranged(f[i - 1], ps[i])]
           F == CHOOSE f : Is(f)
           g == [i \in 1..n |-> [y \in X |-> Ranged(y, ps[i])]]
<1>1. prefixesToIPv4Ranges(ps) = F[n]
  BY DEF prefixesToIPv4Ranges, Ranged, RangeOf
<1>n. n \in Nat /\ <<>> \in X
  OBVIOUS
<1>2. \A i \in 1..n : ps[i] \in CIDRs /\ Valid(ps[i]) /\ RangeOf(ps[i]) \in Intervals
  BY RangeOfCIDR DEF CIDRs
<1>3. \A i \in 1..n : \A y \in X : g[i][y] = Ranged(y, ps[i]) /\ g[i][y] \in X
  BY <1>2 DEF Ranged
<1> HIDE DEF n, g
<1>4. PICK f : Rounds(X, <<>>, g, n, f)
  <2> HIDE DEF X
  <2> QED BY <1>n, <1>3, RoundsExist
<1>5. Is(f)
  <2> HIDE DEF X
  <2>1. ASSUME NEW i \in 1..n PROVE f[i] = Ranged(f[i - 1], ps[i])
    <3>1. f[i] = g[i][f[i - 1]] /\ f[i - 1] \in X
      BY <1>n, <1>4 DEF Rounds
    <3> QED BY <1>3, <3>1
  <2>2. f[0] = <<>> /\ f \in [0..n -> X]
    BY <1>4 DEF Rounds
  <2> QED BY <1>n, <2>1, <2>2
<1>6. Is(F)
  BY <1>5
<1> HIDE DEF F
<1>7. F[0] = <<>> /\ \A i \in 1..n : F[i] = Append(F[i - 1], RangeOf(ps[i]))
  <2>1. \A i \in 0..n : F[i] = IF i = 0 THEN <<>> ELSE Ranged(F[i - 1], ps[i])
    BY <1>6
  <2>2. 0 \in 0..n /\ F[0] = <<>>
    BY <1>n, <2>1
  <2>3. ASSUME NEW i \in 1..n PROVE F[i] = Append(F[i - 1], RangeOf(ps[i]))
    <3>1. F[i] = Ranged(F[i - 1], ps[i])
      BY <1>n, <2>1
    <3> QED BY <1>2, <3>1 DEF Ranged
  <2> QED BY <2>2, <2>3
<1> DEFINE P(m) == /\ F[m] \in X /\ Len(F[m]) = m
                   /\ \A j \in 1..m : F[m][j] = RangeOf(ps[j])
           T == {m \in 0..n : P(m)}
<1>8. P(0)
  <2>1. F[0] \in X /\ Len(F[0]) = 0
    BY <1>n, <1>7
  <2> QED BY <2>1
<1>9. ASSUME NEW i \in 1..n, P(i - 1) PROVE P(i)
  <2>1. F[i] = Append(F[i - 1], RangeOf(ps[i])) /\ RangeOf(ps[i]) \in Intervals
    BY <1>2, <1>7
  <2>2. F[i - 1] \in X /\ Len(F[i - 1]) = i - 1 /\ \A j \in 1..(i - 1) : F[i - 1][j] = RangeOf(ps[j])
    BY <1>9
  <2> QED BY <2>1, <2>2
<1> HIDE DEF P
<1>10. \A i \in 0..n : i \in T
  <2>1. 0 \in T
    BY <1>n, <1>8
  <2>2. \A i \in 1..n : i - 1 \in T => i \in T
    BY <1>n, <1>9
  <2> HIDE DEF T
  <2> QED BY <1>n, <2>1, <2>2, Induct
<1>11. F[n] \in X /\ Len(F[n]) = n /\ \A j \in 1..n : F[n][j] = RangeOf(ps[j])
  <2>1. P(n)
    BY <1>n, <1>10
  <2> QED BY <2>1 DEF P
<1>12. ASSUME NEW a \in Addresses PROVE Within(F[n], a) <=> a \in Union(ps)
  <2>1. Within(F[n], a) <=> \E j \in 1..n : InRange(RangeOf(ps[j]), a)
    BY <1>11 DEF Within
  <2>2. a \in Union(ps) <=> \E j \in 1..n : a \in Covers(ps[j])
    BY DEF Union, ToSet, n
  <2>3. \A j \in 1..n : InRange(RangeOf(ps[j]), a) <=> a \in Covers(ps[j])
    BY <1>2, RangeOfCIDR
  <2> QED BY <2>1, <2>2, <2>3
<1> QED BY <1>1, <1>11, <1>12

LEMMA PrecedesOrder ==
  ASSUME NEW r \in Intervals, NEW s \in Intervals
  PROVE  /\ ~precedes(r, s) => s.start <= r.start
         /\ \A t \in Intervals : precedes(r, s) /\ (t = s \/ ~precedes(t, s)) => ~precedes(t, r)
<1>1. \A t \in Intervals : t.start \in Nat /\ t.end \in Nat
  BY AddressTypes
<1> QED BY <1>1 DEF precedes

\* p puts the first m ranges into order.
Orders(rs, p, m) ==
  /\ p \in [1..m -> 1..m]
  /\ \A i, j \in 1..m : p[i] = p[j] => i = j
  /\ \A k \in 1..m : \E i \in 1..m : p[i] = k
  /\ \A i, j \in 1..m : i < j => ~precedes(rs[p[j]], rs[p[i]])

\* One more range finds its place: behind those it does not precede.
LEMMA OrderNext ==
  ASSUME NEW rs \in Seq(Intervals), NEW m \in 1..Len(rs), NEW p, Orders(rs, p, m - 1)
  PROVE  \E o : Orders(rs, o, m)
<1>1. m \in Nat /\ m - 1 \in Nat /\ m # 0
  OBVIOUS
<1> DEFINE S == {i \in 1..m : i = m \/ precedes(rs[m], rs[p[i]])}
<1>2. S \subseteq Nat /\ m \in S
  BY <1>1
<1>3. PICK q \in S : \A k \in S : q <= k
  <2> HIDE DEF S
  <2> QED BY <1>2, Least
<1>4. /\ q \in 1..m /\ (q = m \/ precedes(rs[m], rs[p[q]]))
      /\ \A i \in 1..(q - 1) : i \in 1..(m - 1) /\ ~precedes(rs[m], rs[p[i]])
  <2>1. q \in 1..m /\ (q = m \/ precedes(rs[m], rs[p[q]]))
    BY <1>3
  <2>2. ASSUME NEW i \in 1..(q - 1) PROVE i \in 1..(m - 1) /\ ~precedes(rs[m], rs[p[i]])
    <3>1. i \notin S /\ i \in 1..m
      BY <1>1, <1>3, <2>1
    <3> QED BY <1>1, <2>1, <3>1
  <2> QED BY <2>1, <2>2
<1> HIDE DEF S
<1> DEFINE o == [i \in 1..m |-> IF i < q THEN p[i] ELSE IF i = q THEN m ELSE p[i - 1]]
<1>5. /\ p \in [1..(m - 1) -> 1..(m - 1)]
      /\ \A i, j \in 1..(m - 1) : p[i] = p[j] => i = j
      /\ \A k \in 1..(m - 1) : \E i \in 1..(m - 1) : p[i] = k
      /\ \A i, j \in 1..(m - 1) : i < j => ~precedes(rs[p[j]], rs[p[i]])
  BY DEF Orders
<1>6. \A i \in 1..m : /\ i < q => i \in 1..(m - 1) /\ o[i] = p[i]
                      /\ i = q => o[i] = m
                      /\ i > q => i - 1 \in 1..(m - 1) /\ o[i] = p[i - 1]
  BY <1>1, <1>4
<1>7. ASSUME NEW i \in 1..(m - 1) PROVE p[i] \in 1..(m - 1) /\ rs[p[i]] \in Intervals
  <2>1. p[i] \in 1..(m - 1)
    BY <1>5
  <2>2. p[i] \in 1..Len(rs)
    BY <1>1, <2>1
  <2> QED BY <2>1, <2>2
<1>8. o \in [1..m -> 1..m]
  BY <1>1, <1>4, <1>7
<1> HIDE DEF o
<1>9. ASSUME NEW i \in 1..m, NEW j \in 1..m, o[i] = o[j] PROVE i = j
  <2>1. q \in Int /\ i \in Int /\ j \in Int
    BY <1>4
  <2>2. CASE i < q /\ j < q
    BY <1>5, <1>6, <1>9, <2>2
  <2>3. CASE i < q /\ j = q
    BY <1>1, <1>6, <1>7, <1>9, <2>3
  <2>4. CASE i < q /\ j > q
    <3>1. i = j - 1
      BY <1>5, <1>6, <1>9, <2>4
    <3> QED BY <2>1, <2>4, <3>1
  <2>5. CASE i = q /\ j < q
    BY <1>1, <1>6, <1>7, <1>9, <2>5
  <2>6. CASE i = q /\ j > q
    BY <1>1, <1>6, <1>7, <1>9, <2>6
  <2>7. CASE i > q /\ j < q
    <3>1. i - 1 = j
      BY <1>5, <1>6, <1>9, <2>7
    <3> QED BY <2>1, <2>7, <3>1
  <2>8. CASE i > q /\ j = q
    BY <1>1, <1>6, <1>7, <1>9, <2>8
  <2>9. CASE i > q /\ j > q
    <3>1. i - 1 = j - 1
      BY <1>5, <1>6, <1>9, <2>9
    <3> QED BY <2>1, <3>1
  <2> QED BY <2>1, <2>2, <2>3, <2>4, <2>5, <2>6, <2>7, <2>8, <2>9
<1>10. ASSUME NEW k \in 1..m PROVE \E i \in 1..m : o[i] = k
  <2>1. CASE k = m
    BY <1>4, <1>6, <2>1
  <2>2. CASE k # m
    <3>1. PICK i \in 1..(m - 1) : p[i] = k
      BY <1>1, <1>5, <2>2
    <3>2. CASE i < q
      <4>1. i \in 1..m /\ o[i] = p[i]
        BY <1>1, <1>6, <3>2
      <4> QED BY <3>1, <4>1
    <3>3. CASE ~(i < q)
      <4>1. i + 1 \in 1..m /\ i + 1 > q /\ (i + 1) - 1 = i
        BY <1>1, <1>4, <3>3
      <4>2. o[i + 1] = p[(i + 1) - 1]
        BY <1>6, <4>1
      <4> QED BY <3>1, <4>1, <4>2
    <3> QED BY <3>2, <3>3
  <2> QED BY <2>1, <2>2
<1>11. ASSUME NEW i \in 1..m, NEW j \in 1..m, i < j PROVE ~precedes(rs[o[j]], rs[o[i]])
  <2>1. q \in Int /\ i \in Int /\ j \in Int
    BY <1>4
  <2>2. CASE j < q
    <3>1. i < q /\ o[i] = p[i] /\ o[j] = p[j] /\ i \in 1..(m - 1) /\ j \in 1..(m - 1)
      BY <1>6, <1>11, <2>1, <2>2
    <3> QED BY <1>5, <1>11, <3>1
  <2>3. CASE j = q
    <3>1. i \in 1..(q - 1) /\ o[i] = p[i] /\ o[j] = m
      BY <1>6, <1>11, <2>1, <2>3
    <3> QED BY <1>4, <3>1
  <2>4. CASE i < q /\ j > q
    <3>1. /\ o[i] = p[i] /\ o[j] = p[j - 1] /\ i \in 1..(m - 1) /\ j - 1 \in 1..(m - 1)
          /\ i < j - 1
      BY <1>6, <2>1, <2>4
    <3> QED BY <1>5, <3>1
  <2>5. CASE i = q /\ j > q
    <3>1. o[i] = m /\ o[j] = p[j - 1] /\ j - 1 \in 1..(m - 1) /\ q <= j - 1 /\ q \in 1..(m - 1)
      BY <1>1, <1>4, <1>6, <2>1, <2>5
    <3>2. precedes(rs[m], rs[p[q]])
      BY <1>1, <1>4, <3>1
    <3>3. q = j - 1 \/ ~precedes(rs[p[j - 1]], rs[p[q]])
      BY <1>5, <3>1
    <3>4. rs[m] \in Intervals /\ rs[p[q]] \in Intervals /\ rs[p[j - 1]] \in Intervals
      BY <1>7, <3>1
    <3>5. ~precedes(rs[p[j - 1]], rs[m])
      BY <3>2, <3>3, <3>4, PrecedesOrder
    <3> QED BY <3>1, <3>5
  <2>6. CASE i > q /\ j > q
    <3>1. /\ o[i] = p[i - 1] /\ o[j] = p[j - 1] /\ i - 1 \in 1..(m - 1) /\ j - 1 \in 1..(m - 1)
          /\ i - 1 < j - 1
      BY <1>6, <1>11, <2>1, <2>6
    <3> QED BY <1>5, <3>1
  <2> QED BY <1>11, <2>1, <2>2, <2>3, <2>4, <2>5, <2>6
<1> QED BY <1>8, <1>9, <1>10, <1>11 DEF Orders

\* There is an order, and sorted gives the ranges in it.
LEMMA SortedRanges ==
  ASSUME NEW rs \in Seq(Intervals)
  PROVE  /\ sorted(rs) \in Seq(Intervals)
         /\ Len(sorted(rs)) = Len(rs)
         /\ \A i, j \in 1..Len(rs) : i < j => sorted(rs)[i].start <= sorted(rs)[j].start
         /\ \A a \in Addresses : Within(sorted(rs), a) <=> Within(rs, a)
<1> DEFINE n == Len(rs)
           P(m) == \E o : Orders(rs, o, m)
           T == {m \in 0..n : P(m)}
<1>1. n \in Nat /\ DOMAIN rs = 1..n
  OBVIOUS
<1>2. P(0)
  <2> DEFINE o == [i \in 1..0 |-> i]
  <2>1. Orders(rs, o, 0)
    BY DEF Orders
  <2> QED BY <2>1
<1>3. ASSUME NEW m \in 1..n, P(m - 1) PROVE P(m)
  BY <1>3, OrderNext
<1> HIDE DEF n, P
<1>4. P(n)
  <2>1. 0 \in T
    BY <1>1, <1>2
  <2>2. \A i \in 1..n : i - 1 \in T => i \in T
    BY <1>1, <1>3
  <2> HIDE DEF T
  <2>3. \A i \in 0..n : i \in T
    BY <1>1, <2>1, <2>2, Induct
  <2> QED BY <1>1, <2>3 DEF T
<1> DEFINE Is(p) == p \in Bijection(1..n, 1..n)
                    /\ \A i, j \in 1..n : i < j => ~precedes(rs[p[j]], rs[p[i]])
           o == CHOOSE p \in Bijection(1..n, 1..n) :
                  \A i, j \in 1..n : i < j => ~precedes(rs[p[j]], rs[p[i]])
<1>5. \E p : Is(p)
  <2>1. PICK p : Orders(rs, p, n)
    BY <1>4 DEF P
  <2>2. p \in Bijection(1..n, 1..n)
    BY <2>1 DEF Orders, Bijection, Injection, Surjection, IsInjective
  <2>3. Is(p)
    BY <2>1, <2>2 DEF Orders
  <2> QED BY <2>3
<1>6. Is(o)
  BY <1>5
<1>7. sorted(rs) = [i \in 1..n |-> rs[o[i]]]
  BY <1>1 DEF sorted
<1> HIDE DEF o
<1>8. o \in [1..n -> 1..n] /\ \A k \in 1..n : \E i \in 1..n : o[i] = k
  BY <1>6 DEF Bijection, Surjection
<1>9. \A i \in 1..n : rs[o[i]] \in Intervals /\ sorted(rs)[i] = rs[o[i]]
  BY <1>7, <1>8 DEF n
<1>10. sorted(rs) \in Seq(Intervals) /\ Len(sorted(rs)) = n
  BY <1>1, <1>7, <1>9
<1>11. ASSUME NEW i \in 1..n, NEW j \in 1..n, i < j
       PROVE  sorted(rs)[i].start <= sorted(rs)[j].start
  <2>1. ~precedes(rs[o[j]], rs[o[i]])
    BY <1>6, <1>11
  <2>2. rs[o[i]].start <= rs[o[j]].start
    BY <1>9, <2>1, PrecedesOrder
  <2> QED BY <1>9, <2>2
<1>12. ASSUME NEW a \in Addresses PROVE Within(sorted(rs), a) <=> Within(rs, a)
  <2>1. Within(sorted(rs), a) <=> \E i \in 1..n : InRange(rs[o[i]], a)
    BY <1>9, <1>10 DEF Within
  <2>2. Within(rs, a) <=> \E k \in 1..n : InRange(rs[k], a)
    BY DEF Within, n
  <2> QED BY <1>8, <2>1, <2>2
<1> QED BY <1>10, <1>11, <1>12 DEF n

\* Ranges in order with an address between each two.
Apart(rs) == \A i, j \in 1..Len(rs) : i < j => rs[i].end + 1 < rs[j].start

\* A range from w to x comes before one from y to z.
LEMMA Beyond ==
  ASSUME NEW w \in Nat, NEW x \in Nat, NEW y \in Nat, NEW z \in Nat,
         w <= x, x + 1 < y, y <= z
  PROVE  w <= y /\ x + 1 <= z
  OBVIOUS

\* The two things merge does.
LEMMA MergeIs ==
  ASSUME NEW m \in Seq(Intervals), NEW c \in Intervals
  PROVE  \/ /\ merge(m, c) = Append(m, c)
            /\ Len(m) > 0 => m[Len(m)].end + 1 < c.start
         \/ /\ Len(m) > 0
            /\ c.start <= m[Len(m)].end + 1
            /\ merge(m, c) \in Seq(Intervals)
            /\ Len(merge(m, c)) = Len(m)
            /\ \A k \in 1..(Len(m) - 1) : merge(m, c)[k] = m[k]
            /\ merge(m, c)[Len(m)].start = m[Len(m)].start
            /\ merge(m, c)[Len(m)].end = IF c.end > m[Len(m)].end THEN c.end ELSE m[Len(m)].end
<1> DEFINE l == Len(m)
<1>1. l \in Nat /\ (m = <<>> <=> l = 0) /\ c.start \in Nat /\ c.end \in Addresses /\ c.end \in Nat
  BY AddressTypes
<1>2. ASSUME l > 0 PROVE l \in 1..l /\ m[l] \in Intervals /\ m[l].start \in Nat /\ m[l].end \in Nat
  <2>1. l \in 1..l /\ m[l] \in Intervals
    BY <1>1, <1>2
  <2> QED BY <2>1, AddressTypes
<1>3. CASE m = <<>> \/ ~adjoins(Last(m), c)
  <2>1. merge(m, c) = Append(m, c)
    BY <1>3 DEF merge
  <2>2. ASSUME l > 0 PROVE m[l].end + 1 < c.start
    <3>1. ~(c.start <= m[l].end + 1)
      BY <1>1, <1>3, <2>2 DEF adjoins, Last
    <3> QED BY <1>1, <1>2, <2>2, <3>1
  <2> QED BY <2>1, <2>2
<1>4. CASE ~(m = <<>> \/ ~adjoins(Last(m), c))
  <2>1. l > 0 /\ c.start <= m[l].end + 1
    BY <1>1, <1>4 DEF adjoins, Last
  <2> DEFINE e == IF c.end > m[l].end THEN c.end ELSE m[l].end
             r == [m[l] EXCEPT !.end = e]
  <2>2. merge(m, c) = [m EXCEPT ![l] = r]
    BY <1>4 DEF merge
  <2>3. m[l] \in [start: Addresses, end: Addresses] /\ m[l].start <= m[l].end
    BY <1>2, <2>1, AddressTypes
  <2>4. r \in Intervals /\ r.start = m[l].start /\ r.end = e
    BY <1>1, <1>2, <2>1, <2>3 DEF Intervals
  <2> HIDE DEF e, r
  <2>5. /\ merge(m, c) \in Seq(Intervals) /\ Len(merge(m, c)) = l
        /\ \A k \in 1..(l - 1) : merge(m, c)[k] = m[k]
        /\ merge(m, c)[l] = r
    BY <1>1, <1>2, <2>1, <2>2, <2>4
  <2> QED BY <2>1, <2>4, <2>5 DEF e
<1> QED BY <1>3, <1>4

\* m is what the loop has merged of the first n ranges of s.
MergedSo(s, m, n) ==
  /\ m \in Seq(Intervals)
  /\ Apart(m)
  /\ \A k \in 1..Len(m) : n > 0 /\ m[k].start <= s[n].start
  /\ \A a \in Addresses : Within(m, a) <=> \E j \in 1..n : InRange(s[j], a)

LEMMA MergeNext ==
  ASSUME NEW s \in Seq(Intervals), \A i, j \in 1..Len(s) : i < j => s[i].start <= s[j].start,
         NEW n \in 1..Len(s), NEW m, MergedSo(s, m, n - 1)
  PROVE  MergedSo(s, merge(m, s[n]), n)
<1> DEFINE c == s[n]
           x == merge(m, c)
           l == Len(m)
<1>1. /\ m \in Seq(Intervals) /\ Apart(m) /\ l \in Nat
      /\ \A k \in 1..l : n - 1 > 0 /\ m[k].start <= s[n - 1].start
      /\ \A a \in Addresses : Within(m, a) <=> \E j \in 1..(n - 1) : InRange(s[j], a)
  BY DEF MergedSo
<1>2. n \in Nat /\ n > 0 /\ c \in Intervals
  OBVIOUS
<1>3. \A k \in 1..l : m[k] \in Intervals /\ m[k].start \in Nat /\ m[k].end \in Nat /\ m[k].start <= m[k].end
  BY <1>1, AddressTypes
<1>4. c.start \in Nat /\ c.end \in Nat /\ c.start <= c.end
  BY <1>2, AddressTypes
<1>5. ASSUME NEW k \in 1..l PROVE m[k].start <= c.start
  <2>1. n - 1 \in 1..Len(s) /\ n - 1 < n
    BY <1>1, <1>2
  <2>2. s[n - 1].start <= c.start /\ s[n - 1] \in Intervals
    BY <2>1
  <2>3. s[n - 1].start \in Nat /\ m[k].start \in Nat /\ m[k].start <= s[n - 1].start
    BY <1>1, <1>3, <2>2, AddressTypes
  <2>4. c.start \in Nat /\ s[n - 1].start <= c.start
    BY <1>4, <2>2
  <2> HIDE DEF c
  <2> QED BY <2>3, <2>4
<1>6. ASSUME NEW a \in Addresses
      PROVE  (\E j \in 1..n : InRange(s[j], a)) <=> Within(m, a) \/ InRange(c, a)
  <2>1. (\E j \in 1..n : InRange(s[j], a)) <=> (\E j \in 1..(n - 1) : InRange(s[j], a)) \/ InRange(s[n], a)
    BY <1>2
  <2> QED BY <1>1, <2>1
<1> HIDE DEF c
<1>7. CASE x = Append(m, c) /\ (l > 0 => m[l].end + 1 < c.start)
  <2>1. /\ x \in Seq(Intervals) /\ Len(x) = l + 1 /\ x[l + 1] = c
        /\ \A k \in 1..l : x[k] = m[k]
    BY <1>1, <1>2, <1>7
  <2> HIDE DEF x
  <2>2. ASSUME NEW k \in 1..l PROVE m[k].end + 1 < c.start
    <3>1. l \in 1..l /\ m[l].end + 1 < c.start
      BY <1>1, <1>7
    <3>2. CASE k = l
      BY <3>1, <3>2
    <3>3. CASE k # l
      <4>1. m[k].end + 1 < m[l].start
        BY <1>1, <3>1, <3>3 DEF Apart
      <4> QED BY <1>3, <1>4, <3>1, <4>1, SMTT(30)
    <3> QED BY <3>2, <3>3
  <2>3. Apart(x)
    <3> SUFFICES ASSUME NEW i \in 1..(l + 1), NEW j \in 1..(l + 1), i < j
                 PROVE  x[i].end + 1 < x[j].start
      BY <2>1 DEF Apart
    <3>1. i \in 1..l /\ x[i] = m[i]
      BY <1>1, <2>1
    <3>2. CASE j = l + 1
      BY <2>1, <2>2, <3>1, <3>2
    <3>3. CASE j # l + 1
      <4>1. j \in 1..l /\ x[j] = m[j]
        BY <1>1, <2>1, <3>3
      <4> QED BY <1>1, <3>1, <4>1 DEF Apart
    <3> QED BY <3>2, <3>3
  <2>4. ASSUME NEW k \in 1..Len(x) PROVE x[k].start <= c.start
    <3>1. CASE k = l + 1
      BY <1>4, <2>1, <3>1
    <3>2. CASE k # l + 1
      <4>1. k \in 1..l /\ x[k] = m[k]
        BY <1>1, <2>1, <3>2
      <4> QED BY <1>5, <4>1
    <3> QED BY <3>1, <3>2
  <2>5. ASSUME NEW a \in Addresses PROVE Within(x, a) <=> Within(m, a) \/ InRange(c, a)
    <3>1. (\E i \in 1..(l + 1) : InRange(x[i], a)) <=> (\E i \in 1..l : InRange(x[i], a)) \/ InRange(x[l + 1], a)
      BY <1>1
    <3>2. (\E i \in 1..l : InRange(x[i], a)) <=> Within(m, a)
      BY <2>1 DEF Within
    <3> QED BY <2>1, <3>1, <3>2 DEF Within
  <2>6. \A a \in Addresses : Within(x, a) <=> \E j \in 1..n : InRange(s[j], a)
    BY <1>6, <2>5
  <2> QED BY <1>2, <2>1, <2>3, <2>4, <2>6 DEF MergedSo, x, c
<1>8. CASE /\ l > 0 /\ c.start <= m[l].end + 1
           /\ x \in Seq(Intervals) /\ Len(x) = l
           /\ \A k \in 1..(l - 1) : x[k] = m[k]
           /\ x[l].start = m[l].start
           /\ x[l].end = IF c.end > m[l].end THEN c.end ELSE m[l].end
  <2> HIDE DEF x
  <2>1. l \in 1..l /\ m[l].start <= c.start
    BY <1>1, <1>5, <1>8
  <2>2. \A k \in 1..l : x[k].start = m[k].start /\ (k # l => x[k] = m[k])
    BY <1>1, <1>8
  <2>3. Apart(x)
    <3> SUFFICES ASSUME NEW i \in 1..l, NEW j \in 1..l, i < j
                 PROVE  x[i].end + 1 < x[j].start
      BY <1>8 DEF Apart
    <3>1. i # l
      BY <1>1
    <3>2. m[i].end + 1 < m[j].start
      BY <1>1 DEF Apart
    <3> QED BY <2>2, <3>1, <3>2
  <2>4. \A k \in 1..Len(x) : x[k].start <= c.start
    BY <1>5, <1>8, <2>2
  <2>5. ASSUME NEW a \in Addresses PROVE Within(x, a) <=> Within(m, a) \/ InRange(c, a)
    <3>1. a \in Nat
      BY AddressTypes
    <3>2. Within(x, a) <=> (\E i \in 1..(l - 1) : InRange(m[i], a)) \/ InRange(x[l], a)
      <4>1. (\E i \in 1..l : InRange(x[i], a)) <=> (\E i \in 1..(l - 1) : InRange(x[i], a)) \/ InRange(x[l], a)
        BY <1>1, <2>1
      <4> QED BY <1>8, <4>1 DEF Within
    <3>3. Within(m, a) <=> (\E i \in 1..(l - 1) : InRange(m[i], a)) \/ InRange(m[l], a)
      <4>1. (\E i \in 1..l : InRange(m[i], a)) <=> (\E i \in 1..(l - 1) : InRange(m[i], a)) \/ InRange(m[l], a)
        BY <1>1, <2>1
      <4> QED BY <4>1 DEF Within
    <3>4. InRange(x[l], a) <=> InRange(m[l], a) \/ InRange(c, a)
      BY <1>3, <1>4, <1>8, <2>1, <3>1, SMTT(30) DEF InRange
    <3> QED BY <3>2, <3>3, <3>4
  <2>6. \A a \in Addresses : Within(x, a) <=> \E j \in 1..n : InRange(s[j], a)
    BY <1>6, <2>5
  <2> QED BY <1>2, <1>8, <2>3, <2>4, <2>6 DEF MergedSo, x, c
<1> QED BY <1>1, <1>2, <1>7, <1>8, MergeIs

\* Merging leaves every address where it was, in ranges that are apart.
LEMMA MergedRanges ==
  ASSUME NEW rs \in Seq(Intervals)
  PROVE  /\ mergeIPv4Ranges(rs) \in Seq(Intervals)
         /\ Apart(mergeIPv4Ranges(rs))
         /\ \A a \in Addresses : Within(mergeIPv4Ranges(rs), a) <=> Within(rs, a)
<1> DEFINE s == sorted(rs)
           n == Len(s)
           X == Seq(Intervals)
           Is(f) == f = [i \in 0..n |-> IF i = 0 THEN <<>> ELSE merge(f[i - 1], s[i])]
           F == CHOOSE f : Is(f)
           g == [i \in 1..n |-> [y \in X |-> merge(y, s[i])]]
<1>1. mergeIPv4Ranges(rs) = F[n]
  BY DEF mergeIPv4Ranges
<1>2. /\ s \in Seq(Intervals)
      /\ \A i, j \in 1..n : i < j => s[i].start <= s[j].start
      /\ \A a \in Addresses : Within(s, a) <=> Within(rs, a)
  BY SortedRanges
<1> HIDE DEF s
<1>n. n \in Nat /\ <<>> \in X
  BY <1>2
<1>3. \A i \in 1..n : \A y \in X : g[i][y] = merge(y, s[i]) /\ g[i][y] \in X
  <2> TAKE i \in 1..n
  <2> TAKE y \in X
  <2>1. g[i][y] = merge(y, s[i])
    OBVIOUS
  <2>2. merge(y, s[i]) \in X
    <3>1. s[i] \in Intervals
      BY <1>2
    <3>2. merge(y, s[i]) = Append(y, s[i]) \/ merge(y, s[i]) \in Seq(Intervals)
      BY <3>1, MergeIs
    <3> QED BY <3>1, <3>2, SMTT(30)
  <2> QED BY <2>1, <2>2
<1> HIDE DEF n, g
<1>4. PICK f : Rounds(X, <<>>, g, n, f)
  <2> HIDE DEF X
  <2> QED BY <1>n, <1>3, RoundsExist
<1>5. Is(f)
  <2> HIDE DEF X
  <2>1. ASSUME NEW i \in 1..n PROVE f[i] = merge(f[i - 1], s[i])
    <3>1. f[i] = g[i][f[i - 1]] /\ f[i - 1] \in X
      BY <1>n, <1>4 DEF Rounds
    <3> QED BY <1>3, <3>1
  <2>2. f[0] = <<>> /\ f \in [0..n -> X]
    BY <1>4 DEF Rounds
  <2> QED BY <1>n, <2>1, <2>2
<1>6. Is(F)
  BY <1>5
<1> HIDE DEF F
<1>7. \A i \in 0..n : F[i] = IF i = 0 THEN <<>> ELSE merge(F[i - 1], s[i])
  BY <1>6
<1> DEFINE P(m) == MergedSo(s, F[m], m)
           T == {m \in 0..n : P(m)}
<1>8. P(0)
  <2>1. F[0] = <<>>
    BY <1>n, <1>7
  <2>2. MergedSo(s, <<>>, 0)
    BY DEF MergedSo, Apart, Within
  <2> QED BY <2>1, <2>2
<1>9. ASSUME NEW i \in 1..n, P(i - 1) PROVE P(i)
  <2>1. F[i] = merge(F[i - 1], s[i])
    BY <1>n, <1>7
  <2>2. MergedSo(s, merge(F[i - 1], s[i]), i)
    BY <1>2, <1>9, MergeNext DEF n
  <2> QED BY <2>1, <2>2
<1> HIDE DEF P
<1>10. \A i \in 0..n : i \in T
  <2>1. 0 \in T
    BY <1>n, <1>8
  <2>2. \A i \in 1..n : i - 1 \in T => i \in T
    BY <1>n, <1>9
  <2> HIDE DEF T
  <2> QED BY <1>n, <2>1, <2>2, Induct
<1>11. MergedSo(s, F[n], n)
  <2>1. P(n)
    BY <1>n, <1>10
  <2> QED BY <2>1 DEF P
<1>12. \A a \in Addresses : Within(F[n], a) <=> Within(s, a)
  BY <1>11 DEF MergedSo, Within, n
<1> QED BY <1>1, <1>2, <1>11, <1>12 DEF MergedSo

(***************************************************************************)
(* Routing: the exclusions cut out of the ranges.                          *)
(***************************************************************************)
Cuts == [cursor: Nat, out: Seq(Intervals)]

\* One more exclusion.
CutOne(e, before) ==
  [cursor |-> e.end + 1,
   out |-> IF e.start > before.cursor THEN Append(before.out, range(before.cursor, e.start - 1))
                                      ELSE before.out]

LEMMA CutOneTyped ==
  ASSUME NEW e \in Intervals, NEW y \in Cuts
  PROVE  CutOne(e, y) \in Cuts
<1>1. /\ e.start \in Nat /\ e.end \in Nat /\ e.start \in Addresses
      /\ y.cursor \in Nat /\ y.out \in Seq(Intervals)
  BY AddressTypes DEF Cuts
<1>2. ASSUME e.start > y.cursor PROVE range(y.cursor, e.start - 1) \in Intervals
  <2>1. y.cursor \in Addresses /\ e.start - 1 \in Addresses /\ y.cursor <= e.start - 1
    BY <1>1, <1>2, Powers, RoutingAssumption DEF Addresses
  <2> QED BY <2>1 DEF range, Intervals
<1>3. CASE e.start > y.cursor
  <2>1. Append(y.out, range(y.cursor, e.start - 1)) \in Seq(Intervals)
    BY <1>1, <1>2, <1>3
  <2> QED BY <1>1, <1>3, <2>1 DEF CutOne, Cuts
<1>4. CASE ~(e.start > y.cursor)
  BY <1>1, <1>4 DEF CutOne, Cuts
<1> QED BY <1>3, <1>4

\* The loop over the exclusions.
LEMMA CutsAre ==
  ASSUME NEW b \in Intervals, NEW es \in Seq(Intervals), NEW first \in 1..(Len(es) + 1)
  PROVE  /\ cuts(b, es, first)[0] = [cursor |-> b.start, out |-> <<>>]
         /\ \A k \in 1..(Len(es) + 1 - first) :
              cuts(b, es, first)[k] = CutOne(es[first + k - 1], cuts(b, es, first)[k - 1])
         /\ \A k \in 0..(Len(es) + 1 - first) : cuts(b, es, first)[k] \in Cuts
<1> DEFINE n == Len(es) + 1 - first
           x == [cursor |-> b.start, out |-> <<>>]
           Is(f) == f = [k \in 0..n |-> IF k = 0 THEN x ELSE CutOne(es[first + k - 1], f[k - 1])]
           F == CHOOSE f : Is(f)
           g == [k \in 1..n |-> [y \in Cuts |-> CutOne(es[first + k - 1], y)]]
<1>1. cuts(b, es, first) = F
  BY DEF cuts, CutOne
<1>n. n \in Nat /\ x \in Cuts
  BY AddressTypes DEF Cuts
<1>2. \A k \in 1..n : es[first + k - 1] \in Intervals
  <2> TAKE k \in 1..n
  <2>1. first + k - 1 \in 1..Len(es)
    OBVIOUS
  <2> QED BY <2>1
<1>3. \A k \in 1..n : \A y \in Cuts : g[k][y] = CutOne(es[first + k - 1], y) /\ g[k][y] \in Cuts
  <2> TAKE k \in 1..n
  <2> TAKE y \in Cuts
  <2>1. g[k][y] = CutOne(es[first + k - 1], y)
    OBVIOUS
  <2> QED BY <1>2, <2>1, CutOneTyped
<1> HIDE DEF n, g, x
<1>4. PICK f : Rounds(Cuts, x, g, n, f)
  BY <1>n, <1>3, RoundsExist
<1>5. Is(f)
  <2>1. ASSUME NEW k \in 1..n PROVE f[k] = CutOne(es[first + k - 1], f[k - 1])
    <3>1. f[k] = g[k][f[k - 1]] /\ f[k - 1] \in Cuts
      BY <1>n, <1>4 DEF Rounds
    <3> QED BY <1>3, <3>1
  <2>2. f[0] = x /\ f \in [0..n -> Cuts]
    BY <1>4 DEF Rounds
  <2> QED BY <1>n, <2>1, <2>2
<1>6. Is(F)
  BY <1>5
<1> HIDE DEF F
<1>7. F[0] = x /\ \A k \in 1..n : F[k] = CutOne(es[first + k - 1], F[k - 1])
  <2>1. \A k \in 0..n : F[k] = IF k = 0 THEN x ELSE CutOne(es[first + k - 1], F[k - 1])
    BY <1>6
  <2> QED BY <1>n, <2>1
<1> DEFINE T == {k \in 0..n : F[k] \in Cuts}
<1>8. \A k \in 0..n : k \in T
  <2>1. 0 \in T
    BY <1>n, <1>7
  <2>2. ASSUME NEW k \in 1..n, k - 1 \in T PROVE k \in T
    <3>1. F[k] \in Cuts
      BY <1>2, <1>7, <2>2, CutOneTyped
    <3> QED BY <1>n, <3>1
  <2> HIDE DEF T
  <2> QED BY <1>n, <2>1, <2>2, Induct
<1>9. \A k \in 0..n : F[k] \in Cuts
  BY <1>8
<1> QED BY <1>1, <1>7, <1>9 DEF n, x

\* Whether the loop over the exclusions ends before round k + 1.
CutEnds(b, es, first, k) ==
  \/ first + k > Len(es)
  \/ es[first + k].start > b.end
  \/ cuts(b, es, first)[k].cursor > b.end

\* q is the number of rounds of the loop.
LEMMA CutRounds ==
  ASSUME NEW b \in Intervals, NEW es \in Seq(Intervals), NEW first \in 1..(Len(es) + 1)
  PROVE  \E q \in 0..(Len(es) + 1 - first) :
           /\ CutEnds(b, es, first, q)
           /\ \A k \in 0..(q - 1) : ~CutEnds(b, es, first, k)
           /\ cuts(b, es, first)[q].cursor > b.end =>
                cut(b, es, first) = [out |-> cuts(b, es, first)[q].out, next |-> first + q - 1]
           /\ ~(cuts(b, es, first)[q].cursor > b.end) =>
                cut(b, es, first) = [out |-> Append(cuts(b, es, first)[q].out,
                                                    range(cuts(b, es, first)[q].cursor, b.end)),
                                     next |-> first + q]
<1> DEFINE n == Len(es) + 1 - first
           S == {k \in 0..n : CutEnds(b, es, first, k)}
           q == Min(S)
<1>1. n \in Nat /\ S \subseteq Nat /\ n \in S
  BY DEF CutEnds
<1>2. \E k \in S : \A y \in S : k <= y
  <2> HIDE DEF S
  <2> QED BY <1>1, Least
<1>3. q \in S /\ \A y \in S : q <= y
  BY <1>2 DEF Min
<1>4. cut(b, es, first) =
        IF cuts(b, es, first)[q].cursor > b.end
          THEN [out |-> cuts(b, es, first)[q].out, next |-> first + q - 1]
          ELSE [out |-> Append(cuts(b, es, first)[q].out, range(cuts(b, es, first)[q].cursor, b.end)),
                next |-> first + q]
  BY DEF cut, nextExclusion, CutEnds
<1> HIDE DEF q
<1>5. q \in 0..n /\ CutEnds(b, es, first, q)
  BY <1>3
<1>6. ASSUME NEW k \in 0..(q - 1) PROVE ~CutEnds(b, es, first, k)
  <2>1. k \notin S /\ k \in 0..n
    BY <1>1, <1>3, <1>5
  <2> QED BY <2>1
<1> QED BY <1>4, <1>5, <1>6

LEMMA CutTyped ==
  ASSUME NEW b \in Intervals, NEW es \in Seq(Intervals), NEW first \in 1..(Len(es) + 1)
  PROVE  cut(b, es, first) \in [out: Seq(Intervals), next: 1..(Len(es) + 1)]
<1> DEFINE f == cuts(b, es, first)
<1>1. PICK q \in 0..(Len(es) + 1 - first) :
           /\ f[q].cursor > b.end => cut(b, es, first) = [out |-> f[q].out, next |-> first + q - 1]
           /\ ~(f[q].cursor > b.end) =>
                cut(b, es, first) = [out |-> Append(f[q].out, range(f[q].cursor, b.end)),
                                     next |-> first + q]
  BY CutRounds
<1>2. f[q].cursor \in Nat /\ f[q].out \in Seq(Intervals) /\ f[0].cursor = b.start
  <2>1. f[q] \in Cuts
    BY CutsAre
  <2>2. f[0] = [cursor |-> b.start, out |-> <<>>]
    BY CutsAre
  <2> QED BY <2>1, <2>2 DEF Cuts
<1>3. b.start \in Nat /\ b.end \in Nat /\ b.end \in Addresses /\ b.start <= b.end
  BY AddressTypes
<1> HIDE DEF f
<1>4. CASE f[q].cursor > b.end
  <2>1. q # 0
    BY <1>2, <1>3, <1>4
  <2>2. first + q - 1 \in 1..(Len(es) + 1)
    BY <2>1
  <2> QED BY <1>1, <1>2, <1>4, <2>2
<1>5. CASE ~(f[q].cursor > b.end)
  <2>1. f[q].cursor \in Addresses /\ f[q].cursor <= b.end
    <3>1. PowerOfTwo[Width] \in Nat /\ b.end <= PowerOfTwo[Width] - 1
      BY <1>3, Powers, RoutingAssumption DEF Addresses
    <3> QED BY <1>2, <1>3, <1>5, <3>1 DEF Addresses
  <2>2. range(f[q].cursor, b.end) \in Intervals
    BY <1>3, <2>1 DEF range, Intervals
  <2>3. Append(f[q].out, range(f[q].cursor, b.end)) \in Seq(Intervals)
    BY <1>2, <2>2
  <2>4. first + q \in 1..(Len(es) + 1)
    OBVIOUS
  <2>5. cut(b, es, first) = [out |-> Append(f[q].out, range(f[q].cursor, b.end)), next |-> first + q]
    BY <1>1, <1>5
  <2> DEFINE o == Append(f[q].out, range(f[q].cursor, b.end))
             i == first + q
  <2> HIDE DEF o, i
  <2>6. o \in Seq(Intervals) /\ i \in 1..(Len(es) + 1) /\ cut(b, es, first) = [out |-> o, next |-> i]
    BY <2>3, <2>4, <2>5 DEF o, i
  <2> QED BY <2>6
<1> QED BY <1>4, <1>5

LEMMA WithinAppend ==
  ASSUME NEW rs \in Seq(Intervals), NEW r \in Intervals, NEW a
  PROVE  Within(Append(rs, r), a) <=> Within(rs, a) \/ InRange(r, a)
<1> DEFINE l == Len(rs)
           x == Append(rs, r)
<1>1. l \in Nat /\ Len(x) = l + 1 /\ x[l + 1] = r /\ \A i \in 1..l : x[i] = rs[i]
  OBVIOUS
<1> HIDE DEF x
<1>2. (\E i \in 1..(l + 1) : InRange(x[i], a)) <=> (\E i \in 1..l : InRange(x[i], a)) \/ InRange(x[l + 1], a)
  BY <1>1
<1>3. (\E i \in 1..l : InRange(x[i], a)) <=> Within(rs, a)
  BY <1>1 DEF Within
<1>4. Within(x, a) <=> Within(rs, a) \/ InRange(r, a)
  BY <1>1, <1>2, <1>3 DEF Within
<1> QED BY <1>4 DEF x

\* y is what the loop has cut after k exclusions: the addresses in front of the
\* cursor are decided.
CutSo(b, es, first, y, k) ==
  /\ y \in Cuts
  /\ b.start <= y.cursor
  /\ \A j \in 1..(first + k - 1) : es[j].end < y.cursor
  /\ \A j \in (first + k)..Len(es) : y.cursor <= es[j].end
  /\ \A a \in Addresses :
       Within(y.out, a) <=> b.start <= a /\ a < y.cursor /\ a <= b.end /\ ~Within(es, a)

LEMMA CutNext ==
  ASSUME NEW b \in Intervals, NEW es \in Seq(Intervals), Apart(es), NEW first \in 1..(Len(es) + 1),
         NEW k \in Nat, first + k <= Len(es), NEW y, CutSo(b, es, first, y, k),
         es[first + k].start <= b.end, y.cursor <= b.end
  PROVE  CutSo(b, es, first, CutOne(es[first + k], y), k + 1)
<1> DEFINE p == first + k
           e == es[p]
           z == CutOne(e, y)
           c == y.cursor
<1>1. /\ y \in Cuts /\ b.start <= c
      /\ \A j \in 1..(p - 1) : es[j].end < c
      /\ \A j \in p..Len(es) : c <= es[j].end
      /\ \A a \in Addresses : Within(y.out, a) <=> b.start <= a /\ a < c /\ a <= b.end /\ ~Within(es, a)
  BY DEF CutSo
<1>2. p \in 1..Len(es) /\ e \in Intervals /\ Len(es) \in Nat
  OBVIOUS
<1>3. c \in Nat /\ y.out \in Seq(Intervals)
  BY <1>1 DEF Cuts
<1>4. b.start \in Nat /\ b.end \in Nat /\ e.start \in Nat /\ e.end \in Nat /\ e.start <= e.end
  BY <1>2, AddressTypes
<1>5. \A j \in 1..Len(es) : /\ es[j] \in Intervals /\ es[j].start \in Nat /\ es[j].end \in Nat
                            /\ es[j].start <= es[j].end
                            /\ j < p => es[j].end + 1 < e.start
                            /\ p < j => e.end + 1 < es[j].start
  BY <1>2, AddressTypes, SMTT(30) DEF Apart
<1>6. z \in Cuts /\ z.cursor = e.end + 1
  BY <1>1, <1>2, CutOneTyped DEF CutOne
<1>7. e.start <= b.end /\ c <= b.end /\ c <= e.end
  BY <1>1, <1>2
<1>8. k + 1 \in Nat /\ first + (k + 1) = p + 1
  OBVIOUS
<1>9. z.out = IF e.start > c THEN Append(y.out, range(c, e.start - 1)) ELSE y.out
  BY DEF CutOne
<1> HIDE DEF p, e, z, c
<1>10. \A j \in 1..p : es[j].end < e.end + 1
  <2> TAKE j \in 1..p
  <2>1. CASE j = p
    BY <1>4, <2>1 DEF e
  <2>2. CASE j # p
    <3>1. j \in 1..Len(es) /\ j < p
      BY <1>2, <2>2
    <3> QED BY <1>4, <1>5, <3>1, SMTT(30)
  <2> QED BY <2>1, <2>2
<1>11. \A j \in (p + 1)..Len(es) : e.end + 1 <= es[j].end
  <2> TAKE j \in (p + 1)..Len(es)
  <2>1. j \in 1..Len(es) /\ p < j
    BY <1>2
  <2>2. e.end + 1 < es[j].start /\ es[j].start <= es[j].end /\ es[j].start \in Nat /\ es[j].end \in Nat
    BY <1>5, <2>1
  <2>3. e.start \in Nat /\ e.end \in Nat /\ e.start <= e.end
    BY <1>4
  <2> QED BY <2>2, <2>3, Beyond, SMTT(30)
<1>12. ASSUME NEW a \in Addresses, c <= a, a <= e.end PROVE Within(es, a) <=> e.start <= a
  <2>1. a \in Nat
    BY AddressTypes
  <2>2. ASSUME e.start <= a PROVE Within(es, a)
    BY <1>2, <1>12, <2>2 DEF Within, InRange, e
  <2>3. ASSUME NEW j \in 1..Len(es), InRange(es[j], a) PROVE e.start <= a
    <3>1. CASE j < p
      <4>1. j \in 1..(p - 1) /\ es[j].end < c
        BY <1>1, <1>2, <3>1
      <4> QED BY <1>3, <1>5, <1>12, <2>1, <2>3, <4>1 DEF InRange
    <3>2. CASE j = p
      BY <2>3, <3>2 DEF InRange, e
    <3>3. CASE j > p
      BY <1>4, <1>5, <2>1, <2>3, <3>3 DEF InRange
    <3> QED BY <1>2, <3>1, <3>2, <3>3
  <2> QED BY <2>2, <2>3 DEF Within
<1>13. ASSUME NEW a \in Addresses
       PROVE  Within(z.out, a) <=> b.start <= a /\ a < e.end + 1 /\ a <= b.end /\ ~Within(es, a)
  <2>1. a \in Nat
    BY AddressTypes
  <2>2. Within(z.out, a) <=> Within(y.out, a) \/ (c <= a /\ a < e.start)
    <3>1. CASE e.start > c
      <4>1. range(c, e.start - 1) \in Intervals
        <5>1. e.start \in Addresses
          BY <1>2, AddressTypes
        <5>2. c \in Addresses /\ e.start - 1 \in Addresses /\ c <= e.start - 1
          <6>1. c \in Nat /\ e.start - 1 \in Nat /\ c <= e.start /\ e.start - 1 <= e.start /\ c <= e.start - 1
            BY <1>3, <1>4, <3>1, SMTT(30)
          <6> QED BY <5>1, <6>1, SmallerAddress
        <5> QED BY <5>2 DEF range, Intervals
      <4>2. InRange(range(c, e.start - 1), a) <=> c <= a /\ a < e.start
        BY <1>3, <1>4, <2>1 DEF InRange, range
      <4> QED BY <1>3, <1>9, <3>1, <4>1, <4>2, WithinAppend
    <3>2. CASE ~(e.start > c)
      BY <1>3, <1>4, <1>9, <2>1, <3>2
    <3> QED BY <3>1, <3>2
  <2>3. CASE a < c
    BY <1>1, <1>3, <1>4, <1>7, <2>1, <2>2, <2>3
  <2>4. CASE c <= a /\ a <= e.end
    <3>1. ~Within(y.out, a)
      BY <1>1, <1>3, <2>1, <2>4
    <3>2. Within(es, a) <=> e.start <= a
      BY <1>12, <2>4
    <3> QED BY <1>1, <1>3, <1>4, <1>7, <2>1, <2>2, <2>4, <3>1, <3>2, SMTT(30)
  <2>5. CASE e.end < a
    BY <1>1, <1>3, <1>4, <1>7, <2>1, <2>2, <2>5
  <2> QED BY <1>3, <1>4, <2>1, <2>3, <2>4, <2>5
<1>14. b.start <= e.end + 1
  BY <1>1, <1>3, <1>4, <1>7
<1>15. (p + 1) - 1 = p
  BY <1>2
<1>16. CutSo(b, es, first, z, k + 1)
  BY <1>6, <1>8, <1>10, <1>11, <1>13, <1>14, <1>15 DEF CutSo
<1> QED BY <1>16 DEF z, e, p

\* What cut gives for b, when the exclusions before first end in front of b and first
\* does not: the addresses of b that are not excluded, and an index that no exclusion
\* before it is needed behind b.
LEMMA CutExact ==
  ASSUME NEW b \in Intervals, NEW es \in Seq(Intervals), Apart(es), NEW first \in 1..(Len(es) + 1),
         \A j \in 1..(first - 1) : es[j].end < b.start,
         first <= Len(es) => b.start <= es[first].end
  PROVE  /\ \A a \in Addresses :
              Within(cut(b, es, first).out, a) <=> InRange(b, a) /\ ~Within(es, a)
         /\ \A j \in 1..(cut(b, es, first).next - 1) : es[j].end <= b.end
<1> DEFINE f == cuts(b, es, first)
           n == Len(es) + 1 - first
<1>1. PICK q \in 0..n :
           /\ CutEnds(b, es, first, q)
           /\ \A k \in 0..(q - 1) : ~CutEnds(b, es, first, k)
           /\ f[q].cursor > b.end => cut(b, es, first) = [out |-> f[q].out, next |-> first + q - 1]
           /\ ~(f[q].cursor > b.end) =>
                cut(b, es, first) = [out |-> Append(f[q].out, range(f[q].cursor, b.end)),
                                     next |-> first + q]
  BY CutRounds
<1>2. /\ f[0] = [cursor |-> b.start, out |-> <<>>]
      /\ \A k \in 1..n : f[k] = CutOne(es[first + k - 1], f[k - 1])
      /\ \A k \in 0..n : f[k] \in Cuts
  BY CutsAre
<1>3. /\ b.start \in Nat /\ b.end \in Nat /\ b.start <= b.end
      /\ \A j \in 1..Len(es) : es[j].start \in Nat /\ es[j].end \in Nat /\ es[j].start <= es[j].end
  BY AddressTypes
<1>4. n \in Nat /\ q \in Nat /\ first \in Nat /\ Len(es) \in Nat /\ q <= n /\ first >= 1
  OBVIOUS
<1> DEFINE P(k) == CutSo(b, es, first, f[k], k)
           T == {k \in 0..q : P(k)}
<1>5. P(0)
  <2>1. f[0] \in Cuts /\ f[0].cursor = b.start /\ f[0].out = <<>>
    BY <1>2, <1>4
  <2>2. \A j \in 1..(first + 0 - 1) : es[j].end < b.start
    BY <1>4
  <2>3. ASSUME NEW j \in (first + 0)..Len(es) PROVE b.start <= es[j].end
    <3>1. first \in 1..Len(es) /\ j \in 1..Len(es) /\ b.start <= es[first].end
      BY <1>4
    <3>2. CASE j = first
      BY <3>1, <3>2
    <3>3. CASE j # first
      <4>1. es[first].end + 1 < es[j].start
        BY <1>4, <3>1, <3>3 DEF Apart
      <4>2. es[j].start <= es[j].end /\ es[j].start \in Nat /\ es[j].end \in Nat /\ es[first].end \in Nat
        BY <1>3, <3>1
      <4> QED BY <1>3, <3>1, <4>1, <4>2, SMTT(30)
    <3> QED BY <3>2, <3>3
  <2>4. ASSUME NEW a \in Addresses
        PROVE  Within(<<>>, a) <=> b.start <= a /\ a < b.start /\ a <= b.end /\ ~Within(es, a)
    <3>1. a \in Nat
      BY AddressTypes
    <3> QED BY <1>3, <3>1 DEF Within
  <2> QED BY <1>3, <2>1, <2>2, <2>3, <2>4 DEF CutSo
<1>6. ASSUME NEW i \in 1..q, P(i - 1) PROVE P(i)
  <2> DEFINE k == i - 1
             y == f[k]
  <2>1. k \in Nat /\ k \in 0..(q - 1) /\ k + 1 = i /\ i \in 1..n /\ first + i - 1 = first + k
    BY <1>4
  <2>2. ~CutEnds(b, es, first, k)
    BY <1>1, <2>1
  <2>3. k \in 0..n /\ y \in Cuts /\ y.cursor \in Nat
    BY <1>2, <1>4, <2>1 DEF Cuts
  <2>4. first + k <= Len(es) /\ es[first + k].start <= b.end /\ y.cursor <= b.end
    <3>1. ~(first + k > Len(es)) /\ ~(es[first + k].start > b.end) /\ ~(y.cursor > b.end)
      BY <2>2 DEF CutEnds
    <3>2. first + k \in 1..Len(es)
      BY <1>4, <2>1, <3>1
    <3>3. first + k <= Len(es)
      BY <3>2
    <3>4. es[first + k].start \in Nat
      BY <1>3, <3>2
    <3> HIDE DEF k, y
    <3>5. es[first + k].start <= b.end
      BY <1>3, <3>1, <3>4
    <3>6. y.cursor <= b.end
      BY <1>3, <2>3, <3>1
    <3> QED BY <3>3, <3>5, <3>6
  <2>5. f[i] = CutOne(es[first + k], y)
    BY <1>2, <2>1
  <2>6. CutSo(b, es, first, y, k)
    BY <1>6
  <2> HIDE DEF k, y
  <2>7. CutSo(b, es, first, CutOne(es[first + k], y), k + 1)
    BY <2>1, <2>4, <2>6, CutNext
  <2> QED BY <2>1, <2>5, <2>7
<1> HIDE DEF P
<1>7. \A i \in 0..q : P(i)
  <2>1. 0 \in T
    BY <1>4, <1>5
  <2>2. \A i \in 1..q : i - 1 \in T => i \in T
    BY <1>4, <1>6
  <2> HIDE DEF T
  <2>3. \A i \in 0..q : i \in T
    BY <1>4, <2>1, <2>2, Induct
  <2> QED BY <2>3 DEF T
<1>8. CutSo(b, es, first, f[q], q)
  <2>1. P(q)
    BY <1>4, <1>7
  <2> QED BY <2>1 DEF P
<1> DEFINE c == f[q].cursor
<1>9. /\ c \in Nat /\ f[q].out \in Seq(Intervals)
      /\ b.start <= c
      /\ \A j \in 1..(first + q - 1) : es[j].end < c
      /\ \A a \in Addresses :
           Within(f[q].out, a) <=> b.start <= a /\ a < c /\ a <= b.end /\ ~Within(es, a)
  BY <1>8 DEF CutSo, Cuts
<1>10. CASE c > b.end
  <2>1. cut(b, es, first) = [out |-> f[q].out, next |-> first + q - 1]
    BY <1>1, <1>10
  <2>2. cut(b, es, first).out = f[q].out /\ cut(b, es, first).next = first + q - 1
    BY <2>1
  <2>3. q # 0
    <3>1. f[0].cursor = b.start
      BY <1>2
    <3> QED BY <1>3, <1>10, <3>1
  <2>4. P(q - 1) /\ q - 1 \in 0..(q - 1) /\ q - 1 \in 0..n
    BY <1>4, <1>7, <2>3
  <2>5. CutSo(b, es, first, f[q - 1], q - 1)
    BY <2>4 DEF P
  <2>6. f[q - 1].cursor \in Nat /\ ~(f[q - 1].cursor > b.end)
    BY <1>1, <1>2, <2>4 DEF CutEnds, Cuts
  <2>7. ASSUME NEW j \in 1..(first + q - 1 - 1) PROVE es[j].end <= b.end
    <3>1. j \in 1..(first + (q - 1) - 1) /\ j \in 1..Len(es)
      BY <1>4
    <3>2. es[j].end < f[q - 1].cursor
      BY <2>5, <3>1 DEF CutSo
    <3>3. es[j].end \in Nat
      BY <1>3, <3>1
    <3> QED BY <1>3, <2>6, <3>2, <3>3, SMTT(30)
  <2>8. ASSUME NEW a \in Addresses PROVE Within(f[q].out, a) <=> InRange(b, a) /\ ~Within(es, a)
    <3>1. a \in Nat
      BY AddressTypes
    <3>2. Within(f[q].out, a) <=> b.start <= a /\ a < c /\ a <= b.end /\ ~Within(es, a)
      BY <1>9
    <3>3. a <= b.end => a < c
      BY <1>3, <1>9, <1>10, <3>1
    <3> QED BY <3>2, <3>3 DEF InRange
  <2> QED BY <2>2, <2>7, <2>8
<1>11. CASE ~(c > b.end)
  <2> DEFINE r == range(c, b.end)
             o == Append(f[q].out, r)
  <2>1. cut(b, es, first) = [out |-> o, next |-> first + q]
    BY <1>1, <1>11
  <2>2. cut(b, es, first).out = o /\ cut(b, es, first).next = first + q
    BY <2>1
  <2>3. r \in Intervals
    <3>1. b.end \in Addresses /\ c <= b.end
      BY <1>3, <1>9, <1>11, AddressTypes
    <3>2. PowerOfTwo[Width] \in Nat /\ b.end <= PowerOfTwo[Width] - 1
      BY <3>1, Powers, RoutingAssumption DEF Addresses
    <3>3. c \in Addresses
      BY <1>3, <1>9, <3>1, <3>2 DEF Addresses
    <3> QED BY <3>1, <3>3 DEF range, Intervals
  <2>4. ASSUME NEW a \in Addresses, c <= a, a <= b.end PROVE ~Within(es, a)
    <3> SUFFICES ASSUME NEW j \in 1..Len(es), InRange(es[j], a) PROVE FALSE
      BY DEF Within
    <3>1. a \in Nat /\ es[j].start \in Nat /\ es[j].end \in Nat
      BY <1>3, AddressTypes
    <3>2. CASE j < first + q
      <4>1. j \in 1..(first + q - 1)
        BY <1>4, <3>2
      <4>2. es[j].end < c
        BY <1>9, <4>1
      <4> QED BY <1>9, <2>4, <3>1, <4>2 DEF InRange
    <3>3. CASE ~(j < first + q)
      <4>1. first + q \in 1..Len(es)
        BY <1>4, <3>3
      <4>2. es[first + q].start > b.end
        BY <1>1, <1>4, <1>11, <4>1 DEF CutEnds
      <4>3. es[first + q].start <= es[j].start
        <5>1. CASE j = first + q
          BY <1>3, <5>1
        <5>2. CASE j # first + q
          <6>1. es[first + q].end + 1 < es[j].start
            BY <1>4, <3>3, <4>1, <5>2, SMTT(30) DEF Apart
          <6>2. es[first + q].start \in Nat /\ es[first + q].end \in Nat /\ es[first + q].start <= es[first + q].end
            BY <1>3, <4>1
          <6>3. es[j].start <= es[j].end
            BY <1>3
          <6> QED BY <3>1, <6>1, <6>2, <6>3, Beyond, SMTT(30)
        <5> QED BY <5>1, <5>2
      <4>4. es[first + q].start \in Nat
        BY <1>3, <4>1
      <4> QED BY <1>3, <2>4, <3>1, <4>2, <4>3, <4>4 DEF InRange
    <3> QED BY <3>2, <3>3
  <2>5. ASSUME NEW a \in Addresses PROVE Within(o, a) <=> InRange(b, a) /\ ~Within(es, a)
    <3>1. a \in Nat
      BY AddressTypes
    <3>2. Within(o, a) <=> Within(f[q].out, a) \/ InRange(r, a)
      BY <1>9, <2>3, WithinAppend
    <3>3. InRange(r, a) <=> c <= a /\ a <= b.end
      BY DEF InRange, range
    <3>4. Within(f[q].out, a) <=> b.start <= a /\ a < c /\ a <= b.end /\ ~Within(es, a)
      BY <1>9
    <3>5. c <= a /\ a <= b.end => ~Within(es, a)
      BY <2>4
    <3> HIDE DEF c, r, o
    <3>6. CASE c <= a
      <4>1. b.start <= a /\ ~(a < c)
        BY <1>3, <1>9, <3>1, <3>6
      <4> QED BY <3>2, <3>3, <3>4, <3>5, <3>6, <4>1 DEF InRange
    <3>7. CASE ~(c <= a)
      <4>1. a < c
        BY <1>9, <3>1, <3>7
      <4> QED BY <3>2, <3>3, <3>4, <3>7, <4>1 DEF InRange
    <3> QED BY <3>6, <3>7
  <2>6. ASSUME NEW j \in 1..(first + q - 1) PROVE es[j].end <= b.end
    <3>1. es[j].end < c /\ j \in 1..Len(es)
      BY <1>4, <1>9
    <3>2. es[j].end \in Nat
      BY <1>3, <3>1
    <3> QED BY <1>3, <1>9, <1>11, <3>1, <3>2
  <2> QED BY <2>2, <2>5, <2>6
<1> QED BY <1>10, <1>11

LEMMA WithinConcat ==
  ASSUME NEW r \in Seq(Intervals), NEW s \in Seq(Intervals), NEW a
  PROVE  Within(r \o s, a) <=> Within(r, a) \/ Within(s, a)
<1> DEFINE x == r \o s
           k == Len(r)
           l == Len(s)
<1>1. /\ k \in Nat /\ l \in Nat /\ Len(x) = k + l
      /\ \A i \in 1..k : x[i] = r[i]
      /\ \A i \in 1..l : x[k + i] = s[i]
  OBVIOUS
<1> HIDE DEF x
<1>2. ASSUME Within(x, a) PROVE Within(r, a) \/ Within(s, a)
  <2>1. PICK i \in 1..(k + l) : InRange(x[i], a)
    BY <1>1, <1>2 DEF Within
  <2>2. CASE i <= k
    <3>1. i \in 1..k
      BY <1>1, <2>2
    <3> QED BY <1>1, <2>1, <3>1 DEF Within
  <2>3. CASE ~(i <= k)
    <3>1. i - k \in 1..l /\ k + (i - k) = i
      BY <1>1, <2>3
    <3>2. x[i] = s[i - k]
      BY <1>1, <3>1
    <3> QED BY <2>1, <3>1, <3>2 DEF Within
  <2> QED BY <2>2, <2>3
<1>3. ASSUME Within(r, a) PROVE Within(x, a)
  <2>1. PICK i \in 1..k : InRange(r[i], a)
    BY <1>3 DEF Within
  <2>2. i \in 1..(k + l) /\ x[i] = r[i]
    BY <1>1
  <2> QED BY <1>1, <2>1, <2>2 DEF Within
<1>4. ASSUME Within(s, a) PROVE Within(x, a)
  <2>1. PICK i \in 1..l : InRange(s[i], a)
    BY <1>4 DEF Within
  <2>2. k + i \in 1..(k + l) /\ x[k + i] = s[i]
    BY <1>1
  <2> QED BY <1>1, <2>1, <2>2 DEF Within
<1> QED BY <1>2, <1>3, <1>4 DEF x

\* Exclusions that end in front of b are passed over.
LEMMA AheadIs ==
  ASSUME NEW b \in Intervals, NEW es \in Seq(Intervals), NEW i \in 1..(Len(es) + 1)
  PROVE  /\ ahead(b, es, i) \in 1..(Len(es) + 1)
         /\ \A j \in i..(ahead(b, es, i) - 1) : es[j].end < b.start
         /\ ahead(b, es, i) <= Len(es) => b.start <= es[ahead(b, es, i)].end
<1> DEFINE J == {j \in i..Len(es) : es[j].end >= b.start}
           h == ahead(b, es, i)
<1>1. Len(es) \in Nat /\ J \subseteq Nat /\ b.start \in Nat /\ \A j \in 1..Len(es) : es[j].end \in Nat
  BY AddressTypes
<1>2. h = IF J = {} THEN Len(es) + 1 ELSE Min(J)
  BY DEF ahead
<1>3. CASE J = {}
  <2>1. h = Len(es) + 1
    BY <1>2, <1>3
  <2>2. ASSUME NEW j \in i..Len(es) PROVE es[j].end < b.start
    <3>1. ~(es[j].end >= b.start) /\ j \in 1..Len(es)
      BY <1>1, <1>3
    <3> QED BY <1>1, <3>1
  <2> HIDE DEF h
  <2> QED BY <1>1, <2>1, <2>2 DEF h
<1>4. CASE J # {}
  <2>1. \E k \in J : \A y \in J : k <= y
    <3> HIDE DEF J
    <3> QED BY <1>1, <1>4, Least
  <2>2. h \in J /\ \A y \in J : h <= y
    BY <1>2, <1>4, <2>1 DEF Min
  <2> HIDE DEF h
  <2>3. h \in i..Len(es) /\ es[h].end >= b.start
    BY <2>2
  <2>4. ASSUME NEW j \in i..(h - 1) PROVE es[j].end < b.start
    <3>1. j \notin J /\ j \in i..Len(es) /\ j \in 1..Len(es)
      BY <1>1, <2>2, <2>3
    <3> QED BY <1>1, <3>1
  <2>5. h \in 1..Len(es) /\ b.start <= es[h].end
    BY <1>1, <2>3
  <2> QED BY <1>1, <2>4, <2>5 DEF h
<1> QED BY <1>3, <1>4

\* One more base range.
SubtractOne(es, b, y) ==
  [out  |-> y.out \o cut(b, es, ahead(b, es, y.next)).out,
   next |-> cut(b, es, ahead(b, es, y.next)).next]

\* Subtracting leaves the addresses of the base ranges that are not excluded.
LEMMA Subtracted ==
  ASSUME NEW basis \in Seq(Intervals), NEW excluded \in Seq(Intervals)
  PROVE  /\ subtractIPv4Ranges(basis, excluded) \in Seq(Intervals)
         /\ \A a \in Addresses :
              Within(subtractIPv4Ranges(basis, excluded), a) <=> Within(basis, a) /\ ~Within(excluded, a)
<1> DEFINE bs == mergeIPv4Ranges(basis)
           es == mergeIPv4Ranges(excluded)
           n == Len(bs)
           X == [out: Seq(Intervals), next: 1..(Len(es) + 1)]
           x == [out |-> <<>>, next |-> 1]
           Is(f) == f = [i \in 0..n |-> IF i = 0 THEN x ELSE SubtractOne(es, bs[i], f[i - 1])]
           F == CHOOSE f : Is(f)
           g == [i \in 1..n |-> [y \in X |-> SubtractOne(es, bs[i], y)]]
           result == subtractIPv4Ranges(basis, excluded)
<1>1. result = IF bs = <<>> \/ es = <<>> THEN bs ELSE F[n].out
  BY DEF subtractIPv4Ranges, SubtractOne
<1>2. /\ bs \in Seq(Intervals) /\ Apart(bs) /\ \A a \in Addresses : Within(bs, a) <=> Within(basis, a)
      /\ es \in Seq(Intervals) /\ Apart(es) /\ \A a \in Addresses : Within(es, a) <=> Within(excluded, a)
  BY MergedRanges
<1> HIDE DEF bs, es, result
<1>n. n \in Nat /\ x \in X /\ Len(es) \in Nat
  BY <1>2
<1>3. \A i \in 1..n : \A y \in X : g[i][y] = SubtractOne(es, bs[i], y) /\ g[i][y] \in X
  <2> TAKE i \in 1..n
  <2> TAKE y \in X
  <2>1. g[i][y] = SubtractOne(es, bs[i], y)
    OBVIOUS
  <2>2. bs[i] \in Intervals /\ y.out \in Seq(Intervals) /\ y.next \in 1..(Len(es) + 1)
    BY <1>2
  <2>3. ahead(bs[i], es, y.next) \in 1..(Len(es) + 1)
    BY <1>2, <2>2, AheadIs
  <2> DEFINE d == cut(bs[i], es, ahead(bs[i], es, y.next))
  <2>4. d \in [out: Seq(Intervals), next: 1..(Len(es) + 1)]
    BY <1>2, <2>2, <2>3, CutTyped
  <2>5. SubtractOne(es, bs[i], y) = [out |-> y.out \o d.out, next |-> d.next]
    BY DEF SubtractOne
  <2> HIDE DEF d
  <2>6. y.out \o d.out \in Seq(Intervals) /\ d.next \in 1..(Len(es) + 1)
    BY <2>2, <2>4
  <2>7. SubtractOne(es, bs[i], y) \in X
    BY <2>5, <2>6
  <2> QED BY <2>1, <2>7
<1> HIDE DEF n, g
<1>4. PICK f : Rounds(X, x, g, n, f)
  <2> HIDE DEF X, x
  <2> QED BY <1>n, <1>3, RoundsExist
<1>5. Is(f)
  <2> HIDE DEF X, x
  <2>1. ASSUME NEW i \in 1..n PROVE f[i] = SubtractOne(es, bs[i], f[i - 1])
    <3>1. f[i] = g[i][f[i - 1]] /\ f[i - 1] \in X
      BY <1>n, <1>4 DEF Rounds
    <3> QED BY <1>3, <3>1
  <2>2. f[0] = x /\ f \in [0..n -> X]
    BY <1>4 DEF Rounds
  <2> QED BY <1>n, <2>1, <2>2
<1>6. Is(F)
  BY <1>5
<1> HIDE DEF F
<1>7. F[0] = x /\ \A i \in 1..n : F[i] = SubtractOne(es, bs[i], F[i - 1])
  <2>1. \A i \in 0..n : F[i] = IF i = 0 THEN x ELSE SubtractOne(es, bs[i], F[i - 1])
    BY <1>6
  <2> QED BY <1>n, <2>1
<1> DEFINE P(m) ==
             /\ F[m] \in X
             /\ \A a \in Addresses :
                  Within(F[m].out, a) <=> (\E j \in 1..m : InRange(bs[j], a)) /\ ~Within(es, a)
             /\ m < n => \A j \in 1..(F[m].next - 1) : es[j].end < bs[m + 1].start
           T == {m \in 0..n : P(m)}
<1>8. P(0)
  <2>1. F[0] \in X /\ F[0].out = <<>> /\ F[0].next = 1
    BY <1>n, <1>7
  <2>2. \A a : ~Within(<<>>, a)
    BY DEF Within
  <2>3. \A a \in Addresses : Within(F[0].out, a) <=> (\E j \in 1..0 : InRange(bs[j], a)) /\ ~Within(es, a)
    BY <2>1, <2>2
  <2>4. \A j \in 1..(F[0].next - 1) : es[j].end < bs[0 + 1].start
    BY <2>1
  <2> QED BY <2>1, <2>3, <2>4
<1>9. ASSUME NEW i \in 1..n, P(i - 1) PROVE P(i)
  <2> DEFINE y == F[i - 1]
             b == bs[i]
             h == ahead(b, es, y.next)
             d == cut(b, es, h)
  <2>1. y \in X /\ y.out \in Seq(Intervals) /\ y.next \in 1..(Len(es) + 1)
    BY <1>9
  <2>2. b \in Intervals /\ b.start \in Nat /\ b.end \in Nat
    BY <1>2, AddressTypes DEF n
  <2>3. F[i] = [out |-> y.out \o d.out, next |-> d.next]
    BY <1>7 DEF SubtractOne
  <2>4. /\ h \in 1..(Len(es) + 1)
        /\ \A j \in y.next..(h - 1) : es[j].end < b.start
        /\ h <= Len(es) => b.start <= es[h].end
    BY <1>2, <2>1, <2>2, AheadIs
  <2>5. \A j \in 1..(y.next - 1) : es[j].end < b.start
    <3>1. i - 1 < n /\ (i - 1) + 1 = i
      BY <1>n
    <3> QED BY <1>9, <3>1
  <2> HIDE DEF h
  <2>6. ASSUME NEW j \in 1..(h - 1) PROVE es[j].end < b.start
    <3>1. j \in 1..(y.next - 1) \/ j \in y.next..(h - 1)
      BY <2>1, <2>4
    <3> QED BY <2>4, <2>5, <3>1
  <2> HIDE DEF b, y
  <2>7. d \in [out: Seq(Intervals), next: 1..(Len(es) + 1)]
    BY <1>2, <2>2, <2>4, CutTyped
  <2>8. /\ \A a \in Addresses : Within(d.out, a) <=> InRange(b, a) /\ ~Within(es, a)
        /\ \A j \in 1..(d.next - 1) : es[j].end <= b.end
    BY <1>2, <2>2, <2>4, <2>6, CutExact
  <2> HIDE DEF d
  <2>9. d.out \in Seq(Intervals) /\ d.next \in 1..(Len(es) + 1) /\ y.out \o d.out \in Seq(Intervals)
    BY <2>1, <2>7
  <2>10. F[i] \in X /\ F[i].out = y.out \o d.out /\ F[i].next = d.next
    <3> DEFINE o == y.out \o d.out
               nx == d.next
    <3>1. F[i] = [out |-> o, next |-> nx] /\ o \in Seq(Intervals) /\ nx \in 1..(Len(es) + 1)
      BY <2>3, <2>9
    <3> HIDE DEF o, nx
    <3>2. F[i] \in X /\ F[i].out = o /\ F[i].next = nx
      BY <3>1
    <3> QED BY <3>2 DEF o, nx
  <2>11. ASSUME NEW a \in Addresses
         PROVE  Within(F[i].out, a) <=> (\E j \in 1..i : InRange(bs[j], a)) /\ ~Within(es, a)
    <3>1. Within(F[i].out, a) <=> Within(y.out, a) \/ Within(d.out, a)
      BY <2>1, <2>9, <2>10, WithinConcat
    <3>2. Within(y.out, a) <=> (\E j \in 1..(i - 1) : InRange(bs[j], a)) /\ ~Within(es, a)
      BY <1>9 DEF y
    <3>3. Within(d.out, a) <=> InRange(bs[i], a) /\ ~Within(es, a)
      BY <2>8 DEF b
    <3>4. (\E j \in 1..i : InRange(bs[j], a)) <=> (\E j \in 1..(i - 1) : InRange(bs[j], a)) \/ InRange(bs[i], a)
      BY <1>n
    <3> QED BY <3>1, <3>2, <3>3, <3>4
  <2>12. ASSUME i < n, NEW j \in 1..(F[i].next - 1) PROVE es[j].end < bs[i + 1].start
    <3>1. j \in 1..(d.next - 1) /\ j \in 1..Len(es)
      BY <1>n, <2>9, <2>10, <2>12
    <3>2. i \in 1..n /\ i + 1 \in 1..n /\ i < i + 1
      BY <1>n, <2>12
    <3>3. b.end + 1 < bs[i + 1].start
      BY <1>2, <3>2 DEF Apart, n, b
    <3>4. bs[i + 1].start \in Nat /\ es[j].end \in Nat
      <4>1. bs[i + 1] \in Intervals
        BY <1>2, <3>2 DEF n
      <4>2. es[j] \in Intervals
        BY <1>2, <3>1
      <4> QED BY <4>1, <4>2, AddressTypes
    <3>5. es[j].end <= b.end
      BY <2>8, <3>1
    <3> QED BY <2>2, <3>3, <3>4, <3>5
  <2> QED BY <2>10, <2>11, <2>12
<1> HIDE DEF P
<1>10. \A i \in 0..n : i \in T
  <2>1. 0 \in T
    BY <1>n, <1>8
  <2>2. \A i \in 1..n : i - 1 \in T => i \in T
    BY <1>n, <1>9
  <2> HIDE DEF T
  <2> QED BY <1>n, <2>1, <2>2, Induct
<1>11. /\ F[n].out \in Seq(Intervals)
       /\ \A a \in Addresses : Within(F[n].out, a) <=> Within(bs, a) /\ ~Within(es, a)
  <2>1. P(n)
    BY <1>n, <1>10
  <2>2. F[n] \in X
    BY <2>1 DEF P
  <2>3. \A a \in Addresses : Within(F[n].out, a) <=> (\E j \in 1..n : InRange(bs[j], a)) /\ ~Within(es, a)
    BY <2>1 DEF P
  <2> QED BY <2>2, <2>3 DEF Within, n
<1>12. CASE bs = <<>> \/ es = <<>>
  <2>1. \A a : ~Within(<<>>, a)
    BY DEF Within
  <2>2. result = bs
    BY <1>1, <1>12
  <2>3. \A a \in Addresses : Within(bs, a) <=> Within(bs, a) /\ ~Within(es, a)
    BY <1>12, <2>1
  <2> QED BY <1>2, <2>2, <2>3 DEF result
<1>13. CASE ~(bs = <<>> \/ es = <<>>)
  <2>1. result = F[n].out
    BY <1>1, <1>13
  <2> QED BY <1>2, <1>11, <2>1 DEF result
<1> QED BY <1>12, <1>13

(***************************************************************************)
(* Routing: ranges split into blocks.                                      *)
(***************************************************************************)
LEMMA Greatest ==
  ASSUME NEW n \in Nat, NEW T, T \subseteq 0..n, T # {}
  PROVE  \E m \in T : \A k \in T : m >= k
<1> DEFINE R == {i \in 0..n : n - i \in T}
<1>1. PICK t \in T : TRUE
  OBVIOUS
<1>2. t \in 0..n /\ n - t \in 0..n /\ n - (n - t) = t
  OBVIOUS
<1>3. n - t \in R
  BY <1>1, <1>2
<1>4. R \subseteq Nat
  OBVIOUS
<1> HIDE DEF R
<1>5. PICK l \in R : \A k \in R : l <= k
  BY <1>3, <1>4, Least
<1>6. l \in 0..n /\ n - l \in T
  BY <1>5 DEF R
<1>7. ASSUME NEW k \in T PROVE n - l >= k
  <2>1. k \in 0..n /\ n - k \in 0..n /\ n - (n - k) = k
    OBVIOUS
  <2>2. n - k \in R
    BY <2>1 DEF R
  <2>3. l <= n - k
    BY <1>5, <2>2
  <2> QED BY <1>6, <2>1, <2>3
<1> QED BY <1>6, <1>7

LEMMA AlignmentIs ==
  ASSUME NEW c \in Nat
  PROVE  /\ alignmentBits(c) \in 0..Width
         /\ c % PowerOfTwo[alignmentBits(c)] = 0
         /\ alignmentBits(c) = Width \/ c % PowerOfTwo[alignmentBits(c) + 1] # 0
<1> DEFINE T == {k \in 0..Width : c % PowerOfTwo[k] = 0}
<1>1. Width \in Nat /\ T \subseteq 0..Width
  BY RoutingAssumption
<1>2. 0 \in T
  <2>1. c % 1 = 0
    OBVIOUS
  <2> QED BY <1>1, <2>1, Powers
<1>3. PICK m \in T : \A k \in T : m >= k
  <2> HIDE DEF T
  <2> QED BY <1>1, <1>2, Greatest
<1>4. m \in 0..Width /\ c % PowerOfTwo[m] = 0
  BY <1>3
<1>5. m = Width \/ c % PowerOfTwo[m + 1] # 0
  <2> SUFFICES ASSUME m # Width, c % PowerOfTwo[m + 1] = 0 PROVE FALSE
    OBVIOUS
  <2>1. m + 1 \in 0..Width
    BY <1>1, <1>4
  <2>2. m + 1 \in T
    BY <2>1
  <2> QED BY <1>3, <1>4, <2>2
<1>6. \E k \in 0..Width : /\ c % PowerOfTwo[k] = 0
                          /\ k = Width \/ c % PowerOfTwo[k + 1] # 0
  BY <1>4, <1>5
<1> QED BY <1>6 DEF alignmentBits

\* The block at c: aligned, inside, and no larger one is both.
LEMMA BlockBitsIs ==
  ASSUME NEW c \in Nat, NEW e \in Nat, c <= e
  PROVE  LET k == blockBits(c, e)
         IN /\ k \in 0..Width
            /\ c % PowerOfTwo[k] = 0
            /\ c + PowerOfTwo[k] <= e + 1
            /\ k = Width \/ c % PowerOfTwo[k + 1] # 0 \/ c + PowerOfTwo[k + 1] > e + 1
<1> DEFINE A == alignmentBits(c)
           S == {k \in 0..A : PowerOfTwo[k] <= e - c + 1}
           k == blockBits(c, e)
<1>1. Width \in Nat /\ A \in 0..Width /\ c % PowerOfTwo[A] = 0 /\ (A = Width \/ c % PowerOfTwo[A + 1] # 0)
  BY RoutingAssumption, AlignmentIs
<1>2. k = Max(S)
  BY DEF blockBits
<1> HIDE DEF A, k
<1>3. S \subseteq 0..A /\ 0 \in S /\ A \in Nat
  BY <1>1, Powers
<1>4. \E m \in S : \A j \in S : m >= j
  <2> HIDE DEF S
  <2> QED BY <1>3, Greatest
<1>5. k \in S /\ \A j \in S : k >= j
  BY <1>2, <1>4 DEF Max
<1>6. k \in 0..A /\ k \in 0..Width /\ PowerOfTwo[k] <= e - c + 1
  BY <1>1, <1>5
<1>7. c % PowerOfTwo[k] = 0
  <2>1. k <= A /\ c \in Int
    BY <1>1, <1>6
  <2> QED BY <1>1, <1>6, <2>1, DividesDown
<1>8. PowerOfTwo[k] \in Nat /\ \A j \in 0..Width : PowerOfTwo[j] \in Nat
  BY <1>6, Powers
<1>9. k = Width \/ c % PowerOfTwo[k + 1] # 0 \/ c + PowerOfTwo[k + 1] > e + 1
  <2>1. CASE k = A
    BY <1>1, <2>1
  <2>2. CASE k # A
    <3>1. k + 1 \in 0..A /\ k + 1 \in 0..Width
      BY <1>1, <1>6, <2>2
    <3>2. k + 1 \notin S
      BY <1>5, <1>6
    <3>3. ~(PowerOfTwo[k + 1] <= e - c + 1)
      BY <3>1, <3>2
    <3> QED BY <1>8, <3>1, <3>3
  <2> QED BY <2>1, <2>2
<1>10. c + PowerOfTwo[k] <= e + 1
  BY <1>6, <1>8
<1> QED BY <1>6, <1>7, <1>9, <1>10 DEF k

\* A multiple of b is one of 2 * b, or lies in the middle between two.
LEMMA Halves ==
  ASSUME NEW b \in Nat \ {0}, NEW x \in Int, x % b = 0
  PROVE  /\ x % (2 * b) = 0 => (x + b) % (2 * b) # 0
         /\ x % (2 * b) # 0 => x % (2 * b) = b /\ (x + b) % (2 * b) = 0
<1> DEFINE d == 2 * b
           y == x - (x % d)
<1>1. d \in Nat \ {0} /\ x % d \in 0..(d - 1)
  OBVIOUS
<1>2. y \in Int /\ y % d = 0 /\ y <= x /\ x < y + d
  BY <1>1, RoundedDown
<1> DEFINE q == y \div d
<1>3. q \in Int /\ y = d * q
  <2>1. \A v \in Int, w \in Nat \ {0} : v \div w \in Int /\ v = w * (v \div w) + (v % w)
    OBVIOUS
  <2> HIDE DEF d, y
  <2>2. y = d * q + (y % d) /\ q \in Int
    BY <1>1, <1>2, <2>1
  <2> HIDE DEF q
  <2> QED BY <1>1, <1>2, <2>2
<1> HIDE DEF q
<1>4. y % b = 0
  <2>1. y = (2 * q) * b
    BY <1>3
  <2>2. ((2 * q) * b) % b = 0
    BY <1>3
  <2> HIDE DEF y
  <2> QED BY <2>1, <2>2
<1>5. x = y \/ x = y + b
  <2>1. y < x => y + b <= x
    BY <1>2, <1>4, Multiples
  <2>2. (y + b) % b = 0
    <3>1. y + b = (2 * q + 1) * b
      BY <1>3
    <3>2. ((2 * q + 1) * b) % b = 0
      BY <1>3
    <3> HIDE DEF y
    <3> QED BY <3>1, <3>2
  <2>3. y + b < x => (y + b) + b <= x
    <3> DEFINE v == y + b
    <3>1. v \in Int /\ v % b = 0
      BY <1>2, <2>2
    <3> HIDE DEF y, v
    <3>2. v < x => v + b <= x
      BY <3>1, Multiples
    <3> QED BY <3>2 DEF v
  <2> HIDE DEF y
  <2> QED BY <1>2, <2>1, <2>3
<1>6. (y + b) % d = b
  <2>1. y + b = q * d + b /\ b \in 0..(d - 1)
    BY <1>3
  <2>2. (q * d + b) % d = b
    BY <1>1, <1>3, <2>1, Remainder
  <2> HIDE DEF y, d
  <2> QED BY <2>1, <2>2
<1>7. ((y + b) + b) % d = 0
  <2>1. (y + b) + b = (q + 1) * d + 0
    BY <1>3
  <2>2. ((q + 1) * d + 0) % d = 0
    BY <1>1, <1>3, Remainder
  <2> HIDE DEF y, d
  <2> QED BY <2>1, <2>2
<1> HIDE DEF y
<1>8. CASE x = y
  <2>1. x % d = 0 /\ (x + b) % d = b
    BY <1>2, <1>6, <1>8
  <2> QED BY <2>1
<1>9. CASE x = y + b
  <2>1. x % d = b /\ (x + b) % d = 0
    BY <1>6, <1>7, <1>9
  <2> QED BY <2>1
<1> QED BY <1>5, <1>8, <1>9

\* What an aligned block covers.
LEMMA BlockCovers ==
  ASSUME NEW t \in CIDRs, t.addr % BlockSize(t) = 0
  PROVE  /\ Masked(t) = t
         /\ \A a \in Addresses : a \in Covers(t) <=> t.addr <= a /\ a < t.addr + BlockSize(t)
<1> DEFINE b == BlockSize(t)
           x == t.addr
<1>1. t \in Texts /\ Valid(t) /\ b \in Nat \ {0} /\ Masked(t).addr = x - (x % b) /\ x \in Nat
  BY MaskedTwice, AddressTypes DEF CIDRs, Texts
<1>2. Masked(t).addr = x
  BY <1>1
<1>3. Masked(t) = t
  BY <1>1, <1>2 DEF Masked, Texts
<1>4. ASSUME NEW a \in Addresses PROVE a \in Covers(t) <=> x <= a /\ a < x + b
  <2>1. a \in Int /\ x \in Int /\ x % b = 0
    BY <1>1, AddressTypes
  <2>2. a \in Covers(t) <=> a - (a % b) = x
    BY <1>2 DEF Covers
  <2> HIDE DEF b, x
  <2>3. a - (a % b) = x <=> x <= a /\ a < x + b
    BY <1>1, <2>1, Aligned
  <2> QED BY <2>2, <2>3
<1> QED BY <1>3, <1>4

Splits == [cursor: Nat, out: Seq(CIDRs)]

\* One more block of a range that ends at e.
SplitOne(e, y) ==
  IF y.cursor > e THEN y
  ELSE [cursor |-> y.cursor + PowerOfTwo[blockBits(y.cursor, e)],
        out |-> Append(y.out, [addr |-> y.cursor, bits |-> Width - blockBits(y.cursor, e)])]

\* The block is aligned, in r, and ends before c; twice its size, it is not in r.
Whole(r, t, c) ==
  /\ t \in CIDRs
  /\ t.addr % BlockSize(t) = 0
  /\ r.start <= t.addr
  /\ t.addr + BlockSize(t) <= c
  /\ t.bits > 0 => LET d == 2 * BlockSize(t)
                       x == t.addr - (t.addr % d)
                   IN r.start > x \/ x + d > r.end + 1

\* No block in r has c as its middle.
Middle(r, c) ==
  \A j \in 0..(Width - 1) :
    c % PowerOfTwo[j] = 0 /\ c % PowerOfTwo[j + 1] # 0 /\ r.start <= c - PowerOfTwo[j] =>
      r.end + 1 < c + PowerOfTwo[j]

\* y is what the loop has split of r after i rounds.
SplitSo(r, y, i) ==
  /\ y \in Splits
  /\ r.start <= y.cursor /\ y.cursor <= r.end + 1
  /\ r.start + i <= y.cursor \/ y.cursor = r.end + 1
  /\ \A k \in 1..Len(y.out) : Whole(r, y.out[k], y.cursor)
  /\ \A k, l \in 1..Len(y.out) : k < l => y.out[k].addr < y.out[l].addr
  /\ \A a \in Addresses :
       (\E k \in 1..Len(y.out) : a \in Covers(y.out[k])) <=> r.start <= a /\ a < y.cursor
  /\ Middle(r, y.cursor) \/ y.cursor = r.end + 1

\* The block that is taken.
LEMMA BlockTaken ==
  ASSUME NEW e \in Addresses, NEW c \in Nat, c <= e
  PROVE  LET k == blockBits(c, e)
             t == [addr |-> c, bits |-> Width - k]
         IN /\ k \in 0..Width /\ t \in CIDRs /\ BlockSize(t) = PowerOfTwo[k]
            /\ PowerOfTwo[k] \in Nat \ {0}
            /\ c % PowerOfTwo[k] = 0
            /\ c + PowerOfTwo[k] <= e + 1
            /\ k = Width \/ c % PowerOfTwo[k + 1] # 0 \/ c + PowerOfTwo[k + 1] > e + 1
<1> DEFINE k == blockBits(c, e)
           t == [addr |-> c, bits |-> Width - k]
<1>1. e \in Nat /\ c \in Addresses /\ Width \in Nat
  BY AddressTypes, SmallerAddress, RoutingAssumption
<1>2. /\ k \in 0..Width
      /\ c % PowerOfTwo[k] = 0
      /\ c + PowerOfTwo[k] <= e + 1
      /\ k = Width \/ c % PowerOfTwo[k + 1] # 0 \/ c + PowerOfTwo[k + 1] > e + 1
  BY <1>1, BlockBitsIs
<1>3. PowerOfTwo[k] \in Nat \ {0}
  BY <1>2, Powers
<1> HIDE DEF k
<1>4. Width - k \in 0..Width /\ Width - (Width - k) = k
  BY <1>1, <1>2
<1>5. t \in CIDRs
  BY <1>1, <1>4 DEF CIDRs, Texts, Valid
<1>6. BlockSize(t) = PowerOfTwo[k]
  BY <1>4 DEF BlockSize
<1> QED BY <1>2, <1>3, <1>5, <1>6 DEF k

LEMMA SplitOneTyped ==
  ASSUME NEW e \in Addresses, NEW y \in Splits
  PROVE  SplitOne(e, y) \in Splits
<1> DEFINE c == y.cursor
           k == blockBits(c, e)
           t == [addr |-> c, bits |-> Width - k]
<1>1. c \in Nat /\ y.out \in Seq(CIDRs) /\ e \in Nat
  BY AddressTypes DEF Splits
<1>2. CASE c > e
  BY <1>2 DEF SplitOne
<1>3. CASE ~(c > e)
  <2>1. c <= e
    BY <1>1, <1>3
  <2>2. t \in CIDRs /\ PowerOfTwo[k] \in Nat
    BY <1>1, <2>1, BlockTaken
  <2>3. SplitOne(e, y) = [cursor |-> c + PowerOfTwo[k], out |-> Append(y.out, t)]
    BY <1>3 DEF SplitOne
  <2> HIDE DEF t, k, c
  <2>4. c + PowerOfTwo[k] \in Nat /\ Append(y.out, t) \in Seq(CIDRs)
    BY <1>1, <2>2
  <2> QED BY <2>3, <2>4 DEF Splits
<1> QED BY <1>2, <1>3

\* A block that is taken is the largest: twice its size, it would not be aligned with
\* c as its start, or reach over the end, or have c as its middle.
LEMMA TakenWhole ==
  ASSUME NEW r \in Intervals, NEW c \in Nat, r.start <= c, c <= r.end, Middle(r, c)
  PROVE  LET k == blockBits(c, r.end)
             t == [addr |-> c, bits |-> Width - k]
         IN Whole(r, t, c + PowerOfTwo[k])
<1> DEFINE e == r.end
           k == blockBits(c, e)
           t == [addr |-> c, bits |-> Width - k]
           b == PowerOfTwo[k]
<1>1. r.start \in Nat /\ e \in Nat /\ e \in Addresses /\ Width \in Nat
  BY AddressTypes, RoutingAssumption
<1>2. /\ k \in 0..Width /\ t \in CIDRs /\ BlockSize(t) = b /\ b \in Nat \ {0}
      /\ c % b = 0 /\ c + b <= e + 1
      /\ k = Width \/ c % PowerOfTwo[k + 1] # 0 \/ c + PowerOfTwo[k + 1] > e + 1
  BY <1>1, BlockTaken
<1>3. t.addr = c /\ t.bits = Width - k
  OBVIOUS
<1> HIDE DEF k, t
<1>4. ASSUME t.bits > 0
      PROVE  r.start > c - (c % (2 * b)) \/ (c - (c % (2 * b))) + 2 * b > e + 1
  <2>1. k \in 0..(Width - 1) /\ k + 1 \in 1..Width /\ (k + 1) - 1 = k /\ k # Width
    BY <1>1, <1>2, <1>3, <1>4
  <2>2. PowerOfTwo[k + 1] = 2 * b
    BY <2>1, Powers
  <2> HIDE DEF b, e
  <2>3. CASE c % (2 * b) = 0
    <3>1. c + 2 * b > e + 1
      BY <1>2, <2>1, <2>2, <2>3
    <3> QED BY <2>3, <3>1
  <2>4. CASE c % (2 * b) # 0
    <3>1. c % (2 * b) = b
      BY <1>2, <2>4, Halves
    <3>2. c - (c % (2 * b)) = c - b /\ (c - b) + 2 * b = c + b
      BY <1>2, <3>1
    <3>3. r.start <= c - b => e + 1 < c + b
      BY <1>2, <2>1, <2>2, <2>4 DEF Middle, b, e
    <3>4. r.start > c - b \/ c + b > e + 1
      BY <1>1, <1>2, <3>3
    <3> QED BY <3>2, <3>4
  <2> QED BY <2>3, <2>4
<1> HIDE DEF b
<1>5. Whole(r, t, c + b)
  BY <1>1, <1>2, <1>3, <1>4 DEF Whole, e
<1> QED BY <1>5 DEF b, t, k, e

\* The end of a block that is taken is not the middle of a block of r.
LEMMA TakenMiddle ==
  ASSUME NEW r \in Intervals, NEW c \in Nat, r.start <= c, c <= r.end, Middle(r, c)
  PROVE  LET d == c + PowerOfTwo[blockBits(c, r.end)]
         IN Middle(r, d) \/ d = r.end + 1
<1> DEFINE e == r.end
           k == blockBits(c, e)
           b == PowerOfTwo[k]
           d == c + b
<1>1. r.start \in Nat /\ e \in Nat /\ e \in Addresses /\ Width \in Nat
  BY AddressTypes, RoutingAssumption
<1>2. /\ k \in 0..Width /\ b \in Nat \ {0}
      /\ c % b = 0 /\ d <= e + 1
      /\ k = Width \/ c % PowerOfTwo[k + 1] # 0 \/ c + PowerOfTwo[k + 1] > e + 1
  BY <1>1, BlockTaken
<1> HIDE DEF k
<1>3. CASE k = Width
  <2>1. e + 1 <= PowerOfTwo[Width] /\ PowerOfTwo[Width] \in Nat
    BY <1>1, Powers DEF Addresses
  <2>2. d = e + 1
    <3> HIDE DEF e
    <3> QED BY <1>1, <1>2, <1>3, <2>1
  <2> QED BY <2>2 DEF k
<1>4. CASE k # Width
  <2>1. k \in 0..(Width - 1) /\ k + 1 \in 1..Width /\ (k + 1) - 1 = k
    BY <1>1, <1>2, <1>4
  <2>2. PowerOfTwo[k + 1] = 2 * b
    BY <2>1, Powers
  <2>3. d % b = 0
    <3>1. c = b * (c \div b) + (c % b) /\ c \div b \in Int
      <4>1. \A v \in Int, w \in Nat \ {0} : v \div w \in Int /\ v = w * (v \div w) + (v % w)
        OBVIOUS
      <4> HIDE DEF b
      <4> QED BY <1>2, <4>1
    <3> DEFINE q == c \div b
    <3> HIDE DEF q
    <3>2. q \in Int /\ d = (q + 1) * b + 0
      <4> HIDE DEF b
      <4> QED BY <1>2, <3>1 DEF q
    <3> DEFINE p == q + 1
    <3>3. p \in Int /\ d = p * b + 0
      BY <3>2
    <3> HIDE DEF p, d
    <3>4. (p * b + 0) % b = 0
      <4>1. b \in Nat \ {0} /\ 0 \in 0..(b - 1)
        BY <1>2
      <4> HIDE DEF b
      <4> QED BY <3>3, <4>1, Remainder
    <3> QED BY <3>3, <3>4
  <2>4. ASSUME NEW j \in 0..(Width - 1), d % PowerOfTwo[j] = 0, d % PowerOfTwo[j + 1] # 0,
               r.start <= d - PowerOfTwo[j]
        PROVE  e + 1 < d + PowerOfTwo[j]
    <3>1. /\ j \in 0..Width /\ j + 1 \in 0..Width /\ k + 1 \in 0..Width /\ d \in Int
          /\ PowerOfTwo[j] \in Nat \ {0}
      <4>1. j \in 0..Width /\ j + 1 \in 0..Width /\ k + 1 \in 0..Width
        BY <1>1, <1>2, <2>1
      <4> QED BY <1>2, <4>1, Powers
    <3> HIDE DEF d
    <3>2. j + 1 <= k => d % PowerOfTwo[j + 1] = 0
      BY <1>2, <2>3, <3>1, DividesDown
    <3>3. k + 1 <= j => d % PowerOfTwo[k + 1] = 0
      BY <2>4, <3>1, DividesDown
    <3>4. j >= k
      BY <1>2, <2>4, <3>2
    <3>h. /\ c % (2 * b) = 0 => (c + b) % (2 * b) # 0
          /\ c % (2 * b) # 0 => (c + b) % (2 * b) = 0
      <4>1. b \in Nat \ {0} /\ c \in Int /\ c % b = 0
        BY <1>2
      <4> HIDE DEF b
      <4> QED BY <4>1, Halves
    <3>5. CASE c % (2 * b) = 0
      <4>1. d % (2 * b) # 0
        BY <3>5, <3>h DEF d
      <4>2. j = k
        BY <1>2, <2>2, <3>3, <3>4, <4>1
      <4>3. c + 2 * b > e + 1
        BY <1>2, <1>4, <2>2, <3>5
      <4>4. PowerOfTwo[j] = b
        BY <4>2
      <4> HIDE DEF b, e
      <4> QED BY <1>1, <1>2, <4>3, <4>4 DEF d
    <3>6. CASE c % (2 * b) # 0
      <4>1. d % (2 * b) = 0
        BY <3>6, <3>h DEF d
      <4>2. k + 1 <= j
        <5> SUFFICES ASSUME j = k PROVE FALSE
          BY <1>2, <3>4
        <5> QED BY <2>2, <2>4, <4>1
      <4>3. 2 * b <= PowerOfTwo[j]
        <5>1. PowerOfTwo[k + 1] <= PowerOfTwo[j]
          BY <3>1, <4>2, PowersDivide
        <5> QED BY <2>2, <5>1
      <4>4. r.start <= c - b => e + 1 < c + b
        BY <1>2, <2>1, <2>2, <3>6 DEF Middle
      <4> DEFINE pj == PowerOfTwo[j]
      <4>5. pj \in Nat /\ r.start <= d - pj /\ 2 * b <= pj
        BY <2>4, <3>1, <4>3
      <4> HIDE DEF b, e, pj
      <4>6. r.start <= c - b
        BY <1>1, <1>2, <4>5 DEF d
      <4>7. e + 1 < d + pj
        BY <1>1, <1>2, <4>4, <4>5, <4>6 DEF d
      <4> QED BY <4>7 DEF pj
    <3> QED BY <3>5, <3>6
  <2>5. Middle(r, d)
    BY <2>4 DEF Middle
  <2> QED BY <2>5 DEF k
<1> QED BY <1>3, <1>4

LEMMA SplitNext ==
  ASSUME NEW r \in Intervals, NEW i \in Nat \ {0}, NEW y, SplitSo(r, y, i - 1)
  PROVE  SplitSo(r, SplitOne(r.end, y), i)
<1> DEFINE e == r.end
           c == y.cursor
           k == blockBits(c, e)
           t == [addr |-> c, bits |-> Width - k]
           b == PowerOfTwo[k]
           z == SplitOne(e, y)
           l == Len(y.out)
<1>1. /\ y \in Splits /\ r.start <= c /\ c <= e + 1
      /\ r.start + (i - 1) <= c \/ c = e + 1
      /\ \A m \in 1..l : Whole(r, y.out[m], c)
      /\ \A m, n \in 1..l : m < n => y.out[m].addr < y.out[n].addr
      /\ \A a \in Addresses : (\E m \in 1..l : a \in Covers(y.out[m])) <=> r.start <= a /\ a < c
      /\ Middle(r, c) \/ c = e + 1
  BY DEF SplitSo
<1>2. c \in Nat /\ y.out \in Seq(CIDRs) /\ l \in Nat
  BY <1>1 DEF Splits
<1>3. r.start \in Nat /\ e \in Nat /\ e \in Addresses /\ r.start <= e
  BY AddressTypes
<1>4. CASE c > e
  <2>1. z = y
    BY <1>4 DEF SplitOne
  <2>2. c = e + 1
    <3> HIDE DEF c, e
    <3> QED BY <1>1, <1>2, <1>3, <1>4
  <2>3. SplitSo(r, y, i)
    BY <1>1, <2>2 DEF SplitSo
  <2> QED BY <2>1, <2>3
<1>5. CASE ~(c > e)
  <2>1. c <= e /\ Middle(r, c)
    <3>1. c <= e /\ c # e + 1
      <4> HIDE DEF c, e
      <4> QED BY <1>2, <1>3, <1>5
    <3> QED BY <1>1, <3>1
  <2>2. /\ k \in 0..Width /\ t \in CIDRs /\ BlockSize(t) = b /\ b \in Nat \ {0}
        /\ c % b = 0 /\ c + b <= e + 1
    BY <1>2, <1>3, <2>1, BlockTaken
  <2>3. Whole(r, t, c + b)
    BY <1>1, <1>2, <2>1, TakenWhole
  <2>4. Middle(r, c + b) \/ c + b = e + 1
    BY <1>1, <1>2, <2>1, TakenMiddle
  <2>5. z \in Splits
    BY <1>1, <1>3, SplitOneTyped
  <2>6. z = [cursor |-> c + b, out |-> Append(y.out, t)]
    BY <1>5 DEF SplitOne
  <2>7. t.addr = c
    OBVIOUS
  <2> HIDE DEF z, t, k, b
  <2>8. /\ z.cursor = c + b /\ z.out = Append(y.out, t)
        /\ Len(z.out) = l + 1 /\ z.out[l + 1] = t /\ \A m \in 1..l : z.out[m] = y.out[m]
    <3>1. z.cursor = c + b /\ z.out = Append(y.out, t)
      BY <2>6
    <3> QED BY <1>2, <2>2, <3>1
  <2> HIDE DEF c, e
  <2>9. r.start <= c + b /\ c + b <= e + 1 /\ r.start + i <= c + b
    <3>1. r.start + (i - 1) <= c
      BY <1>1, <1>2, <1>3, <2>1
    <3> QED BY <1>1, <1>2, <1>3, <2>2, <3>1
  <2>10. ASSUME NEW m \in 1..(l + 1) PROVE Whole(r, z.out[m], c + b)
    <3>1. CASE m = l + 1
      BY <2>3, <2>8, <3>1
    <3>2. CASE m # l + 1
      <4>1. m \in 1..l /\ z.out[m] = y.out[m]
        BY <1>2, <2>8, <3>2
      <4> DEFINE u == y.out[m]
      <4>2. Whole(r, u, c)
        BY <1>1, <4>1
      <4>3. u \in CIDRs /\ u.addr \in Nat /\ BlockSize(u) \in Nat
        <5>1. u \in CIDRs
          BY <4>2 DEF Whole
        <5> QED BY <5>1, MaskedTwice, AddressTypes DEF CIDRs, Texts
      <4> HIDE DEF u
      <4>4. u.addr + BlockSize(u) <= c + b
        BY <1>2, <2>2, <4>2, <4>3 DEF Whole
      <4>5. Whole(r, u, c + b)
        BY <4>2, <4>4 DEF Whole
      <4> QED BY <4>1, <4>5 DEF u
    <3> QED BY <3>1, <3>2
  <2>11. ASSUME NEW m \in 1..(l + 1), NEW n \in 1..(l + 1), m < n
         PROVE  z.out[m].addr < z.out[n].addr
    <3>1. m \in 1..l /\ z.out[m] = y.out[m]
      BY <1>2, <2>8, <2>11
    <3>2. CASE n = l + 1
      <4> DEFINE u == y.out[m]
      <4>1. Whole(r, u, c)
        BY <1>1, <3>1
      <4>2. u \in CIDRs /\ u.addr + BlockSize(u) <= c
        BY <4>1 DEF Whole
      <4>3. u.addr \in Nat /\ BlockSize(u) \in Nat \ {0}
        BY <4>2, MaskedTwice, AddressTypes DEF CIDRs, Texts
      <4> HIDE DEF u
      <4>4. u.addr < c
        BY <1>2, <4>2, <4>3
      <4> QED BY <2>7, <2>8, <3>1, <3>2, <4>4 DEF u
    <3>3. CASE n # l + 1
      <4>1. n \in 1..l /\ z.out[n] = y.out[n]
        BY <1>2, <2>8, <3>3
      <4> QED BY <1>1, <2>11, <3>1, <4>1
    <3> QED BY <3>2, <3>3
  <2>12. ASSUME NEW a \in Addresses
         PROVE  (\E m \in 1..(l + 1) : a \in Covers(z.out[m])) <=> r.start <= a /\ a < c + b
    <3>1. (\E m \in 1..(l + 1) : a \in Covers(z.out[m]))
            <=> (\E m \in 1..l : a \in Covers(z.out[m])) \/ a \in Covers(z.out[l + 1])
      BY <1>2
    <3>2. (\E m \in 1..l : a \in Covers(z.out[m])) <=> (\E m \in 1..l : a \in Covers(y.out[m]))
      BY <2>8
    <3>3. (\E m \in 1..l : a \in Covers(y.out[m])) <=> r.start <= a /\ a < c
      BY <1>1
    <3>4. a \in Covers(t) <=> c <= a /\ a < c + b
      <4>1. t.addr % BlockSize(t) = 0
        BY <2>2, <2>7
      <4> QED BY <2>2, <2>7, <4>1, BlockCovers
    <3>5. a \in Nat
      BY AddressTypes
    <3>6. (r.start <= a /\ a < c) \/ (c <= a /\ a < c + b) <=> r.start <= a /\ a < c + b
      BY <1>1, <1>2, <1>3, <2>2, <3>5
    <3> QED BY <2>8, <3>1, <3>2, <3>3, <3>4, <3>6
  <2>13. SplitSo(r, z, i)
    BY <2>4, <2>5, <2>8, <2>9, <2>10, <2>11, <2>12 DEF SplitSo, e
  <2> QED BY <2>13 DEF z, e
<1> QED BY <1>4, <1>5

\* A range is split into aligned blocks, sorted, each as large as the range allows,
\* that cover its addresses and no others.
LEMMA SplitBlocks ==
  ASSUME NEW r \in Intervals
  PROVE  /\ split(r) \in Seq(CIDRs)
         /\ \A k \in 1..Len(split(r)) : Whole(r, split(r)[k], r.end + 1)
         /\ \A k, l \in 1..Len(split(r)) : k < l => split(r)[k].addr < split(r)[l].addr
         /\ \A a \in Addresses :
              (\E k \in 1..Len(split(r)) : a \in Covers(split(r)[k])) <=> InRange(r, a)
<1> DEFINE n == r.end - r.start + 1
           x == [cursor |-> r.start, out |-> <<>>]
           Is(f) == f = [i \in 0..n |-> IF i = 0 THEN x ELSE SplitOne(r.end, f[i - 1])]
           F == CHOOSE f : Is(f)
           g == [i \in 1..n |-> [y \in Splits |-> SplitOne(r.end, y)]]
<1>1. split(r) = F[n].out
  BY DEF split, SplitOne
<1>2. r.start \in Nat /\ r.end \in Nat /\ r.end \in Addresses /\ r.start <= r.end
  BY AddressTypes
<1>n. n \in Nat /\ x \in Splits
  BY <1>2 DEF Splits
<1>3. \A i \in 1..n : \A y \in Splits : g[i][y] = SplitOne(r.end, y) /\ g[i][y] \in Splits
  BY <1>2, SplitOneTyped
<1> HIDE DEF g
<1>4. PICK f : Rounds(Splits, x, g, n, f)
  <2> HIDE DEF n, x
  <2> QED BY <1>n, <1>3, RoundsExist
<1>5. Is(f)
  <2> HIDE DEF n, x
  <2>1. ASSUME NEW i \in 1..n PROVE f[i] = SplitOne(r.end, f[i - 1])
    <3>1. f[i] = g[i][f[i - 1]] /\ f[i - 1] \in Splits
      BY <1>n, <1>4 DEF Rounds
    <3> QED BY <1>3, <3>1
  <2>2. f[0] = x /\ f \in [0..n -> Splits]
    BY <1>4 DEF Rounds
  <2> QED BY <1>n, <2>1, <2>2
<1>6. Is(F)
  BY <1>5
<1> HIDE DEF F
<1>7. F[0] = x /\ \A i \in 1..n : F[i] = SplitOne(r.end, F[i - 1])
  <2> HIDE DEF n, x
  <2>1. \A i \in 0..n : F[i] = IF i = 0 THEN x ELSE SplitOne(r.end, F[i - 1])
    BY <1>6
  <2> QED BY <1>n, <2>1
<1> DEFINE P(i) == SplitSo(r, F[i], i)
           T == {i \in 0..n : P(i)}
<1>8. P(0)
  <2>1. F[0].cursor = r.start /\ F[0].out = <<>> /\ F[0] \in Splits
    BY <1>n, <1>7
  <2>2. Middle(r, r.start)
    <3> SUFFICES ASSUME NEW j \in 0..(Width - 1), r.start <= r.start - PowerOfTwo[j] PROVE FALSE
      BY DEF Middle
    <3>1. j \in 0..Width
      BY RoutingAssumption
    <3>2. PowerOfTwo[j] \in Nat \ {0}
      BY <3>1, Powers
    <3> QED BY <1>2, <3>2
  <2>3. ASSUME NEW a \in Addresses
        PROVE  (\E k \in 1..Len(<<>>) : a \in Covers(<<>>[k])) <=> r.start <= a /\ a < r.start
    <3>1. a \in Nat
      BY AddressTypes
    <3> QED BY <1>2, <3>1
  <2> QED BY <1>2, <2>1, <2>2, <2>3 DEF SplitSo
<1>9. ASSUME NEW i \in 1..n, P(i - 1) PROVE P(i)
  <2>1. i \in Nat \ {0}
    BY <1>n
  <2> QED BY <1>7, <1>9, <2>1, SplitNext
<1> HIDE DEF P, n
<1>10. \A i \in 0..n : i \in T
  <2>1. 0 \in T
    BY <1>n, <1>8
  <2>2. \A i \in 1..n : i - 1 \in T => i \in T
    BY <1>n, <1>9
  <2> HIDE DEF T
  <2> QED BY <1>n, <2>1, <2>2, Induct
<1>11. SplitSo(r, F[n], n)
  <2>1. P(n)
    BY <1>n, <1>10
  <2> QED BY <2>1 DEF P
<1> DEFINE y == F[n]
<1>12. /\ y \in Splits /\ y.cursor \in Nat /\ y.out \in Seq(CIDRs)
       /\ y.cursor <= r.end + 1 /\ (r.start + n <= y.cursor \/ y.cursor = r.end + 1)
  BY <1>11 DEF SplitSo, Splits
<1>13. y.cursor = r.end + 1
  BY <1>2, <1>12 DEF n
<1>14. /\ \A k \in 1..Len(y.out) : Whole(r, y.out[k], r.end + 1)
       /\ \A k, l \in 1..Len(y.out) : k < l => y.out[k].addr < y.out[l].addr
       /\ \A a \in Addresses :
            (\E k \in 1..Len(y.out) : a \in Covers(y.out[k])) <=> r.start <= a /\ a < r.end + 1
  BY <1>11, <1>13 DEF SplitSo
<1>15. ASSUME NEW a \in Addresses PROVE (r.start <= a /\ a < r.end + 1) <=> InRange(r, a)
  <2>1. a \in Nat
    BY AddressTypes
  <2> QED BY <1>2, <2>1 DEF InRange
<1> QED BY <1>1, <1>12, <1>14, <1>15

\* Blocks of the first m ranges, in order.
BlocksSo(rs, p, m) ==
  /\ p \in Seq(CIDRs)
  /\ \A k \in 1..Len(p) : \E i \in 1..m : Whole(rs[i], p[k], rs[i].end + 1)
  /\ \A k, l \in 1..Len(p) : k < l => p[k].addr < p[l].addr
  /\ \A a \in Addresses :
       (\E k \in 1..Len(p) : a \in Covers(p[k])) <=> (\E i \in 1..m : InRange(rs[i], a))

LEMMA BlocksNext ==
  ASSUME NEW rs \in Seq(Intervals), Apart(rs), NEW m \in 1..Len(rs), NEW p, BlocksSo(rs, p, m - 1)
  PROVE  BlocksSo(rs, p \o split(rs[m]), m)
<1> DEFINE r == rs[m]
           s == split(r)
           z == p \o s
           k0 == Len(p)
           l0 == Len(s)
<1>1. /\ p \in Seq(CIDRs)
      /\ \A k \in 1..k0 : \E i \in 1..(m - 1) : Whole(rs[i], p[k], rs[i].end + 1)
      /\ \A k, l \in 1..k0 : k < l => p[k].addr < p[l].addr
      /\ \A a \in Addresses :
           (\E k \in 1..k0 : a \in Covers(p[k])) <=> (\E i \in 1..(m - 1) : InRange(rs[i], a))
  BY DEF BlocksSo
<1>2. r \in Intervals /\ m \in Nat
  OBVIOUS
<1>3. /\ s \in Seq(CIDRs)
      /\ \A k \in 1..l0 : Whole(r, s[k], r.end + 1)
      /\ \A k, l \in 1..l0 : k < l => s[k].addr < s[l].addr
      /\ \A a \in Addresses : (\E k \in 1..l0 : a \in Covers(s[k])) <=> InRange(r, a)
  BY <1>2, SplitBlocks
<1>4. k0 \in Nat /\ l0 \in Nat
  BY <1>1, <1>3
<1> HIDE DEF s
<1>5. /\ z \in Seq(CIDRs) /\ Len(z) = k0 + l0
      /\ \A k \in 1..k0 : z[k] = p[k]
      /\ \A l \in 1..l0 : z[k0 + l] = s[l]
  BY <1>1, <1>3, <1>4
<1> HIDE DEF z
<1>6. \A k \in 1..(k0 + l0) : \/ k \in 1..k0 /\ z[k] = p[k]
                              \/ k - k0 \in 1..l0 /\ k > k0 /\ z[k] = s[k - k0]
  <2> TAKE k \in 1..(k0 + l0)
  <2>1. CASE k <= k0
    BY <1>4, <1>5, <2>1
  <2>2. CASE ~(k <= k0)
    <3>1. k - k0 \in 1..l0 /\ k0 + (k - k0) = k /\ k > k0
      BY <1>4, <2>2
    <3>2. z[k0 + (k - k0)] = s[k - k0]
      BY <1>5, <3>1
    <3> QED BY <3>1, <3>2
  <2> QED BY <2>1, <2>2
<1>7. ASSUME NEW k \in 1..(k0 + l0) PROVE \E i \in 1..m : Whole(rs[i], z[k], rs[i].end + 1)
  <2>1. CASE k \in 1..k0 /\ z[k] = p[k]
    <3>1. PICK i \in 1..(m - 1) : Whole(rs[i], p[k], rs[i].end + 1)
      BY <1>1, <2>1
    <3>2. i \in 1..m
      BY <1>2
    <3> QED BY <2>1, <3>1, <3>2
  <2>2. CASE k - k0 \in 1..l0 /\ z[k] = s[k - k0]
    <3>1. m \in 1..m /\ Whole(rs[m], s[k - k0], rs[m].end + 1)
      BY <1>2, <1>3, <2>2
    <3> QED BY <2>2, <3>1
  <2> QED BY <1>6, <2>1, <2>2
<1>8. ASSUME NEW k \in 1..(k0 + l0), NEW l \in 1..(k0 + l0), k < l PROVE z[k].addr < z[l].addr
  <2>1. CASE l \in 1..k0 /\ z[l] = p[l]
    <3>1. k \in 1..k0 /\ z[k] = p[k]
      BY <1>4, <1>5, <1>8, <2>1
    <3> QED BY <1>1, <1>8, <2>1, <3>1
  <2>2. CASE l - k0 \in 1..l0 /\ l > k0 /\ z[l] = s[l - k0]
    <3>1. CASE k \in 1..k0 /\ z[k] = p[k]
      <4>1. PICK i \in 1..(m - 1) : Whole(rs[i], p[k], rs[i].end + 1)
        BY <1>1, <3>1
      <4> DEFINE u == p[k]
                 v == s[l - k0]
      <4>2. Whole(r, v, r.end + 1)
        BY <1>3, <2>2
      <4>3. u \in CIDRs /\ v \in CIDRs /\ u.addr + BlockSize(u) <= rs[i].end + 1 /\ r.start <= v.addr
        BY <4>1, <4>2 DEF Whole
      <4>4. u.addr \in Nat /\ v.addr \in Nat /\ BlockSize(u) \in Nat \ {0}
        BY <4>3, MaskedTwice, AddressTypes DEF CIDRs, Texts
      <4>5. i \in 1..Len(rs) /\ i < m /\ rs[i] \in Intervals
        BY <1>2
      <4>6. rs[i].end + 1 < r.start
        BY <4>5 DEF Apart
      <4>7. rs[i].end \in Nat /\ r.start \in Nat
        BY <1>2, <4>5, AddressTypes
      <4> HIDE DEF u, v, r
      <4>8. u.addr < v.addr
        <5> DEFINE bu == BlockSize(u)
                   ei == rs[i].end
        <5>1. /\ u.addr + bu <= ei + 1 /\ ei + 1 < r.start /\ r.start <= v.addr
              /\ bu \in Nat \ {0} /\ ei \in Nat
          BY <4>3, <4>4, <4>6, <4>7
        <5> HIDE DEF bu, ei
        <5> QED BY <4>4, <4>7, <5>1, SMTT(30)
      <4> QED BY <2>2, <3>1, <4>8 DEF u, v
    <3>2. CASE k - k0 \in 1..l0 /\ z[k] = s[k - k0]
      <4>1. k - k0 < l - k0
        BY <1>4, <1>8
      <4> QED BY <1>3, <2>2, <3>2, <4>1
    <3> QED BY <1>6, <3>1, <3>2
  <2> QED BY <1>6, <2>1, <2>2
<1>9. ASSUME NEW a \in Addresses
      PROVE  (\E k \in 1..(k0 + l0) : a \in Covers(z[k])) <=> (\E i \in 1..m : InRange(rs[i], a))
  <2>1. (\E i \in 1..m : InRange(rs[i], a)) <=> (\E i \in 1..(m - 1) : InRange(rs[i], a)) \/ InRange(rs[m], a)
    BY <1>2
  <2>2. ASSUME NEW k \in 1..(k0 + l0), a \in Covers(z[k])
        PROVE  (\E i \in 1..(m - 1) : InRange(rs[i], a)) \/ InRange(rs[m], a)
    <3>1. CASE k \in 1..k0 /\ z[k] = p[k]
      BY <1>1, <2>2, <3>1
    <3>2. CASE k - k0 \in 1..l0 /\ z[k] = s[k - k0]
      BY <1>3, <2>2, <3>2
    <3> QED BY <1>6, <3>1, <3>2
  <2>3. ASSUME \E i \in 1..(m - 1) : InRange(rs[i], a) PROVE \E k \in 1..(k0 + l0) : a \in Covers(z[k])
    <3>1. PICK k \in 1..k0 : a \in Covers(p[k])
      BY <1>1, <2>3
    <3>2. k \in 1..(k0 + l0) /\ z[k] = p[k]
      BY <1>4, <1>5
    <3> QED BY <3>1, <3>2
  <2>4. ASSUME InRange(rs[m], a) PROVE \E k \in 1..(k0 + l0) : a \in Covers(z[k])
    <3>1. PICK l \in 1..l0 : a \in Covers(s[l])
      BY <1>3, <2>4
    <3>2. k0 + l \in 1..(k0 + l0) /\ z[k0 + l] = s[l]
      BY <1>4, <1>5
    <3> QED BY <3>1, <3>2
  <2> QED BY <2>1, <2>2, <2>3, <2>4
<1>10. BlocksSo(rs, z, m)
  BY <1>5, <1>7, <1>8, <1>9 DEF BlocksSo
<1> QED BY <1>10 DEF z, s

LEMMA BlocksOfRanges ==
  ASSUME NEW rs \in Seq(Intervals)
  PROVE  BlocksSo(mergeIPv4Ranges(rs), ipv4RangesToPrefixes(rs), Len(mergeIPv4Ranges(rs)))
<1> DEFINE ms == mergeIPv4Ranges(rs)
           n == Len(ms)
           X == Seq(CIDRs)
           Is(f) == f = [i \in 0..n |-> IF i = 0 THEN <<>> ELSE f[i - 1] \o split(ms[i])]
           F == CHOOSE f : Is(f)
           g == [i \in 1..n |-> [y \in X |-> y \o split(ms[i])]]
<1>1. ipv4RangesToPrefixes(rs) = F[n]
  BY DEF ipv4RangesToPrefixes
<1>2. ms \in Seq(Intervals) /\ Apart(ms)
  BY MergedRanges
<1> HIDE DEF ms
<1>n. n \in Nat /\ <<>> \in X
  BY <1>2
<1>3. \A i \in 1..n : \A y \in X : g[i][y] = y \o split(ms[i]) /\ g[i][y] \in X
  <2> TAKE i \in 1..n
  <2> TAKE y \in X
  <2>1. ms[i] \in Intervals
    BY <1>2
  <2>2. split(ms[i]) \in Seq(CIDRs)
    BY <2>1, SplitBlocks
  <2>3. y \o split(ms[i]) \in X
    BY <2>2
  <2> QED BY <2>3
<1> HIDE DEF n, g
<1>4. PICK f : Rounds(X, <<>>, g, n, f)
  <2> HIDE DEF X
  <2> QED BY <1>n, <1>3, RoundsExist
<1>5. Is(f)
  <2> HIDE DEF X
  <2>1. ASSUME NEW i \in 1..n PROVE f[i] = f[i - 1] \o split(ms[i])
    <3>1. f[i] = g[i][f[i - 1]] /\ f[i - 1] \in X
      BY <1>n, <1>4 DEF Rounds
    <3> QED BY <1>3, <3>1
  <2>2. f[0] = <<>> /\ f \in [0..n -> X]
    BY <1>4 DEF Rounds
  <2> QED BY <1>n, <2>1, <2>2
<1>6. Is(F)
  BY <1>5
<1> HIDE DEF F
<1>7. F[0] = <<>> /\ \A i \in 1..n : F[i] = F[i - 1] \o split(ms[i])
  <2>1. \A i \in 0..n : F[i] = IF i = 0 THEN <<>> ELSE F[i - 1] \o split(ms[i])
    BY <1>6
  <2>2. F[0] = <<>>
    BY <1>n, <2>1
  <2>3. ASSUME NEW i \in 1..n PROVE F[i] = F[i - 1] \o split(ms[i])
    <3>1. i \in 0..n /\ i # 0
      BY <1>n
    <3> QED BY <2>1, <3>1
  <2> QED BY <2>2, <2>3
<1> DEFINE P(m) == BlocksSo(ms, F[m], m)
           T == {m \in 0..n : P(m)}
<1>8. P(0)
  <2>1. BlocksSo(ms, <<>>, 0)
    BY DEF BlocksSo
  <2> QED BY <1>7, <2>1
<1>9. ASSUME NEW i \in 1..n, P(i - 1) PROVE P(i)
  <2>1. BlocksSo(ms, F[i - 1] \o split(ms[i]), i)
    BY <1>2, <1>9, BlocksNext DEF n
  <2> QED BY <1>7, <2>1
<1> HIDE DEF P
<1>10. \A i \in 0..n : i \in T
  <2>1. 0 \in T
    BY <1>n, <1>8
  <2>2. \A i \in 1..n : i - 1 \in T => i \in T
    BY <1>n, <1>9
  <2> HIDE DEF T
  <2> QED BY <1>n, <2>1, <2>2, Induct
<1>11. P(n)
  BY <1>n, <1>10
<1> QED BY <1>1, <1>11 DEF P, n, ms

(***************************************************************************)
(* Routing: what a stored policy routes.                                   *)
(***************************************************************************)
LEMMA UnionIs ==
  ASSUME NEW ps \in Seq(CIDRs)
  PROVE  /\ Union(ps) \subseteq Addresses
         /\ \A a \in Addresses : a \in Union(ps) <=> \E k \in 1..Len(ps) : a \in Covers(ps[k])
BY DEF Union, ToSet, Covers

\* Masking and dropping repetitions leave the addresses.
LEMMA UnionNormalized ==
  ASSUME NEW texts \in Seq(Texts), \A i \in DOMAIN texts : Valid(texts[i])
  PROVE  Union(normalizeIPv4Prefixes(texts)) = Union(texts)
<1> DEFINE n == normalizeIPv4Prefixes(texts)
<1>1. n \in Seq(CIDRs) /\ Elements(n) = {Masked(texts[i]) : i \in 1..Len(texts)}
  BY NormalizedList DEF Tidied
<1> HIDE DEF n
<1>2. ToSet(n) = {Masked(texts[i]) : i \in 1..Len(texts)}
  <2>1. DOMAIN n = 1..Len(n)
    BY <1>1
  <2>2. ToSet(n) = Elements(n)
    BY <2>1 DEF ToSet, Elements
  <2> QED BY <1>1, <2>2
<1>3. ToSet(texts) = {texts[i] : i \in 1..Len(texts)}
  BY DEF ToSet
<1>4. ASSUME NEW i \in 1..Len(texts) PROVE Covers(Masked(texts[i])) = Covers(texts[i])
  <2> DEFINE t == texts[i]
  <2>1. t \in Texts /\ Valid(t)
    OBVIOUS
  <2> HIDE DEF t
  <2>2. Masked(Masked(t)) = Masked(t) /\ Masked(t).bits = t.bits
    BY <2>1, MaskedTwice
  <2>3. BlockSize(Masked(t)) = BlockSize(t)
    BY <2>2 DEF BlockSize
  <2>4. Covers(Masked(t)) = Covers(t)
    BY <2>2, <2>3 DEF Covers
  <2> QED BY <2>4 DEF t
<1>5. Union(n) = UNION {Covers(Masked(texts[i])) : i \in 1..Len(texts)}
  BY <1>2 DEF Union
<1>6. Union(texts) = UNION {Covers(texts[i]) : i \in 1..Len(texts)}
  BY <1>3 DEF Union
<1>7. Union(n) = Union(texts)
  BY <1>4, <1>5, <1>6
<1> QED BY <1>7 DEF n

LEMMA EverythingIs ==
  /\ Everything \in CIDRs
  /\ Union(<<Everything>>) = Addresses
<1>1. Width \in Nat /\ PowerOfTwo[Width] \in Nat \ {0} /\ 0 \in Addresses
  <2>1. Width \in Nat /\ Width \in 0..Width
    BY RoutingAssumption
  <2>2. PowerOfTwo[Width] \in Nat \ {0}
    BY <2>1, Powers
  <2> QED BY <2>1, <2>2 DEF Addresses
<1>2. Everything \in CIDRs
  BY <1>1 DEF Everything, CIDRs, Texts, Valid
<1>3. Everything.addr = 0 /\ BlockSize(Everything) = PowerOfTwo[Width]
  BY <1>1 DEF Everything, BlockSize
<1>4. Everything.addr % BlockSize(Everything) = 0
  BY <1>1, <1>3
<1>5. ASSUME NEW a \in Addresses PROVE a \in Covers(Everything)
  <2>1. a \in Nat /\ 0 <= a /\ a < 0 + PowerOfTwo[Width]
    BY <1>1 DEF Addresses
  <2> QED BY <1>2, <1>3, <1>4, <2>1, BlockCovers
<1> DEFINE s == <<Everything>>
<1>6. s \in Seq(CIDRs) /\ Len(s) = 1 /\ s[1] = Everything
  BY <1>2
<1> HIDE DEF s
<1>7. Union(s) \subseteq Addresses /\ \A a \in Addresses : a \in Union(s) <=> \E k \in 1..Len(s) : a \in Covers(s[k])
  BY <1>6, UnionIs
<1>8. ASSUME NEW a \in Addresses PROVE a \in Union(s)
  <2>1. 1 \in 1..Len(s) /\ a \in Covers(s[1])
    BY <1>5, <1>6
  <2> QED BY <1>7, <2>1
<1>9. Union(s) = Addresses
  BY <1>7, <1>8
<1> QED BY <1>2, <1>9 DEF s

\* What is computed from two lists.
LEMMA ComputedRoutes ==
  ASSUME NEW basis \in Seq(CIDRs), NEW ex \in Seq(CIDRs)
  PROVE  LET rs == subtractIPv4Ranges(prefixesToIPv4Ranges(basis), prefixesToIPv4Ranges(ex))
             ms == mergeIPv4Ranges(rs)
         IN /\ ms \in Seq(Intervals) /\ Apart(ms)
            /\ BlocksSo(ms, ipv4RangesToPrefixes(rs), Len(ms))
            /\ \A a \in Addresses : Within(ms, a) <=> a \in Union(basis) \ Union(ex)
            /\ Union(ipv4RangesToPrefixes(rs)) = Union(basis) \ Union(ex)
<1> DEFINE pb == prefixesToIPv4Ranges(basis)
           pe == prefixesToIPv4Ranges(ex)
           rs == subtractIPv4Ranges(pb, pe)
           ms == mergeIPv4Ranges(rs)
           v == ipv4RangesToPrefixes(rs)
<1>1. /\ pb \in Seq(Intervals) /\ \A a \in Addresses : Within(pb, a) <=> a \in Union(basis)
      /\ pe \in Seq(Intervals) /\ \A a \in Addresses : Within(pe, a) <=> a \in Union(ex)
  BY RangesOfCIDRs
<1> HIDE DEF pb, pe
<1>2. rs \in Seq(Intervals) /\ \A a \in Addresses : Within(rs, a) <=> Within(pb, a) /\ ~Within(pe, a)
  BY <1>1, Subtracted
<1> HIDE DEF rs
<1>3. ms \in Seq(Intervals) /\ Apart(ms) /\ \A a \in Addresses : Within(ms, a) <=> Within(rs, a)
  BY <1>2, MergedRanges
<1>4. BlocksSo(ms, v, Len(ms))
  BY <1>2, BlocksOfRanges
<1> HIDE DEF ms, v
<1>5. \A a \in Addresses : Within(ms, a) <=> a \in Union(basis) \ Union(ex)
  BY <1>1, <1>2, <1>3
<1>6. v \in Seq(CIDRs) /\ \A a \in Addresses : (\E k \in 1..Len(v) : a \in Covers(v[k])) <=> Within(ms, a)
  BY <1>4 DEF BlocksSo, Within
<1>7. Union(v) \subseteq Addresses /\ \A a \in Addresses : a \in Union(v) <=> a \in Union(basis) \ Union(ex)
  BY <1>5, <1>6, UnionIs
<1>8. Union(basis) \subseteq Addresses
  BY UnionIs
<1>9. Union(v) = Union(basis) \ Union(ex)
  BY <1>7, <1>8
<1> QED BY <1>3, <1>4, <1>5, <1>9 DEF v, ms, rs, pb, pe

\* The lists a stored policy is computed from.
Base(r) == IF r.mode = "bypass" THEN <<Everything>> ELSE normalizeIPv4Prefixes(r.allowed)
Remaining(r) == subtractIPv4Ranges(prefixesToIPv4Ranges(Base(r)),
                                   prefixesToIPv4Ranges(normalizeIPv4Prefixes(r.excluded)))

\* What a policy that is not the full tunnel is rendered as, and what it wants.
LEMMA RenderedIs ==
  ASSUME NEW r \in Routings, NormalizeRouting(r) # InvalidRouting, r # Full
  PROVE  LET v4 == routingAllowedIPs(NormalizeRouting(r)).v4
         IN /\ Base(r) \in Seq(CIDRs) /\ normalizeIPv4Prefixes(r.excluded) \in Seq(CIDRs)
            /\ Wanted(r) = Union(Base(r)) \ Union(normalizeIPv4Prefixes(r.excluded))
            /\ r.excluded # <<>> => v4 = <<>> \/ v4 = ipv4RangesToPrefixes(Remaining(r))
            /\ r.excluded = <<>> => v4 = Base(r) /\ Union(normalizeIPv4Prefixes(r.excluded)) = {}
<1> DEFINE s == NormalizeRouting(r)
           al == normalizeIPv4Prefixes(r.allowed)
           ex == normalizeIPv4Prefixes(r.excluded)
           v4 == routingAllowedIPs(s).v4
<1>1. /\ s = [mode |-> r.mode, allowed |-> al, excluded |-> ex]
      /\ \/ r.mode = "bypass" /\ r.allowed = <<>> /\ r.excluded # <<>>
         \/ r.mode = "split" /\ r.allowed # <<>>
      /\ \A i \in DOMAIN r.allowed : Valid(r.allowed[i])
      /\ \A i \in DOMAIN r.excluded : Valid(r.excluded[i])
  BY StoredPolicy
<1>2. r.allowed \in Seq(Texts) /\ r.excluded \in Seq(Texts)
  BY DEF Routings
<1>3. al \in Seq(CIDRs) /\ ex \in Seq(CIDRs) /\ (ex = <<>> <=> r.excluded = <<>>)
  BY <1>1, <1>2, NormalizedList DEF Tidied
<1>4. Union(al) = Union(r.allowed) /\ Union(ex) = Union(r.excluded)
  BY <1>1, <1>2, UnionNormalized
<1> HIDE DEF s, al, ex
<1>5. s.mode = r.mode /\ s.allowed = al /\ s.excluded = ex
  BY <1>1
<1>6. Base(r) = IF r.mode = "bypass" THEN <<Everything>> ELSE al
  BY DEF Base, al
<1>7. Base(r) \in Seq(CIDRs)
  BY <1>3, <1>6, EverythingIs
<1>8. Wanted(r) = Union(Base(r)) \ Union(ex)
  BY <1>1, <1>4, <1>6, EverythingIs DEF Wanted
<1>9. ASSUME r.excluded # <<>> PROVE v4 = <<>> \/ v4 = ipv4RangesToPrefixes(Remaining(r))
  <2>1. v4 = computedIPv4AllowedIPs(s)
    BY <1>1, <1>3, <1>5, <1>9 DEF routingAllowedIPs
  <2>2. Remaining(r) = subtractIPv4Ranges(prefixesToIPv4Ranges(Base(r)), prefixesToIPv4Ranges(ex))
    BY DEF Remaining, ex
  <2>3. Base(r) = IF s.mode = "bypass" THEN <<Everything>> ELSE s.allowed
    BY <1>5, <1>6
  <2> QED BY <1>5, <2>1, <2>2, <2>3 DEF computedIPv4AllowedIPs
<1>10. ASSUME r.excluded = <<>> PROVE v4 = Base(r) /\ Union(ex) = {}
  <2>1. v4 = al /\ Base(r) = al
    BY <1>1, <1>3, <1>5, <1>6, <1>10 DEF routingAllowedIPs
  <2>2. ToSet(<<>>) = {}
    BY DEF ToSet
  <2>3. Union(<<>>) = {}
    BY <2>2 DEF Union
  <2> QED BY <1>3, <1>10, <2>1, <2>3
<1> QED BY <1>3, <1>7, <1>8, <1>9, <1>10 DEF s, ex

\* RoutesExactly: the sorted and merged ranges of the CIDRs (routing_ranges.go:15-72),
\* the one pass that cuts the exclusions out of them (74-122) and the split into
\* blocks (124-158) keep every address that is wanted and bring in no other.
THEOREM RoutedAddresses == SettingsSpec => []RoutesExactly
<1>1. PolicyIs => RoutesExactly
  <2> SUFFICES ASSUME PolicyIs, Accepted, Rendered # <<>>
               PROVE  Union(Rendered) = Wanted(policy.asked)
    BY DEF RoutesExactly
  <2>1. PICK r \in Policies : policy = [asked |-> r, stored |-> NormalizeRouting(r)]
    BY DEF PolicyIs, Accepted
  <2>2. /\ r \in Routings /\ policy.asked = r /\ policy.stored = NormalizeRouting(r)
        /\ NormalizeRouting(r) # InvalidRouting
    BY <2>1, PoliciesAssumption DEF Accepted
  <2>3. Rendered = routingAllowedIPs(NormalizeRouting(r)).v4
    BY <2>2 DEF Rendered
  <2>4. CASE r = Full
    <3>1. NormalizeRouting(r) = Full /\ Full.mode = "full"
      BY <2>4 DEF NormalizeRouting, Full
    <3>2. Rendered = <<Everything>>
      BY <2>3, <3>1 DEF routingAllowedIPs
    <3>3. Wanted(r) = Addresses
      BY <2>4, <3>1 DEF Wanted
    <3> QED BY <2>2, <3>2, <3>3, EverythingIs
  <2>5. CASE r # Full
    <3> DEFINE ex == normalizeIPv4Prefixes(r.excluded)
    <3>1. /\ Base(r) \in Seq(CIDRs) /\ ex \in Seq(CIDRs)
          /\ Wanted(r) = Union(Base(r)) \ Union(ex)
          /\ r.excluded # <<>> => Rendered = <<>> \/ Rendered = ipv4RangesToPrefixes(Remaining(r))
          /\ r.excluded = <<>> => Rendered = Base(r) /\ Union(ex) = {}
      BY <2>2, <2>3, <2>5, RenderedIs
    <3>2. Union(ipv4RangesToPrefixes(Remaining(r))) = Union(Base(r)) \ Union(ex)
      BY <3>1, ComputedRoutes DEF Remaining
    <3> HIDE DEF ex
    <3>3. CASE r.excluded # <<>>
      BY <2>2, <3>1, <3>2, <3>3
    <3>4. CASE r.excluded = <<>>
      BY <2>2, <3>1, <3>4
    <3> QED BY <3>3, <3>4
  <2> QED BY <2>4, <2>5
<1> QED BY <1>1, PolicyInvariant, PTL

(***************************************************************************)
(* Routing: why the blocks are the fewest.                                 *)
(***************************************************************************)
\* The block twice as large that a block is one half of.
Parent(t) == Masked([t EXCEPT !.bits = @ - 1])
Block(t) == t \in CIDRs /\ t.addr % BlockSize(t) = 0
Inside(t, set) == Masked(t) = t /\ Covers(t) \subseteq set

LEMMA BlockTypes ==
  ASSUME NEW t, Block(t)
  PROVE  /\ t \in CIDRs /\ t \in Texts /\ Valid(t)
         /\ t.addr \in Addresses /\ t.addr \in Nat /\ BlockSize(t) \in Nat \ {0}
         /\ Width - t.bits \in 0..Width /\ BlockSize(t) = PowerOfTwo[Width - t.bits]
         /\ t.addr + BlockSize(t) - 1 \in Addresses
         /\ Masked(t) = t
         /\ \A a \in Addresses : a \in Covers(t) <=> t.addr <= a /\ a < t.addr + BlockSize(t)
<1>1. t \in CIDRs /\ t \in Texts /\ Valid(t) /\ t.addr % BlockSize(t) = 0
  BY DEF Block, CIDRs
<1>2. t.addr \in Addresses /\ t.addr \in Nat /\ t.bits \in 0..Width /\ Width \in Nat
  <2>1. Width \in Nat
    BY RoutingAssumption
  <2>2. t.addr \in Addresses /\ t.bits \in 0..(Width + 1) /\ t.bits <= Width
    BY <1>1 DEF Texts, Valid
  <2>3. t.bits \in 0..Width
    BY <2>1, <2>2
  <2>4. t.addr \in Nat
    BY <2>2, AddressTypes
  <2> QED BY <2>1, <2>2, <2>3, <2>4
<1>3. Width - t.bits \in 0..Width /\ BlockSize(t) = PowerOfTwo[Width - t.bits]
  BY <1>2 DEF BlockSize
<1>4. BlockSize(t) \in Nat \ {0}
  BY <1>3, Powers
<1>5. t.addr + BlockSize(t) <= PowerOfTwo[Width] /\ PowerOfTwo[Width] \in Nat
  <2>1. Width \in 0..Width
    BY <1>2
  <2> QED BY <1>1, <1>2, <1>3, <2>1, BlockFits, Powers
<1>6. t.addr + BlockSize(t) - 1 \in Addresses
  BY <1>2, <1>4, <1>5 DEF Addresses
<1>7. Masked(t) = t /\ \A a \in Addresses : a \in Covers(t) <=> t.addr <= a /\ a < t.addr + BlockSize(t)
  BY <1>1, BlockCovers
<1> QED BY <1>1, <1>2, <1>3, <1>4, <1>6, <1>7

LEMMA ParentIs ==
  ASSUME NEW t, Block(t), t.bits > 0
  PROVE  /\ Block(Parent(t)) /\ Parent(t).bits = t.bits - 1
         /\ BlockSize(Parent(t)) = 2 * BlockSize(t)
         /\ Parent(t).addr = t.addr - (t.addr % (2 * BlockSize(t)))
<1> DEFINE u == [t EXCEPT !.bits = @ - 1]
           k == Width - t.bits
<1>1. /\ t \in Texts /\ Valid(t) /\ BlockSize(t) = PowerOfTwo[k] /\ k \in 0..Width
      /\ t.bits \in 0..(Width + 1) /\ t.addr \in Addresses /\ Width \in Nat
  BY BlockTypes, RoutingAssumption DEF Texts
<1>2. u \in Texts /\ u.bits = t.bits - 1 /\ u.addr = t.addr /\ Valid(u)
  BY <1>1 DEF Texts, Valid
<1>3. k + 1 \in 1..Width /\ (k + 1) - 1 = k /\ Width - u.bits = k + 1
  BY <1>1, <1>2 DEF Valid
<1>4. BlockSize(u) = 2 * BlockSize(t)
  <2>1. PowerOfTwo[k + 1] = 2 * PowerOfTwo[k]
    BY <1>3, Powers
  <2> QED BY <1>1, <1>3, <2>1 DEF BlockSize
<1> HIDE DEF u, k
<1>5. /\ Masked(u) \in Texts /\ Valid(Masked(u)) /\ Masked(u).bits = u.bits
      /\ Masked(u).addr = u.addr - (u.addr % BlockSize(u)) /\ Masked(u).addr % BlockSize(u) = 0
  BY <1>2, MaskedTwice
<1>6. BlockSize(Masked(u)) = BlockSize(u)
  BY <1>5 DEF BlockSize
<1>7. Parent(t) = Masked(u)
  BY DEF Parent, u
<1> QED BY <1>2, <1>4, <1>5, <1>6, <1>7 DEF Block, CIDRs

LEMMA NextMultiple ==
  ASSUME NEW b \in Nat \ {0}, NEW x \in Int, x % b = 0
  PROVE  (x + b) % b = 0
<1> DEFINE m == x \div b
<1>1. m \in Int /\ x = b * m
  <2>1. x = b * m + (x % b)
    OBVIOUS
  <2> QED BY <2>1
<1> HIDE DEF m
<1>2. x + b = (m + 1) * b + 0 /\ m + 1 \in Int /\ 0 \in 0..(b - 1)
  BY <1>1
<1>3. ((m + 1) * b + 0) % b = 0
  BY <1>2, Remainder
<1> QED BY <1>2, <1>3

\* Two blocks that share an address are one inside the other.
LEMMA NestedBlocks ==
  ASSUME NEW p, NEW q, Block(p), Block(q), q.bits <= p.bits,
         NEW a \in Addresses, a \in Covers(p), a \in Covers(q)
  PROVE  q.addr <= p.addr /\ p.addr + BlockSize(p) <= q.addr + BlockSize(q)
<1> DEFINE b == BlockSize(p)
           c == BlockSize(q)
           x == p.addr
           y == q.addr
           j == Width - p.bits
           k == Width - q.bits
<1>1. /\ b \in Nat \ {0} /\ c \in Nat \ {0} /\ x \in Nat /\ y \in Nat /\ a \in Nat
      /\ j \in 0..Width /\ k \in 0..Width /\ b = PowerOfTwo[j] /\ c = PowerOfTwo[k]
      /\ x <= a /\ a < x + b /\ y <= a /\ a < y + c
  BY BlockTypes, AddressTypes
<1>2. x % b = 0 /\ y % c = 0
  BY DEF Block
<1>3. j <= k
  <2>1. p \in Texts /\ q \in Texts /\ Width \in Nat
    BY BlockTypes, RoutingAssumption
  <2>2. p.bits \in Nat /\ q.bits \in Nat
    BY <2>1 DEF Texts
  <2> QED BY <2>1, <2>2
<1> HIDE DEF b, c, x, y, j, k
<1>4. (y + c) % c = 0
  <2>1. y \in Int
    BY <1>1
  <2> QED BY <1>1, <1>2, <2>1, NextMultiple
<1>5. y % b = 0 /\ (y + c) % b = 0
  <2>1. y \in Int /\ y + c \in Int
    BY <1>1
  <2> QED BY <1>1, <1>2, <1>3, <1>4, <2>1, DividesDown
<1>6. y <= x
  <2>1. SUFFICES ASSUME x < y PROVE FALSE
    BY <1>1
  <2>2. x + b <= y
    BY <1>1, <1>2, <1>5, <2>1, Multiples
  <2> QED BY <1>1, <2>2
<1>7. x + b <= y + c
  <2>1. x < y + c /\ x \in Int /\ y + c \in Int
    BY <1>1
  <2> QED BY <1>1, <1>2, <1>5, <2>1, Multiples
<1> QED BY <1>6, <1>7 DEF b, c, x, y

\* A block inside another covers no address that the other does not.
LEMMA CoversInside ==
  ASSUME NEW p, NEW q, Block(p), Block(q),
         q.addr <= p.addr, p.addr + BlockSize(p) <= q.addr + BlockSize(q)
  PROVE  Covers(p) \subseteq Covers(q)
<1>1. /\ p.addr \in Nat /\ q.addr \in Nat /\ BlockSize(p) \in Nat /\ BlockSize(q) \in Nat
      /\ \A a \in Addresses : a \in Covers(p) <=> p.addr <= a /\ a < p.addr + BlockSize(p)
      /\ \A a \in Addresses : a \in Covers(q) <=> q.addr <= a /\ a < q.addr + BlockSize(q)
  BY BlockTypes
<1>2. ASSUME NEW a \in Addresses, a \in Covers(p) PROVE a \in Covers(q)
  <2>1. a \in Nat
    BY AddressTypes
  <2> QED BY <1>1, <1>2, <2>1
<1>3. Covers(p) \subseteq Addresses
  BY DEF Covers
<1> QED BY <1>2, <1>3

LEMMA CanonicalIs ==
  ASSUME NEW set
  PROVE  CanonicalBlocks(set) =
           {p \in CIDRs : Inside(p, set) /\ (p.bits > 0 => ~Inside(Parent(p), set))}
<1>1. [addr: Addresses, bits: 0..Width] = CIDRs
  <2>1. Width \in Nat
    BY RoutingAssumption
  <2>2. ASSUME NEW p \in [addr: Addresses, bits: 0..Width] PROVE p \in CIDRs
    <3>1. p.bits \in 0..Width /\ p.addr \in Addresses /\ p = [addr |-> p.addr, bits |-> p.bits]
      OBVIOUS
    <3>2. p.bits \in 0..(Width + 1) /\ p.bits <= Width
      BY <2>1, <3>1
    <3> QED BY <3>1, <3>2 DEF CIDRs, Texts, Valid
  <2>3. ASSUME NEW p \in CIDRs PROVE p \in [addr: Addresses, bits: 0..Width]
    <3>1. /\ p.bits \in 0..(Width + 1) /\ p.addr \in Addresses /\ p.bits <= Width
          /\ p = [addr |-> p.addr, bits |-> p.bits]
      BY DEF CIDRs, Texts, Valid
    <3>2. p.bits \in 0..Width
      BY <2>1, <3>1
    <3> QED BY <3>1, <3>2
  <2> QED BY <2>2, <2>3
<1> QED BY <1>1 DEF CanonicalBlocks, Inside, Parent

\* What is inside is a block.
LEMMA InsideBlock ==
  ASSUME NEW t \in CIDRs, NEW set, Inside(t, set)
  PROVE  Block(t)
<1>1. Masked(t).addr % BlockSize(t) = 0
  BY MaskedTwice DEF CIDRs
<1> QED BY <1>1 DEF Inside, Block

\* A block inside the ranges is inside one of them: two ranges never touch.
LEMMA InsideOne ==
  ASSUME NEW ms \in Seq(Intervals), Apart(ms),
         NEW u, Block(u), \A a \in Addresses : a \in Covers(u) => Within(ms, a),
         NEW i \in 1..Len(ms), NEW a \in Addresses, a \in Covers(u), InRange(ms[i], a)
  PROVE  ms[i].start <= u.addr /\ u.addr + BlockSize(u) <= ms[i].end + 1
<1> DEFINE x == u.addr
           d == BlockSize(u)
           lo == ms[i].start
           hi == ms[i].end
<1>1. /\ x \in Nat /\ d \in Nat \ {0} /\ x + d - 1 \in Addresses /\ a \in Nat
      /\ x <= a /\ a < x + d
      /\ \A c \in Addresses : c \in Covers(u) <=> x <= c /\ c < x + d
  BY BlockTypes, AddressTypes
<1>2. \A j \in 1..Len(ms) : /\ ms[j] \in Intervals /\ ms[j].start \in Nat /\ ms[j].end \in Nat
                            /\ ms[j].start <= ms[j].end
  <2>1. \A j \in 1..Len(ms) : ms[j] \in Intervals
    OBVIOUS
  <2> QED BY <2>1, AddressTypes
<1>3. lo \in Nat /\ hi \in Nat /\ lo <= a /\ a <= hi
  BY <1>2 DEF InRange
<1>4. \A j, k \in 1..Len(ms) : j < k => ms[j].end + 1 < ms[k].start
  BY DEF Apart
<1>5. ASSUME NEW c \in Nat, c + 1 = lo \/ c = hi + 1, c \in Addresses PROVE ~Within(ms, c)
  <2> SUFFICES ASSUME NEW j \in 1..Len(ms), ms[j].start <= c, c <= ms[j].end PROVE FALSE
    BY DEF Within, InRange
  <2>1. ms[j].start \in Nat /\ ms[j].end \in Nat /\ j \in Nat /\ i \in Nat
    BY <1>2
  <2>2. CASE j = i
    <3>1. lo <= c /\ c <= hi
      BY <2>2
    <3> QED BY <1>3, <1>5, <3>1
  <2>3. CASE j < i
    <3>1. ms[j].end + 1 < lo
      BY <1>4, <2>3
    <3> QED BY <1>3, <1>5, <2>1, <3>1, SMTT(30)
  <2>4. CASE i < j
    <3>1. hi + 1 < ms[j].start
      BY <1>4, <2>4
    <3> QED BY <1>3, <1>5, <2>1, <3>1
  <2> QED BY <2>1, <2>2, <2>3, <2>4
<1> HIDE DEF x, d, lo, hi
<1>6. lo <= x
  <2> SUFFICES ASSUME x < lo PROVE FALSE
    BY <1>1, <1>3
  <2>1. lo - 1 \in Nat /\ x <= lo - 1 /\ lo - 1 < x + d /\ (lo - 1) + 1 = lo /\ lo - 1 <= x + d - 1
    BY <1>1, <1>3
  <2>2. lo - 1 \in Addresses
    BY <1>1, <2>1, SmallerAddress
  <2>3. Within(ms, lo - 1)
    BY <1>1, <2>1, <2>2
  <2> QED BY <1>5, <2>1, <2>2, <2>3
<1>7. x + d <= hi + 1
  <2> SUFFICES ASSUME hi + 1 < x + d PROVE FALSE
    BY <1>1, <1>3
  <2>1. hi + 1 \in Nat /\ x <= hi + 1 /\ hi + 1 <= x + d - 1
    BY <1>1, <1>3
  <2>2. hi + 1 \in Addresses
    BY <1>1, <2>1, SmallerAddress
  <2>3. Within(ms, hi + 1)
    BY <1>1, <2>1, <2>2
  <2> QED BY <1>5, <2>1, <2>2, <2>3
<1> QED BY <1>6, <1>7 DEF x, d, lo, hi

\* A block inside a set keeps a smaller one that it shares an address with from
\* being canonical: the parent of the smaller one is inside as well.
LEMMA LargerHoldsParent ==
  ASSUME NEW p, NEW q, Block(p), Block(q), NEW set, Inside(q, set),
         p.bits \in Nat, q.bits \in Nat, q.bits < p.bits,
         NEW a \in Addresses, a \in Covers(p), a \in Covers(q)
  PROVE  p.bits > 0 /\ Inside(Parent(p), set)
<1> DEFINE u == Parent(p)
           d == 2 * BlockSize(p)
<1>1. p.bits > 0
  OBVIOUS
<1>2. Block(u) /\ u.bits = p.bits - 1 /\ BlockSize(u) = d /\ u.addr = p.addr - (p.addr % d)
  BY <1>1, ParentIs
<1>3. /\ p.addr \in Nat /\ BlockSize(p) \in Nat \ {0} /\ a \in Nat
      /\ p.addr <= a /\ a < p.addr + BlockSize(p)
      /\ p.addr \in Addresses /\ p.addr < p.addr + BlockSize(p)
      /\ Masked(u) = u /\ u.addr \in Nat
      /\ \A c \in Addresses : c \in Covers(u) <=> u.addr <= c /\ c < u.addr + BlockSize(u)
  BY <1>2, BlockTypes, AddressTypes
<1> HIDE DEF u
<1>4. p.addr % d \in 0..(d - 1)
  BY <1>3
<1>5. a \in Covers(u)
  <2>1. u.addr % BlockSize(u) = 0
    BY <1>2 DEF Block
  <2>2. u.addr % BlockSize(p) = 0 /\ (u.addr + d) % BlockSize(p) = 0
    <3> DEFINE b == BlockSize(p)
               x == p.addr
               m == x \div d
    <3>1. d \in Nat \ {0} /\ m \in Int /\ x = d * m + (x % d)
      BY <1>3
    <3>2. u.addr = (2 * m) * b + 0 /\ u.addr + d = (2 * m + 2) * b + 0
      <4> HIDE DEF m, x, b
      <4>1. u.addr = d * m
        BY <1>2, <1>3, <3>1 DEF x
      <4>2. d = 2 * b /\ b \in Nat
        BY <1>3 DEF b
      <4> QED BY <3>1, <4>1, <4>2
    <3>3. b \in Nat \ {0}
      BY <1>3
    <3> HIDE DEF m, b
    <3>6. 2 * m \in Int /\ 2 * m + 2 \in Int /\ 0 \in 0..(b - 1)
      BY <3>1, <3>3
    <3>4. ((2 * m) * b + 0) % b = 0 /\ ((2 * m + 2) * b + 0) % b = 0
      BY <3>3, <3>6, Remainder
    <3>5. u.addr % b = 0 /\ (u.addr + d) % b = 0
      BY <3>2, <3>4
    <3> QED BY <3>5 DEF b
  <2>3. u.addr <= p.addr /\ p.addr < u.addr + d
    BY <1>2, <1>3, <1>4
  <2>4. p.addr + BlockSize(p) <= u.addr + d
    <3>1. p.addr % BlockSize(p) = 0
      BY DEF Block
    <3>2. p.addr \in Int /\ u.addr + d \in Int
      BY <1>3
    <3> HIDE DEF d
    <3> QED BY <1>3, <2>2, <2>3, <3>1, <3>2, Multiples
  <2>5. u.addr <= a /\ a < u.addr + BlockSize(u)
    BY <1>2, <1>3, <2>3, <2>4
  <2> QED BY <1>3, <2>5
<1>6. q.bits <= u.bits
  BY <1>2
<1>7. Covers(u) \subseteq Covers(q)
  BY <1>2, <1>5, <1>6, NestedBlocks, CoversInside
<1> QED BY <1>1, <1>3, <1>7 DEF Inside, u

\* The blocks of ranges that lie apart are the canonical ones of their addresses.
LEMMA BlocksAreCanonical ==
  ASSUME NEW ms \in Seq(Intervals), Apart(ms), NEW v, BlocksSo(ms, v, Len(ms)),
         NEW set, set \subseteq Addresses, \A a \in Addresses : Within(ms, a) <=> a \in set
  PROVE  ToSet(v) = CanonicalBlocks(set)
<1>1. /\ v \in Seq(CIDRs)
      /\ \A k \in 1..Len(v) : \E i \in 1..Len(ms) : Whole(ms[i], v[k], ms[i].end + 1)
      /\ \A a \in Addresses : (\E k \in 1..Len(v) : a \in Covers(v[k])) <=> a \in set
  BY DEF BlocksSo, Within
<1>2. \A p \in CIDRs : p \in CanonicalBlocks(set) <=>
                         Inside(p, set) /\ (p.bits > 0 => ~Inside(Parent(p), set))
  BY CanonicalIs
<1>3. CanonicalBlocks(set) \subseteq CIDRs
  BY CanonicalIs
<1>4. ASSUME NEW k \in 1..Len(v) PROVE v[k] \in CanonicalBlocks(set) /\ Block(v[k])
  <2> DEFINE p == v[k]
  <2>1. PICK i \in 1..Len(ms) : Whole(ms[i], p, ms[i].end + 1)
    BY <1>1
  <2>2. Block(p) /\ p \in CIDRs
    BY <2>1 DEF Whole, Block
  <2>3. Inside(p, set)
    <3>1. Masked(p) = p
      BY <2>2, BlockTypes
    <3>2. Covers(p) \subseteq Addresses
      BY DEF Covers
    <3>3. \A a \in Addresses : a \in Covers(p) => a \in set
      BY <1>1
    <3> QED BY <3>1, <3>2, <3>3 DEF Inside
  <2>4. ASSUME p.bits > 0, Inside(Parent(p), set) PROVE FALSE
    <3> DEFINE u == Parent(p)
               d == 2 * BlockSize(p)
    <3>1. Block(u) /\ BlockSize(u) = d /\ u.addr = p.addr - (p.addr % d)
      BY <2>2, <2>4, ParentIs
    <3>2. /\ p.addr \in Addresses /\ p.addr \in Nat /\ BlockSize(p) \in Nat \ {0}
          /\ u.addr \in Nat /\ \A a \in Addresses : a \in Covers(u) <=> u.addr <= a /\ a < u.addr + d
      BY <2>2, <3>1, BlockTypes
    <3>3. p.addr % d \in 0..(d - 1)
      BY <3>2
    <3>4. p.addr \in Covers(u)
      <4>1. u.addr <= p.addr /\ p.addr < u.addr + d
        BY <3>1, <3>2, <3>3, SMTT(30)
      <4> QED BY <3>2, <4>1
    <3>5. InRange(ms[i], p.addr)
      <4>1. ms[i] \in Intervals
        OBVIOUS
      <4>2. ms[i].end \in Nat /\ ms[i].start \in Nat
        BY <4>1, AddressTypes
      <4>3. ms[i].start <= p.addr /\ p.addr + BlockSize(p) <= ms[i].end + 1
        BY <2>1 DEF Whole
      <4> QED BY <3>2, <4>2, <4>3 DEF InRange
    <3>6. \A a \in Addresses : a \in Covers(u) => Within(ms, a)
      BY <2>4 DEF Inside
    <3>7. ms[i].start <= u.addr /\ u.addr + BlockSize(u) <= ms[i].end + 1
      <4> HIDE DEF u
      <4> QED BY <3>1, <3>2, <3>4, <3>5, <3>6, InsideOne
    <3>8. ms[i].start > u.addr \/ u.addr + d > ms[i].end + 1
      BY <2>1, <2>4, <3>1 DEF Whole
    <3>9. ms[i].end \in Nat /\ ms[i].start \in Nat
      <4>1. ms[i] \in Intervals
        OBVIOUS
      <4> QED BY <4>1, AddressTypes
    <3> QED BY <3>1, <3>2, <3>7, <3>8, <3>9, SMTT(30)
  <2>5. p \in CanonicalBlocks(set)
    BY <1>2, <2>2, <2>3, <2>4
  <2> QED BY <2>2, <2>5
<1>5. ASSUME NEW p \in CanonicalBlocks(set) PROVE \E k \in 1..Len(v) : v[k] = p
  <2>1. p \in CIDRs /\ Inside(p, set) /\ (p.bits > 0 => ~Inside(Parent(p), set))
    BY <1>2, <1>3
  <2>2. Block(p)
    BY <2>1, InsideBlock
  <2>3. p.addr \in Addresses /\ p.addr \in Covers(p)
    <3>1. /\ p.addr \in Addresses /\ p.addr \in Nat /\ BlockSize(p) \in Nat \ {0}
          /\ \A a \in Addresses : a \in Covers(p) <=> p.addr <= a /\ a < p.addr + BlockSize(p)
      BY <2>2, BlockTypes
    <3>2. p.addr <= p.addr /\ p.addr < p.addr + BlockSize(p)
      BY <3>1
    <3> QED BY <3>1, <3>2
  <2>4. PICK k \in 1..Len(v) : p.addr \in Covers(v[k])
    BY <1>1, <2>1, <2>3 DEF Inside
  <2> DEFINE q == v[k]
  <2>5. /\ Block(q) /\ q \in CIDRs /\ Inside(q, set) /\ (q.bits > 0 => ~Inside(Parent(q), set))
        /\ p.addr \in Covers(q)
    <3>1. q \in CIDRs
      BY <1>1
    <3> QED BY <1>2, <1>4, <2>4, <3>1
  <2> HIDE DEF q
  <2>6. p.bits \in Nat /\ q.bits \in Nat
    BY <2>1, <2>5 DEF CIDRs, Texts
  <2>7. ~(q.bits < p.bits)
    BY <2>1, <2>2, <2>3, <2>5, <2>6, LargerHoldsParent
  <2>8. ~(p.bits < q.bits)
    BY <2>1, <2>2, <2>3, <2>5, <2>6, LargerHoldsParent
  <2>9. p.bits = q.bits
    BY <2>6, <2>7, <2>8
  <2>10. p.addr = q.addr
    <3>1. q.addr <= p.addr /\ p.addr <= q.addr
      <4>1. q.bits <= p.bits /\ p.bits <= q.bits
        BY <2>6, <2>9
      <4> QED BY <2>2, <2>3, <2>5, <4>1, NestedBlocks
    <3>2. p.addr \in Nat /\ q.addr \in Nat
      BY <2>2, <2>5, BlockTypes
    <3> QED BY <3>1, <3>2
  <2>11. p = q
    BY <2>1, <2>5, <2>9, <2>10 DEF CIDRs, Texts
  <2> QED BY <2>11 DEF q
<1>6. ToSet(v) = {v[k] : k \in 1..Len(v)}
  <2>1. DOMAIN v = 1..Len(v)
    BY <1>1
  <2> QED BY <2>1 DEF ToSet
<1> QED BY <1>4, <1>5, <1>6

\* RoutesMinimal: what is computed from a policy with exclusions are the largest
\* blocks of the addresses it wants, in their order and each once: mergeIPv4Ranges
\* (routing_ranges.go:42-72) leaves no two ranges that touch, and each block is the
\* largest that is aligned and ends in its range (132-155).
THEOREM RoutedBlocks == SettingsSpec => []RoutesMinimal
<1>1. PolicyIs => RoutesMinimal
  <2> SUFFICES ASSUME PolicyIs, Accepted, policy.asked.excluded # <<>>
               PROVE  /\ ToSet(Rendered) = CanonicalBlocks(Wanted(policy.asked))
                      /\ \A i \in 2..Len(Rendered) : Rendered[i - 1].addr < Rendered[i].addr
    BY DEF RoutesMinimal
  <2>1. PICK r \in Policies : policy = [asked |-> r, stored |-> NormalizeRouting(r)]
    BY DEF PolicyIs, Accepted
  <2>2. /\ r \in Routings /\ policy.asked = r /\ policy.stored = NormalizeRouting(r)
        /\ NormalizeRouting(r) # InvalidRouting /\ r.excluded # <<>> /\ r # Full
    BY <2>1, PoliciesAssumption DEF Accepted, Full
  <2>3. Rendered = routingAllowedIPs(NormalizeRouting(r)).v4
    BY <2>2 DEF Rendered
  <2>4. Rendered # <<>>
    BY <2>2, <2>3, StoredUsable
  <2> DEFINE ex == normalizeIPv4Prefixes(r.excluded)
             ms == mergeIPv4Ranges(Remaining(r))
             v == Rendered
  <2>5. /\ Base(r) \in Seq(CIDRs) /\ ex \in Seq(CIDRs)
        /\ Wanted(r) = Union(Base(r)) \ Union(ex)
        /\ v = ipv4RangesToPrefixes(Remaining(r))
    BY <2>2, <2>3, <2>4, RenderedIs
  <2>6. /\ ms \in Seq(Intervals) /\ Apart(ms)
        /\ BlocksSo(ms, ipv4RangesToPrefixes(Remaining(r)), Len(ms))
        /\ \A a \in Addresses : Within(ms, a) <=> a \in Union(Base(r)) \ Union(ex)
    BY <2>5, ComputedRoutes DEF Remaining
  <2>7. Union(Base(r)) \subseteq Addresses
    BY <2>5, UnionIs
  <2> HIDE DEF ex, ms, v
  <2>8. BlocksSo(ms, v, Len(ms)) /\ Wanted(r) \subseteq Addresses
    BY <2>5, <2>6, <2>7
  <2>9. ToSet(v) = CanonicalBlocks(Wanted(r))
    BY <2>5, <2>6, <2>8, BlocksAreCanonical
  <2>10. ASSUME NEW i \in 2..Len(v) PROVE v[i - 1].addr < v[i].addr
    <3>1. v \in Seq(CIDRs) /\ \A k, l \in 1..Len(v) : k < l => v[k].addr < v[l].addr
      BY <2>8 DEF BlocksSo
    <3>2. Len(v) \in Nat
      BY <3>1
    <3>3. i - 1 \in 1..Len(v) /\ i \in 1..Len(v) /\ i - 1 < i
      BY <3>2
    <3> QED BY <3>1, <3>3
  <2> QED BY <2>2, <2>9, <2>10 DEF v
<1> QED BY <1>1, PolicyInvariant, PTL
=============================================================================
