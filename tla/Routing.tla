------------------------------ MODULE Routing ------------------------------
(***************************************************************************)
(* The routing policy of a client (internal/clients/routing.go and         *)
(* routing_ranges.go): how a request is normalised before it is stored,    *)
(* and how the AllowedIPs of a configuration are computed from it.  An     *)
(* address is a number of Width bits, a CIDR a pair [addr, bits].          *)
(***************************************************************************)
EXTENDS Integers, SequencesExt

CONSTANTS
  Width,                    \* bits of an address: 32 in the code
  MaxRoutingListEntries,
  MaxComputedRoutingCIDRs

ASSUME RoutingAssumption ==
  /\ Width \in Nat
  /\ MaxRoutingListEntries \in Nat
  /\ MaxComputedRoutingCIDRs \in Nat

PowerOfTwo[k \in 0..Width] == IF k = 0 THEN 1 ELSE 2 * PowerOfTwo[k - 1]
Addresses == 0..(PowerOfTwo[Width] - 1)

\* A text is a CIDR, or bits = Width + 1: it does not parse or is not IPv4.
Texts == [addr: Addresses, bits: 0..(Width + 1)]
Valid(text) == text.bits <= Width
BlockSize(prefix) == PowerOfTwo[Width - prefix.bits]
Masked(prefix) == [prefix EXCEPT !.addr = @ - (@ % BlockSize(prefix))]

Everything == [addr |-> 0, bits |-> 0]

Routings == [mode: STRING, allowed: Seq(Texts), excluded: Seq(Texts)]
Full == [mode |-> "full", allowed |-> <<>>, excluded |-> <<>>]
InvalidRouting == [mode |-> "invalid", allowed |-> <<>>, excluded |-> <<>>]

(***************************************************************************)
(* Ranges of addresses.  A loop of the code is a function: what it has     *)
(* built after so many rounds.                                             *)
(***************************************************************************)
range(a, b) == [start |-> a, end |-> b]

prefixesToIPv4Ranges(prefixes) ==
  LET toRange(text) == range(Masked(text).addr, Masked(text).addr + BlockSize(text) - 1)
      ranges[i \in 0..Len(prefixes)] ==
        IF i = 0 THEN <<>>
        ELSE IF Valid(prefixes[i]) THEN Append(ranges[i - 1], toRange(prefixes[i]))
        ELSE ranges[i - 1]
  IN ranges[Len(prefixes)]

precedes(r, s) == r.start < s.start \/ (r.start = s.start /\ r.end < s.end)

\* sort.Slice: any order of the ranges in which none comes after one it precedes.
sorted(ranges) ==
  LET order == CHOOSE p \in Bijection(DOMAIN ranges, DOMAIN ranges) :
                 \A i, j \in DOMAIN ranges : i < j => ~precedes(ranges[p[j]], ranges[p[i]])
  IN [i \in DOMAIN ranges |-> ranges[order[i]]]

\* Mutant of adjoins: the sum is computed in Width bits.
adjoinsWrapped(last, current) == current.start <= (last.end + 1) % PowerOfTwo[Width]

\* uint64 arithmetic: the end may be the last address.
adjoins(last, current) == current.start <= last.end + 1

merge(merged, current) ==
  IF merged = <<>> \/ ~adjoins(Last(merged), current) THEN Append(merged, current)
  ELSE [merged EXCEPT ![Len(merged)].end = IF current.end > @ THEN current.end ELSE @]

mergeIPv4Ranges(ranges) ==
  LET s == sorted(ranges)
      merged[i \in 0..Len(s)] == IF i = 0 THEN <<>> ELSE merge(merged[i - 1], s[i])
  IN merged[Len(s)]

\* Mutant of nextExclusion: an exclusion serves one base range only.
nextExclusionConsumed(i) == i + 1

\* Where the search for the next base range starts: an exclusion that reaches
\* over the end of this one may cover the next as well.
nextExclusion(i) == i

\* The exclusions from first on, cut out of b one after the other: the pieces in
\* front of the cursor.
cuts(b, es, first) ==
  LET f[k \in 0..(Len(es) + 1 - first)] ==
        IF k = 0 THEN [cursor |-> b.start, out |-> <<>>]
        ELSE LET e == es[first + k - 1]
                 before == f[k - 1]
             IN [cursor |-> e.end + 1,
                 out |-> IF e.start > before.cursor
                           THEN Append(before.out, range(before.cursor, e.start - 1))
                           ELSE before.out]
  IN f

\* The loop ends with the exclusions, at one behind b, or with one that reaches to
\* the end of b, where it stays.
cut(b, es, first) ==
  LET f == cuts(b, es, first)
      rounds == Min({k \in 0..(Len(es) + 1 - first) : \/ first + k > Len(es)
                                                      \/ es[first + k].start > b.end
                                                      \/ f[k].cursor > b.end})
      last == f[rounds]
  IN IF last.cursor > b.end
       THEN [out |-> last.out, next |-> nextExclusion(first + rounds - 1)]
       ELSE [out |-> Append(last.out, range(last.cursor, b.end)),
             next |-> nextExclusion(first + rounds)]

\* The first exclusion from i on that does not end in front of b.
ahead(b, es, i) ==
  LET js == {j \in i..Len(es) : es[j].end >= b.start}
  IN IF js = {} THEN Len(es) + 1 ELSE Min(js)

\* Both sequences are merged; exclusionIndex moves over them once.
subtractIPv4Ranges(base, excluded) ==
  LET bs == mergeIPv4Ranges(base)
      es == mergeIPv4Ranges(excluded)
      remaining[i \in 0..Len(bs)] ==
        IF i = 0 THEN [out |-> <<>>, next |-> 1]
        ELSE LET before == remaining[i - 1]
                 done == cut(bs[i], es, ahead(bs[i], es, before.next))
             IN [out |-> before.out \o done.out, next |-> done.next]
  IN IF bs = <<>> \/ es = <<>> THEN bs ELSE remaining[Len(bs)].out

\* TrailingZeros64, which is 64 for 0, capped at the width.
alignmentBits(cursor) ==
  CHOOSE k \in 0..Width : /\ cursor % PowerOfTwo[k] = 0
                          /\ k = Width \/ cursor % PowerOfTwo[k + 1] # 0

\* The largest aligned block at cursor that does not reach over the end.
blockBits(cursor, end) ==
  Max({k \in 0..alignmentBits(cursor) : PowerOfTwo[k] <= end - cursor + 1})

\* One block after the other: a round takes one address at least.
split(r) ==
  LET blocks[i \in 0..(r.end - r.start + 1)] ==
        IF i = 0 THEN [cursor |-> r.start, out |-> <<>>]
        ELSE LET before == blocks[i - 1]
                 k == blockBits(before.cursor, r.end)
             IN IF before.cursor > r.end THEN before
                ELSE [cursor |-> before.cursor + PowerOfTwo[k],
                      out |-> Append(before.out, [addr |-> before.cursor, bits |-> Width - k])]
  IN blocks[r.end - r.start + 1].out

ipv4RangesToPrefixes(ranges) ==
  LET merged == mergeIPv4Ranges(ranges)
      prefixes[i \in 0..Len(merged)] ==
        IF i = 0 THEN <<>> ELSE prefixes[i - 1] \o split(merged[i])
  IN prefixes[Len(merged)]

(***************************************************************************)
(* Requests and rendering.                                                 *)
(***************************************************************************)
\* The empty sequence stands for the error: an empty result is one.
computedIPv4AllowedIPs(r) ==
  LET base == IF r.mode = "bypass" THEN <<Everything>> ELSE r.allowed
      computed == ipv4RangesToPrefixes(subtractIPv4Ranges(prefixesToIPv4Ranges(base),
                                                          prefixesToIPv4Ranges(r.excluded)))
  IN IF Len(computed) > MaxComputedRoutingCIDRs THEN <<>> ELSE computed

\* Masked, and without repetitions.
normalizeIPv4Prefixes(texts) ==
  LET masked == [i \in DOMAIN texts |-> Masked(texts[i])]
      kept[i \in 0..Len(masked)] ==
        IF i = 0 THEN <<>>
        ELSE IF Contains(kept[i - 1], masked[i]) THEN kept[i - 1]
        ELSE Append(kept[i - 1], masked[i])
  IN kept[Len(masked)]

\* Mutant of computable: the configuration is not computed in advance.
computableUnchecked(r) == TRUE

\* A policy with exclusions is computed once before it is accepted.
computable(r) == r.excluded # <<>> => computedIPv4AllowedIPs(r) # <<>>

\* InvalidRouting stands for the error; the full tunnel is stored as no policy.
NormalizeRouting(r) ==
  LET normalized == [mode |-> r.mode, allowed |-> normalizeIPv4Prefixes(r.allowed),
                     excluded |-> normalizeIPv4Prefixes(r.excluded)]
      wellFormed ==
        \/ r.mode = "bypass" /\ r.allowed = <<>> /\ r.excluded # <<>>
        \/ r.mode = "split" /\ r.allowed # <<>>
  IN IF r = Full THEN Full
     ELSE IF \/ ~wellFormed
             \/ Len(r.allowed) > MaxRoutingListEntries
             \/ Len(r.excluded) > MaxRoutingListEntries
             \/ \E i \in DOMAIN r.allowed : ~Valid(r.allowed[i])
             \/ \E i \in DOMAIN r.excluded : ~Valid(r.excluded[i])
             \/ ~computable(normalized)
       THEN InvalidRouting
       ELSE normalized

\* The AllowedIPs of a configuration after the VPN network, which is always the
\* first; v6 for "::/0"; an empty list stands for the error.
routingAllowedIPs(r) ==
  [v4 |-> CASE r.mode = "full" -> <<Everything>>
            [] r.mode = "split" /\ r.excluded = <<>> -> r.allowed
            [] r.mode = "bypass" \/ (r.mode = "split" /\ r.excluded # <<>>) ->
                 computedIPv4AllowedIPs(r)
            [] OTHER -> <<>>,
   v6 |-> r.mode \in {"full", "bypass"}]

-----------------------------------------------------------------------------
(***************************************************************************)
(* What a policy means.                                                    *)
(***************************************************************************)
Covers(prefix) == {a \in Addresses : Masked(prefix).addr = a - (a % BlockSize(prefix))}
Union(prefixes) == UNION {Covers(p) : p \in ToSet(prefixes)}

\* The addresses a request wants to go through the tunnel.
Wanted(r) ==
  CASE r.mode = "split" -> Union(r.allowed) \ Union(r.excluded)
    [] r.mode = "bypass" -> Addresses \ Union(r.excluded)
    [] OTHER -> Addresses

\* The largest blocks inside a set of addresses: the shortest list that covers it.
CanonicalBlocks(set) ==
  LET inside(p) == Masked(p) = p /\ Covers(p) \subseteq set
  IN {p \in [addr: Addresses, bits: 0..Width] :
        /\ inside(p)
        /\ p.bits > 0 => ~inside(Masked([p EXCEPT !.bits = @ - 1]))}
=============================================================================
