------------------------------- MODULE Params -------------------------------
(***************************************************************************)
(* The AWG parameters of clients: what a request may override              *)
(* (internal/awg/validation.go, dns.go), what is generated (params.go),    *)
(* how overrides and defaults become the profile of an interface           *)
(* (profile.go, effectiveParamsForVersion of internal/clients/manager.go)  *)
(* and what a restart makes of the stored record.  Host commands do not    *)
(* fail here: that is the subject of Manager.                              *)
(***************************************************************************)
EXTENDS Integers, SequencesExt

CONSTANTS
  Clients,
  Inputs,      \* Inputs[c]: the awg_params objects requests about c send
  Regenerated, \* the clients requests ask new values for
  Envs,        \* server configurations: [j, s3, s4, timing, toggle, keepalive, cps]
  InitEnv,     \* the one of the first start
  Defaults,    \* the generated values clients.json may hold
  Tiers,       \* the four tiers [min, max) headers are generated in
  GenS,        \* S1 and S2 are generated in GenS.lo..GenS.hi
  GenS3,       \* so is S3 for protocol 3.1
  MaxS,        \* MaxS1..MaxS4
  MinS31,      \* the least S value of protocol 3.1, the generated S4
  Gap,         \* the difference between S1 and S2 that is forbidden
  MaxJ,        \* MaxJunkPacketCount, and MaxJunkPacketSize twice
  HeaderKeys,  \* header protection keys, DefaultKey the stored default
  DefaultKey,
  NoClient     \* the record of a client that does not exist

\* What the real limits satisfy: tiers are disjoint and wide enough for a
\* range, generated S values are within every limit.
ASSUME TierAssumption ==
  /\ Tiers \in [1..4 -> [min: Nat, max: Nat]]
  /\ \A i \in 1..4 : Tiers[i].min + 1 < Tiers[i].max
  /\ \A i \in 1..3 : Tiers[i].max <= Tiers[i + 1].min
ASSUME SizeAssumption ==
  /\ GenS \in [lo: Nat, hi: Nat] /\ GenS3 \in [lo: Nat, hi: Nat]
  /\ MaxS \in [1..4 -> Nat] /\ MaxJ \in [1..3 -> Nat] /\ {MinS31, Gap} \subseteq Nat
  /\ MinS31 <= GenS.lo /\ GenS.lo < GenS.hi /\ GenS.hi <= MaxS[1] /\ GenS.hi <= MaxS[2]
  /\ MinS31 <= GenS3.lo /\ GenS3.lo <= GenS3.hi /\ GenS3.hi <= MaxS[3]
  /\ 0 < MinS31 /\ MinS31 <= MaxS[4]
ASSUME KeyAssumption == DefaultKey \in HeaderKeys

Versions == {"2.0", "3.1"}

(***************************************************************************)
(* An awg_params object.  A header is a range <<start, end>>, <<>> if it   *)
(* is not given; timing stands for the six 3.1 ranges, toggle for the two  *)
(* 3.1 switches, cps for I1 to I5; set names the DNS fields that are       *)
(* present in the JSON object.                                             *)
(***************************************************************************)
Unset == [kind |-> "unset", start |-> 0, end |-> 0]
Scalar(n) == [kind |-> "scalar", start |-> n, end |-> n]
Span(a, b) == [kind |-> "span", start |-> a, end |-> b]
Off == [kind |-> "off", start |-> 0, end |-> 0]

Empty ==
  [s |-> <<0, 0, 0, 0>>, h |-> <<<<>>, <<>>, <<>>, <<>>>>, j |-> <<0, 0, 0>>,
   timing |-> Unset, toggle |-> "", keepalive |-> Unset, cps |-> "",
   set |-> {}, dns |-> "", mode |-> "", servers |-> <<>>]

Uint16Range == [kind: {"unset", "scalar", "span", "off"}, start: Nat, end: Nat]
Headers == [1..4 -> {<<>>} \cup (Nat \X Nat)]
AWGParams ==
  [s: [1..4 -> Int], h: Headers, j: [1..3 -> Int], timing: Uint16Range, toggle: STRING,
   keepalive: Uint16Range, cps: STRING \ {"invalid"}, set: SUBSET {"dns", "mode", "servers"},
   dns: STRING, mode: STRING, servers: Seq(STRING)]

\* What Go's types give of a request, a configuration and a stored file.
ASSUME InputAssumption ==
  /\ \A c \in Clients : Inputs[c] \subseteq AWGParams
  /\ Regenerated \subseteq Clients
  /\ InitEnv \in Envs
  /\ Envs \subseteq [j: [1..3 -> Int], s3: Int, s4: Int, timing: Uint16Range, toggle: STRING,
                     keepalive: Uint16Range, cps: STRING]
  /\ Defaults \subseteq [Versions -> AWGParams]

\* The one fact about literals that the provers lack.
ASSUME TextAssumption == "" \in STRING

InvalidParams == [Empty EXCEPT !.cps = "invalid"]

\* Uint16Range.Canonical
Canonical(r) ==
  IF r.kind = "off" \/ (r.kind = "span" /\ r.start = r.end) THEN Scalar(r.start) ELSE r

validateDNSSettings(p) ==
  LET legacySet == "dns" \in p.set \/ p.dns # ""
      modeSet == "mode" \in p.set \/ p.mode # ""
      serversSet == "servers" \in p.set \/ p.servers # <<>>
  IN /\ legacySet => ~modeSet /\ ~serversSet
     /\ ~modeSet => ~serversSet /\ p.dns # "bad"
     /\ modeSet => \/ p.mode \in {"default", "system"} /\ p.servers = <<>>
                   \/ p.mode = "custom" /\ p.servers # <<>> /\ ~Contains(p.servers, "bad")

\* A range is well-formed when its start is not after its end.
ValidateOverridesForVersion(ver, p) ==
  /\ validateDNSSettings(p)
  /\ ver = "2.0" => /\ p.keepalive.kind \in {"unset", "scalar"}
                    /\ p.timing = Unset
                    /\ p.toggle = ""
  /\ ver = "3.1" => p.toggle \in {"", "on", "off"}
  /\ \A i \in 1..3 : p.j[i] \in 0..MaxJ[i]
  /\ \A i \in 1..4 : p.s[i] \in 0..MaxS[i]
  /\ \A i \in 1..4 : p.h[i] # <<>> => p.h[i][1] <= p.h[i][2]
  /\ p.cps # "bad"

\* Mutant of canonicalizeUnsignedRanges: the form of the request is kept.
canonicalizeUnsignedRangesSkipped(p) == p

canonicalizeUnsignedRanges(p) ==
  [p EXCEPT !.timing = Canonical(@), !.keepalive = Canonical(@)]

\* Mutant of NormalizeOverridesForVersion: 2.0 drops what it does not know.
NormalizeOverridesForVersionDropping(ver, p) ==
  LET q == IF ver = "2.0" THEN [p EXCEPT !.timing = Unset, !.toggle = ""] ELSE p
  IN IF ~ValidateOverridesForVersion(ver, q) THEN InvalidParams
     ELSE [canonicalizeUnsignedRanges(q) EXCEPT !.set = {}]

\* The servers in their order, each of them once.
distinct(s) ==
  LET kept[i \in 0..Len(s)] ==
        IF i = 0 THEN <<>>
        ELSE IF Contains(kept[i - 1], s[i]) THEN kept[i - 1] ELSE Append(kept[i - 1], s[i])
  IN kept[Len(s)]

NormalizeOverridesForVersion(ver, p) ==
  LET q == IF p.mode = "custom" THEN [p EXCEPT !.servers = distinct(@)] ELSE p
  IN IF ~ValidateOverridesForVersion(ver, q) THEN InvalidParams
     ELSE [canonicalizeUnsignedRanges(q) EXCEPT !.set = {}]

\* The object as clients.json holds it and LoadStorage reads it again.
Reloaded(p) ==
  [p EXCEPT
     !.timing = Canonical(@), !.keepalive = Canonical(@),
     !.set = {f \in {"dns", "mode", "servers"} :
                \/ f = "dns" /\ p.dns # ""
                \/ f = "mode" /\ p.mode # ""
                \/ f = "servers" /\ p.servers # <<>>}]

(***************************************************************************)
(* Generated values.                                                       *)
(***************************************************************************)
\* Mutant of generatedS: the forbidden pair is not drawn again.
generatedSAny == (GenS.lo..GenS.hi) \X (GenS.lo..GenS.hi)

generatedS == {x \in (GenS.lo..GenS.hi) \X (GenS.lo..GenS.hi) : x[1] + Gap # x[2]}

\* generateHRange: below the middle of the tier, and from there on.
generatedHRanges ==
  LET mid(t) == t.min + (t.max - t.min) \div 2
      ranges(t) == (t.min..(mid(t) - 1)) \X (mid(t)..(t.max - 1))
  IN {h \in [1..4 -> UNION {ranges(Tiers[i]) : i \in 1..4}] : \A i \in 1..4 : h[i] \in ranges(Tiers[i])}

generatedHValues ==
  {[i \in 1..4 |-> <<v[i], v[i]>>] :
     v \in {w \in [1..4 -> UNION {Tiers[i].min..(Tiers[i].max - 1) : i \in 1..4}] :
              \A i \in 1..4 : w[i] \in Tiers[i].min..(Tiers[i].max - 1)}}

\* p with generated headers and S values.
withValues(p, h, s) == [p EXCEPT !.h = h, !.s = s]

\* p with the values of GenerateParams, and of GenerateParamsV31.
ApplyGeneratedParams(p) ==
  {withValues(p, h, <<s[1], s[2], p.s[3], p.s[4]>>) : h \in generatedHRanges, s \in generatedS}

ApplyGeneratedParamsV31(p) ==
  {withValues(p, h, <<s[1], s[2], s3, MinS31>>) :
     h \in generatedHValues, s \in generatedS, s3 \in GenS3.lo..GenS3.hi}

(***************************************************************************)
(* Profiles.                                                               *)
(***************************************************************************)
\* managerDefaultsFromConfig: the environment and the stored generated values.
base(e, gen, ver) ==
  LET p == [Empty EXCEPT !.j = e.j, !.cps = e.cps, !.dns = "d"]
  IN IF ver = "2.0"
       THEN [p EXCEPT !.h = gen["2.0"].h,
                      !.s = <<gen["2.0"].s[1], gen["2.0"].s[2], e.s3, e.s4>>]
       ELSE [p EXCEPT !.h = gen["3.1"].h, !.s = gen["3.1"].s,
                      !.timing = e.timing, !.toggle = e.toggle, !.keepalive = e.keepalive]

effectiveParamsForVersion(e, gen, ver, p) ==
  LET d == base(e, gen, ver)
      over(x, none, y) == IF x = none THEN y ELSE x
  IN [s |-> [i \in 1..4 |-> over(p.s[i], 0, d.s[i])],
      h |-> [i \in 1..4 |-> over(p.h[i], <<>>, d.h[i])],
      j |-> [i \in 1..3 |-> over(p.j[i], 0, d.j[i])],
      timing |-> over(p.timing, Unset, d.timing),
      toggle |-> over(p.toggle, "", d.toggle),
      keepalive |-> over(p.keepalive, Unset, d.keepalive),
      cps |-> over(p.cps, "", d.cps),
      set |-> {},
      dns |-> IF p.mode # "" THEN "" ELSE over(p.dns, "", d.dns),
      mode |-> p.mode,
      servers |-> p.servers]

\* Mutant of disjointHeaders: only neighbours are compared.
disjointHeadersNeighbours(h) ==
  \A i \in 1..3 : h[i][2] < h[i + 1][1] \/ h[i + 1][2] < h[i][1]

disjointHeaders(h) ==
  \A i, j \in 1..4 : i < j => h[i][2] < h[j][1] \/ h[j][2] < h[i][1]

ValidateProfileForVersion(ver, p) ==
  /\ ValidateOverridesForVersion(ver, p)
  /\ ver = "3.1" => \A i \in 1..4 : p.s[i] >= MinS31
  /\ p.j[1] > 0 => p.j[2] > 0 /\ p.j[3] > 0 /\ p.j[2] < p.j[3]
  /\ p.s[1] + Gap # p.s[2]
  /\ \A i \in 1..4 : p.h[i] # <<>>
  /\ disjointHeaders(p.h)

\* ServerConfig: what an interface of the profile is configured with.
ServerConfig(p, hk) ==
  [j |-> p.j, s |-> p.s, h |-> p.h, timing |-> Canonical(p.timing), toggle |-> p.toggle, hk |-> hk]

\* Mutant of canonicalProfileKey: junk packets are not part of the identity.
canonicalProfileKeyNoJunk(ver, p, hk) ==
  <<ver, p.s, p.h, Canonical(p.timing), p.toggle, hk>>

\* The identity of the interface.
canonicalProfileKey(ver, p, hk) ==
  <<ver, p.j, p.s, p.h, Canonical(p.timing), p.toggle, hk>>

-----------------------------------------------------------------------------
(***************************************************************************)
(* The specification.                                                      *)
(***************************************************************************)
VARIABLES
  env,        \* the configuration of the running process
  generated,  \* the generated defaults clients.json holds for each version
  stored,     \* each client: [ver, params, hk], or NoClient
  ifaces      \* the configuration of each interface, by the key of its profile

vars == <<env, generated, stored, ifaces>>

NoKey == "none"

\* effectiveProfileForData succeeds, its parameters, and its key.
Usable(e, c) ==
  ValidateProfileForVersion(c.ver, effectiveParamsForVersion(e, generated, c.ver, c.params))
Effective(e, c) == effectiveParamsForVersion(e, generated, c.ver, c.params)
Config(e, c) == ServerConfig(Effective(e, c), c.hk)
Key(e, c) == canonicalProfileKey(c.ver, Effective(e, c), c.hk)

Existing(st) == {c \in Clients : st[c] # NoClient}

\* Interfaces after the clients changed to st: those in use stay as they are, a
\* new one is configured for a client that needs it.
Moved(e, old, st) ==
  [k \in {Key(e, st[c]) : c \in Existing(st)} |->
     IF k \in DOMAIN old THEN old[k]
     ELSE Config(e, st[CHOOSE c \in Existing(st) : Key(e, st[c]) = k])]

\* resolveManagerDefaults succeeds: a client without overrides could be served.
DefaultsUsable(e) ==
  \A ver \in Versions : ValidateProfileForVersion(ver, base(e, generated, ver))

Init ==
  /\ env = InitEnv
  /\ generated \in Defaults
  /\ DefaultsUsable(env)
  /\ stored = [c \in Clients |-> NoClient]
  /\ ifaces = <<>>

\* The request is answered with an error, or the process does not start.
Refuse == UNCHANGED vars

Acceptable(next) == next.params # InvalidParams /\ Usable(env, next)

\* Client c becomes next, unless its profile is not valid.
Apply(c, next) ==
  IF ~Acceptable(next) THEN Refuse
  ELSE /\ stored' = [stored EXCEPT ![c] = next]
       /\ ifaces' = Moved(env, ifaces, stored')
       /\ UNCHANGED <<env, generated>>

CreateClient(c, ver, p) ==
  /\ stored[c] = NoClient
  /\ Apply(c, [ver |-> ver, params |-> NormalizeOverridesForVersion(ver, p),
               hk |-> IF ver = "3.1" THEN DefaultKey ELSE NoKey])

\* resolveClientUpdate: p replaces the stored object, null resets it.
UpdateClient(c, ver, p, reset) ==
  /\ stored[c] # NoClient
  /\ Apply(c, [ver |-> ver, params |-> NormalizeOverridesForVersion(ver, p),
               hk |-> IF ver = "2.0" THEN NoKey
                          ELSE IF ver # stored[c].ver \/ reset THEN DefaultKey
                          ELSE stored[c].hk])

SetParams(c, ver, p) == UpdateClient(c, ver, p, FALSE)
SwitchVersion(c, ver) == UpdateClient(c, ver, stored[c].params, FALSE)
ResetParams(c, ver) == UpdateClient(c, ver, Empty, TRUE)

\* The record of c with other parameters and header key.
changedTo(c, p, hk) ==
  [stored[c] EXCEPT !.params = NormalizeOverridesForVersion(stored[c].ver, p), !.hk = hk]

\* The records RegenerateAWGParams may choose for c: a 2.0 client gets values of
\* another profile, a 3.1 client a header key of its own too.
regenerated(c) ==
  IF stored[c].ver = "2.0"
    THEN {next \in {changedTo(c, p, stored[c].hk) : p \in ApplyGeneratedParams(stored[c].params)} :
            Key(env, next) # Key(env, stored[c])}
    ELSE {changedTo(c, p, hk) :
            p \in ApplyGeneratedParamsV31(stored[c].params),
            hk \in HeaderKeys \ ({DefaultKey} \cup {stored[d].hk : d \in Existing(stored)})}

RegenerateAWGParams(c) ==
  /\ stored[c] # NoClient
  /\ \E next \in regenerated(c) : Apply(c, next)

DeleteClient(c) ==
  /\ stored[c] # NoClient
  /\ stored' = [stored EXCEPT ![c] = NoClient]
  /\ ifaces' = Moved(env, ifaces, stored')
  /\ UNCHANGED <<env, generated>>

\* The record of a client as LoadStorage and PrepareRestorePlan make it.
Restored(c) ==
  IF c = NoClient THEN NoClient
  ELSE [c EXCEPT !.params = NormalizeOverridesForVersion(c.ver, Reloaded(@))]

\* The start succeeds with the configuration e.
Startable(e, st) ==
  /\ DefaultsUsable(e)
  /\ \A c \in Existing(st) : st[c].params # InvalidParams /\ Usable(e, st[c])

\* Stopped and started with the configuration e; if a stored client would have
\* no valid profile the process exits, and the operator takes e back.
Restart(e) ==
  LET st == [c \in Clients |-> Restored(stored[c])]
  IN IF ~Startable(e, st) THEN Refuse
     ELSE /\ env' = e
          /\ stored' = st
          /\ ifaces' = Moved(e, <<>>, st)
          /\ UNCHANGED generated

Next ==
  \/ \E c \in Clients, ver \in Versions :
       \/ \E p \in Inputs[c] : CreateClient(c, ver, p) \/ SetParams(c, ver, p)
       \/ SwitchVersion(c, ver)
       \/ ResetParams(c, ver)
  \/ \E c \in Regenerated : RegenerateAWGParams(c)
  \/ \E c \in Clients : DeleteClient(c)
  \/ \E e \in Envs : Restart(e)

Spec == Init /\ [][Next]_vars
-----------------------------------------------------------------------------
(***************************************************************************)
(* Properties.                                                             *)
(***************************************************************************)
\* Whatever was created, changed, switched between versions, regenerated and
\* restored, with whatever configuration: a packet type can be told from its
\* header and its size, as no two header ranges share a value, an initiation
\* padded by S1 is never as long as a response padded by S2, and junk packets
\* have a size to choose from.
ProfilesUsable ==
  \A c \in Existing(stored) :
    LET p == Effective(env, stored[c])
        values(i) == p.h[i][1]..p.h[i][2]
    IN /\ \A i, j \in 1..4 : values(i) # {} /\ (i # j => values(i) \cap values(j) = {})
       /\ p.s[2] # p.s[1] + Gap
       /\ p.j[1] > 0 => 0 < p.j[2] /\ p.j[2] < p.j[3]
       /\ stored[c].ver = "3.1" => \A i \in 1..4 : p.s[i] >= MinS31

\* Clients that share an interface agree with it in every setting the server
\* applies: the profile key leaves none of them out.
InterfaceMatchesClients ==
  \A c \in Existing(stored) : ifaces[Key(env, stored[c])] = Config(env, stored[c])

\* New values can be generated for every client the server accepted, whatever
\* overrides it keeps: none of the choices is refused.
RegenerateAccepted ==
  \A c \in Existing(stored) : \A next \in regenerated(c) : Acceptable(next)

\* A restart with the same configuration accepts what is stored, and leaves the
\* records and the interfaces as they are.
RestartChangesNothing ==
  LET st == [c \in Clients |-> Restored(stored[c])]
  IN st = stored /\ Startable(env, st) /\ ifaces = Moved(env, <<>>, st)

\* A change of the version keeps every override or is refused.
SwitchKeepsOverrides ==
  [][\A c \in Clients, ver \in Versions :
        stored'[c] # stored[c] /\ SwitchVersion(c, ver) =>
          stored'[c].params = stored[c].params]_vars
=============================================================================
