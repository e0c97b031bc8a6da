----------------------------- MODULE MCManager -----------------------------
(***************************************************************************)
(* Instances of Manager for TLC.                                           *)
(***************************************************************************)
EXTENDS Manager, TLC

\* An empty data directory, or the file of an older release: a client without
\* version and group, and no 3.1 section.
LegacyDisk(id, key) ==
  Stored(<<[id |-> id, ver |-> "", key |-> key, addr |-> 2, group |-> "",
            var |-> DefaultVariant, port |-> 0, extra |-> 0, hk |-> NoKey]>>, {})

EmptyDir == {NoData}
EitherDir == {NoData} \cup {LegacyDisk(id, key) : id \in IDs, key \in Keys}

\* Nothing reads the last call, the failures it met or the probes left behind.
View == <<[m EXCEPT !.pool.faults = 0, !.probes = 0], dirty>>

Symmetry == Permutations(IDs) \cup Permutations(Keys)
=============================================================================
