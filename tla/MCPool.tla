------------------------------- MODULE MCPool -------------------------------
(***************************************************************************)
(* Instances of Pool for TLC.  A key stands for its own tunnel address.    *)
(***************************************************************************)
EXTENDS Pool, TLC

MCAddrOf == [k \in Keys |-> k]

\* Of the last call only a successful RemovePeer is read, by Addable; nothing
\* reads the failures it met.
View == <<[pool EXCEPT !.faults = 0],
          IF last.op = "RemovePeer" /\ last.err = "ok" THEN last ELSE NoCall>>

Symmetry == Permutations(Keys) \cup Permutations(Profiles)
=============================================================================
