------------------------------ MODULE MCUsage ------------------------------
(***************************************************************************)
(* Instances of Usage for TLC.                                             *)
(***************************************************************************)
EXTENDS Usage

\* Without the ghost that only EveryByteCounted reads.
View ==
  LET seen(t) == [th[t] EXCEPT !.rows = [n \in DOMAIN @ |-> <<@[n].key, @[n].raw>>]]
  IN <<raw, moved, client, fresh, stats, file, unread, mgr, cmu,
       [t \in Threads |-> seen(t)], phase>>

Symmetry == Permutations(Keys) \cup Permutations(Ifaces) \cup Permutations(Handlers)
=============================================================================
