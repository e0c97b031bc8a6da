\* Nothing fails: a collection in flight and a deletion.
CONSTANTS
  IDs = {i1}
  Keys = {k1, k2}
  Ifaces = {a, b}
  Handlers = {r1, r2}
  Faults = FALSE
  Doubles = FALSE
  Crashes = FALSE
  MaxBytes = 2
SPECIFICATION Spec
INVARIANTS
  NoStaleStats
