\* One client ID that may be deleted and created again, two requests at a time,
\* failing dumps and saves, crashes and restarts.
CONSTANTS
  IDs = {i1}
  Keys = {k1, k2}
  Ifaces = {a, b}
  Handlers = {r1, r2}
  Faults = TRUE
  Doubles = FALSE
  Crashes = TRUE
  MaxBytes = 2
VIEW View
SYMMETRY Symmetry
SPECIFICATION Spec
INVARIANTS
  TypeOK
  NeverOverCounts
  SnapshotIsNewest
PROPERTIES
  SavedTotalsSurvive
