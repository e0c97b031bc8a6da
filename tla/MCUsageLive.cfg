\* Locks, failing dumps, failed rollbacks, signals and crashes; no bytes.
CONSTANTS
  IDs = {i1}
  Keys = {k1}
  Ifaces = {a, b}
  Handlers = {r1, r2}
  Faults = TRUE
  Doubles = TRUE
  Crashes = TRUE
  MaxBytes = 0
SPECIFICATION FairSpec
PROPERTIES
  RequestsEnd
  SignalEnds
