\* Nothing fails: a counter that was reset and has overtaken its last reading.
CONSTANTS
  IDs = {i1}
  Keys = {k1}
  Ifaces = {a, b}
  Handlers = {r1}
  Faults = FALSE
  Doubles = FALSE
  Crashes = FALSE
  MaxBytes = 3
SPECIFICATION Spec
PROPERTIES
  EveryByteCounted
