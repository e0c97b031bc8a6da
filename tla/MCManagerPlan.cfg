\* No failure and no crash: the restore of states that mix an explicit port with
\* automatic ones.
CONSTANTS
  IDs = {i1, i2}
  Keys = {k1, k2}
  Addrs = {2, 3}
  ServerIP = 1
  Broadcast = 4
  Groups = {"", g}
  Variants = {v0, v1, w}
  DefaultVariant = v0
  V31Variants = {w}
  Overrides = {"inherit", v1, w}
  Requests = {0, 1}
  Extras = {0, 1}
  HeaderKeys = {h0, h1}
  DefaultKey = h0
  Profiles <- AllProfiles
  ListenPort = 1
  MaxPort = 3
  MaxInterfaces = 2
  MaxFaults = 0
  InitDisks <- EitherDir
  Crashes = FALSE
  MaxIndex = 2
  MaxRules = 1
VIEW View
SYMMETRY Symmetry
SPECIFICATION Spec
INVARIANTS
  ServedExactly
PROPERTIES
  PlanHolds
