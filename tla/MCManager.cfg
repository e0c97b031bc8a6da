\* Two clients, keys and addresses, both protocol versions, an older file to
\* restore, up to two failures in a call, shutdowns, crashes and reboots.
CONSTANTS
  IDs = {i1, i2}
  Keys = {k1, k2}
  Addrs = {2, 3}
  ServerIP = 1
  Broadcast = 4
  Groups = {"", g}
  Variants = {v0}
  DefaultVariant = v0
  V31Variants = {}
  Overrides = {v0}
  Requests = {0}
  Extras = {0}
  HeaderKeys = {h0, h1}
  DefaultKey = h0
  Profiles <- AllProfiles
  ListenPort = 1
  MaxPort = 3
  MaxInterfaces = 2
  MaxFaults = 2
  InitDisks <- EitherDir
  Crashes = TRUE
  MaxIndex = 1
  MaxRules = 1
VIEW View
SYMMETRY Symmetry
SPECIFICATION Spec
INVARIANTS
  MemoryMatchesDisk
  PoolMatchesClients
  LanFailsClosed
  HeaderKeysExact
PROPERTIES
  ProbeRemoved
  RulesDoNotPileUp
  ImplementsStore
