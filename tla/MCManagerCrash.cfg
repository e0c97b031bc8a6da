\* No command fails, but the process may die: the unit is restarted in vain.
CONSTANTS
  IDs = {i1, i2}
  Keys = {k1, k2}
  Addrs = {2, 3}
  ServerIP = 1
  Broadcast = 4
  Groups = {"", g}
  Variants = {v0}
  DefaultVariant = v0
  V31Variants = {}
  Overrides = {v0}
  Requests = {0}
  Extras = {0}
  HeaderKeys = {h0, h1}
  DefaultKey = h0
  Profiles <- AllProfiles
  ListenPort = 1
  MaxPort = 3
  MaxInterfaces = 2
  MaxFaults = 0
  InitDisks <- EitherDir
  Crashes = TRUE
  MaxIndex = 1
  MaxRules = 1
SPECIFICATION FairSpec
PROPERTIES
  ServiceComesUp
