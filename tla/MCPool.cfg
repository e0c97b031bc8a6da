\* Two profiles, three keys and a limit of two interfaces; the automatic ports are
\* 2 and 3, the explicit ones 1 and 2: the rollbacks of a migration meet a taken
\* port and a reached limit.
CONSTANTS
  Profiles = {p1, p2}
  Keys = {k1, k2, k3}
  Addrs = {k1, k2, k3}
  ListenPort = 2
  MaxPort = 3
  MaxInterfaces = 2
  MaxFaults = 2
  AddrOf <- MCAddrOf
  Requests = {0, 1, 2}
  MaxIndex = 4
VIEW View
SYMMETRY Symmetry
SPECIFICATION Spec
INVARIANTS
  TypeOK
  HostAccounted
  LivePeersTracked
  CountsPeers
  WithinLimit
  Masqueraded
PROPERTIES
  OthersUndisturbed
  SingleFaultRestores
  PlainErrorKeepsBooks
  SuccessServes
