\* Two runs of the command, three releases of which the first has the asset names
\* of the previous generation, and up to three faults.
CONSTANTS
  Procs = {p1, p2}
  NoProc = NoProc
  MaxVersion = 3
  Tag <- Tags
  Legacy = {1}
  InitFiles <- Installs
  MaxFaults = 3
SPECIFICATION Spec
INVARIANTS
  TypeOK
  InstalledIsVerified
PROPERTIES
  NeverDowngrades
  UpdatedMeansLatest
  UpdateConverges
