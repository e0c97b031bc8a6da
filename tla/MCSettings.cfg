\* Two clients, both versions and three server configurations; addresses of three
\* bits, lists of up to three CIDRs, of which up to three may be computed.
CONSTANTS
  Clients = {"c1", "c2"}
  Regenerated = {"c1"}
  Inputs <- Requests
  Envs <- Configurations
  InitEnv <- First
  Defaults <- OneDefault
  Tiers <- TwoWide
  GenS <- TwoOrThree
  GenS3 <- Two
  MaxS <- LimitS
  MaxJ <- LimitJ
  MinS31 = 1
  Gap = 1
  HeaderKeys = {"k0", "k1"}
  DefaultKey = "k0"
  NoClient = NoClient
  Width = 3
  MaxRoutingListEntries = 3
  MaxComputedRoutingCIDRs = 3
  Policies <- RoutingRequests
  NoPolicy = NoPolicy
SPECIFICATION SettingsSpec
INVARIANTS
  ProfilesUsable
  InterfaceMatchesClients
  RegenerateAccepted
  RestartChangesNothing
  PolicyStaysUsable
  RoutesExactly
  RoutesMinimal
PROPERTIES
  SwitchKeepsOverrides
