CONSTANTS
  c1 = c1
  c2 = c2
  Conns = {c1, c2}
  Plans <- PlansDef
  Specs = {"a,b", "a,?", "a", "blank", "", "host"}
  Names <- NamesDef
  Hostnames = {"a", "b", "host"}
  Certs = {"cert a", "cert host", "cert self"}
  CertNames <- CertNamesDef
  Messages <- MessagesDef
  FarData <- FarDataDef
SPECIFICATION FairSpec
INVARIANTS TunnelWhole TunnelReal
PROPERTIES AdvanceOnce SetupsEnd
CHECK_DEADLOCK FALSE
