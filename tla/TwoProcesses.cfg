SPECIFICATION MCSpec
CONSTANTS
  Procs = {panel, cli}
  Configs = {good1, good2, bad}
  Accepted = {good1, good2}
  NoConfig = NoConfig
  Down = Down
  Requests = {"r1"}
  Names = {n1, n2}
  Passwords = {"p1"}
  Pairs = {"c1"}
  NoName = NoName
  NoPair = NoPair
  AcctSets = {1, 2}
  Settings = {"s1", "s2"}
  Buildable <- Builds
  NoWork = 0
  Old = {"x-ui", "watch"}
  Main = "x-ui"
  Hosts <- TwoHosts
  MaxCutovers = 1
  MaxDisturbances = 2
INVARIANTS
  OnlyTestedInstalled NothingForeignRuns
  OneAdmin Startable SessionsCurrent
  NothingLost Recoverable
PROPERTIES
  SuccessIsInstalled RestoredIsPrevious
  RestoredWhole RolledBackWhole
  AsBefore
