SPECIFICATION MCSpec
CONSTANTS
  Procs = {panel}
  Calls = {k1, k2}
  ProcOf <- Owners
  Configs = {good1, good2, bad}
  Accepted = {good1, good2}
  NoConfig = NoConfig
  XrayDown = XrayDown
  Ids = {1, 2}
  Quotas = {1}
  Expiries = {0}
  MonthLength = 1
  Horizon = 1
  MaxSent = 1
  MaxPolicyFaults = 0
  Slots = {"s1"}
  Units = {"u1", "u2"}
  Delay = 2
  Kinds = {"add-allow", "remove-allow", "pause-allow", "resume-allow"}
  MaxUnitFaults = 1
  CoreCalls = {"c1"}
  MaxRelease = 3
  MaxUpdates = 4
  Web = {"w1"}
  Cli = {"t1"}
  MaxBuild = 3
  Broken = {2}
  Logins = {"l1", "l2"}
  Addresses = {"a"}
  Names = {"n1", "n2", "n3"}
  Max = 1
  IpMax = 3
  Window = 3
  IpWindow = 4
  Capacity = 2
  Protocols = {"vless", "vmess"}
  Imported <- Documents
  Texts = {"b"}
  Forms <- SentForms
  MaxEdits = 2
  Groups = {"tcp", "udp"}
  Ports = {1, 2, 3}
  MaxRules = 3
INVARIANT ClearsAreClears
CHECK_DEADLOCK FALSE
