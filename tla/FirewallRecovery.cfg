SPECIFICATION Spec
CONSTANTS
  Slots = {s1, s2}
  Units = {u1}
  Delay = 2
  Kinds <- PortKinds
  MaxFaults = 1
INVARIANTS AlwaysGuarded
PROPERTIES Recovers
CHECK_DEADLOCK FALSE
