SPECIFICATION Spec
CONSTANTS
  Slots = {s1}
  Units = {u1, u2}
  Delay = 2
  Kinds <- AllKinds
  MaxFaults = 1
INVARIANT PauseKeepsRule
CHECK_DEADLOCK FALSE
