SPECIFICATION Spec
CONSTANTS
  s1 = s1
  s2 = s2
  Services = {s1, s2}
  MaxStarts = 2
INVARIANTS TypeOK ExitLeavesNoSsh AtMostOneLateSsh
PROPERTIES InterruptsEnd ForwardIsRestored
CHECK_DEADLOCK FALSE
