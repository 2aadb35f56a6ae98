CONSTANTS
  Daemons = {d1, d2}
  Lines = {l1, l2}
  Identified = {l1}
  None = none
  MaxFaults = 2
SPECIFICATION Spec
INVARIANTS
  CountedOnce
CHECK_DEADLOCK FALSE
