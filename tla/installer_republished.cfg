SPECIFICATION Spec
CONSTANTS
  a = a
  b = b
  c = c
  Manifests <- MCRepublished
  Contents = {a, b, c}
  Instants = {2}
  Skew = 1
  MaxFaults = 0
  None = None
CHECK_DEADLOCK FALSE
INVARIANT UnhealthyRetired
