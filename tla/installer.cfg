SPECIFICATION Spec
CONSTANTS
  a = a
  b = b
  c = c
  Manifests <- MCUnique
  Contents = {a, b, c}
  Instants = {2}
  Skew = 1
  MaxFaults = 2
  None = None
CHECK_DEADLOCK FALSE
INVARIANTS TypeOK IntactRecords UnhealthyRetired
PROPERTIES ReplacedWhenVerified SequenceNeverReused RollbackVerified
