SPECIFICATION Spec
CONSTANTS
  Keys = {k1, k2}
  Tokens = {t1}
  Conns = {c1, c2}
  Planes = {"signal"}
  Direct = TRUE
  TTL = 1
  MaxTime = 2
  MaxRegs = 3
  NoKey = NoKey
  NoOffer = NoOffer
CHECK_DEADLOCK FALSE
SYMMETRY Symmetry
INVARIANTS TypeOK SingleUse ServedAsAgreed RegistryInv
