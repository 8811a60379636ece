SPECIFICATION Spec
CONSTANTS
  Keys = {k1, k2}
  Tokens = {t1, t2}
  Conns = {c1}
  Planes = {"rest", "signal"}
  Direct = FALSE
  TTL = 1
  MaxTime = 1
  MaxRegs = 1
  NoKey = NoKey
  NoOffer = NoOffer
CHECK_DEADLOCK FALSE
PROPERTY KnownTokenAccepted
