SPECIFICATION FairSpec
CONSTANTS
  Keys = {k1, k2}
  Tokens = {t1, t2}
  Conns = {c1, c2}
  Planes = {"rest", "signal"}
  Direct = FALSE
  TTL = 0
  MaxTime = 1
  MaxRegs = 2
  NoKey = NoKey
  NoOffer = NoOffer
CHECK_DEADLOCK FALSE
INVARIANT DaemonInv
PROPERTIES RefusalKeepsOffers RegisterKeepsOffers RestTokenAccepted ConnectionsResolve VerifiedIsServed
