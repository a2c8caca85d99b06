SPECIFICATION FairSpec
CONSTANTS
  S = S
  C = C
  Market = {m1}
  Order = {o1}
  NoId = NoId
  Shares = 1
  Traders <- OneTrader
  Primary = {S}
  Cyclers = {p1}
  Cleaners = {q}
  Deployments <- LockedBesideCleanup
  NoProc = NoProc
  NoLock = NoLock
  MaxRows = 1
  MaxCrashes = 0
  MaxPauses = 0
PROPERTY UncertaintyEnds
