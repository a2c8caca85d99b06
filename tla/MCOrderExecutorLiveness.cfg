SPECIFICATION FairSpec
CONSTANTS
  S = S
  C = C
  Market = {m1}
  Order = {o1}
  NoId = NoId
  Shares = 2
  Traders <- OneTrader
  Primary = {S}
  Cyclers = {p1}
  Cleaners = {}
  Deployments <- TwoLocked
  NoProc = NoProc
  NoLock = NoLock
  MaxRows = 1
  MaxCrashes = 1
  MaxPauses = 1
PROPERTY UncertaintyEnds
