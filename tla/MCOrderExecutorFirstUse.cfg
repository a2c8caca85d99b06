SPECIFICATION Spec
CONSTANTS
  S = S
  C = C
  Market = {m1}
  Order = {o1, o2}
  NoId = NoId
  Shares = 1
  Traders <- BothTraders
  Primary = {S, C}
  Cyclers = {p1, p2}
  Cleaners = {}
  Deployments <- FreshOldPair
  NoProc = NoProc
  NoLock = NoLock
  MaxRows = 2
  MaxCrashes = 0
  MaxPauses = 0
INVARIANT OneExposurePerMarket
SYMMETRY Interchangeable
