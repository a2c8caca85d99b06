SPECIFICATION Spec
CONSTANTS
  S = S
  C = C
  Market = {m1}
  Order = {o1, o2}
  NoId = NoId
  Shares = 2
  Traders <- BothTraders
  Primary = {S, C}
  Cyclers = {p1, p2}
  Cleaners = {q}
  Deployments <- AllButFirstUse
  NoProc = NoProc
  NoLock = NoLock
  MaxRows = 2
  MaxCrashes = 1
  MaxPauses = 0
INVARIANTS
  TypeOK
  OneExposurePerMarket
  DurableIdentity
  ClosedOnEvidence
  PositionsMatchFills
PROPERTY OwnershipPermanent
SYMMETRY Interchangeable
