CONSTANTS
  Procs = {p1, p2}
  Lease = 1
  Horizon = 9
  Weeks <- MCWeeks
  MonthStarts = {2, 9}
  Promotion = 0
  MaxStall = 2
  NoClaim = NoClaim
SYMMETRY Symmetry
SPECIFICATION CandidateSpec
CHECK_DEADLOCK FALSE
INVARIANTS
  TypeOK
  PublishedNeverFailed
  OnePublicationPerWeek
  AcceptedMeansPublished
  OneRunnerPerWeek
  MonthFromFirstUpdate
  SuccessHasItsCandidate
PROPERTIES
  DecidedIsFinal
  MonthlyDecisionsStand
