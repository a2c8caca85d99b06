SPECIFICATION FairSpec
CONSTANTS
  p = p
  q = q
  keyed = keyed
  plain = plain
  Writers = {p, q}
  Incidents = {keyed, plain}
  Managed = {keyed}
  Retention = 2
  MaxWait = 1
  MaxClock = 3
  MaxRecords = 3
  MaxFaults = 1
INVARIANTS
  CompactionIsInvisible
  LockedAppendsSurvive
PROPERTIES
  ProbeCloses
  AbandonedLockIsBroken
