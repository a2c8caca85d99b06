CONSTANTS
  Procs = {p1}
  Lease = 1
  Horizon = 3
  Weeks = {0}
  MonthStarts = {2}
  Promotion = 0
  MaxStall = 1
  NoClaim = NoClaim
SPECIFICATION FairSpec
CHECK_DEADLOCK FALSE
PROPERTY CrashWindowRecovered
