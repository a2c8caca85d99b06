SPECIFICATION Spec
CONSTANTS
  p = p
  q = q
  keyed = keyed
  plain = plain
  Writers = {p, q}
  Incidents = {keyed, plain}
  Managed = {keyed}
  Retention = 2
  MaxWait = 1
  MaxClock = 1
  MaxRecords = 2
  MaxFaults = 1
INVARIANT AppendsSurvive
