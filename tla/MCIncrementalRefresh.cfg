CONSTANTS
  Jobs = {a, b, c}
  Base = base
  NoJob = nojob
  Requests = 2
SYMMETRY Symmetry
SPECIFICATION ProducerSpec
INVARIANTS
  ProducerTypeOK
  AcceptedHistoryIsALine
  PointerIsNewest
  JournalMatchesPointer
PROPERTY
  ClosedJournalIsFinal
