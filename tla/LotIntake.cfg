SPECIFICATION IntakeSpec
CONSTANTS
  NumLots = 3
  Unreadable = {2}
  Foreign = {1}
  Overlap = 1
  MaxDate = 4
  MaxFaults = 2
  MaxApprovals = 1
INVARIANTS
  NothingSlipsPast
PROPERTIES
  LotsArrive
