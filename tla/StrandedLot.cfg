SPECIFICATION IntakeSpec
CONSTANTS
  NumLots = 1
  Unreadable = {}
  Foreign = {}
  Overlap = 1
  MaxDate = 4
  MaxFaults = 0
  MaxApprovals = 1
PROPERTIES
  WaitingLotOpens
