SPECIFICATION ReversalSpec
CONSTANTS
  User <- MCUser
  Holds <- MCHolds
  FormAction = {"REWORK"}
  Selectable = {"CENTRAL_OPS_HEAD"}
  MaxRounds = 2
  MaxOverrides = 1
  Admin = {"admin"}
  MaxSteps = 7
INVARIANTS
  LotAndRoundFollow
  ClosuresEndorsed
PROPERTIES
  OthersDecisionsStand
CHECK_DEADLOCK FALSE
