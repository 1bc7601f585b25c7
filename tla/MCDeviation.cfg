SPECIFICATION Spec
CONSTANTS
  User <- MCUser
  Holds <- MCHolds
  FormAction = {"UAI", "REWORK"}
  Selectable = {"PDC_HEAD", "CQA_HEAD", "CENTRAL_OPS_HEAD"}
  MaxRounds = 2
  MaxOverrides = 1
INVARIANTS
  TypeOK
  AcceptedLotIsEndorsed
  RejectedLotIsEndorsed
  SeniorOutcomeIsTheRounds
  OpenRoundWaitsForSomeone
  HighestAuthorityPrevails
PROPERTIES
  DecisionsStand
  ClosedStaysClosed
  TimedWaitsEnd
  ImplementsDeviationCase
CHECK_DEADLOCK FALSE
