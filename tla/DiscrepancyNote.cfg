SPECIFICATION Spec
CONSTANTS
  InCharge = {"inCharge"}
  IqcHead = {"head"}
  Admin = {"admin"}
  Worker = {"w1"}
  File = {"f1", "f2"}
  MaxFiles = 2
  MaxSteps = 5
INVARIANTS
  ReviewsFollowStatus
PROPERTIES
  InformedCapaReview
  OthersStepsStand
  OverdueCapaReminded
CHECK_DEADLOCK FALSE
