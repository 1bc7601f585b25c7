SPECIFICATION ReversalSpec
CONSTANTS
  Inspector = {"inspector", "inCharge"}
  InCharge = {"inCharge"}
  IqcHead = {"head"}
  Admin = {"admin"}
  Device = {}
  Sample = {"s1"}
  AcceptNo = 0
  MaxSteps = 6
INVARIANTS
  StatusIsOfTheHistory
  DeviationIffHeld
PROPERTIES
  OnlyOwnStepsUndone
CHECK_DEADLOCK FALSE
