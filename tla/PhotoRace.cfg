SPECIFICATION PhotosSpec
CONSTANTS
  Inspector = {"inspector"}
  InCharge = {"inCharge"}
  IqcHead = {"head"}
  Device = {"tablet"}
  Sample = {"s1"}
  AcceptNo = 0
  MaxSteps = 2
  MaxPhotos = 2
PROPERTY
  PhotosOnlyWhileInspected
CHECK_DEADLOCK FALSE
