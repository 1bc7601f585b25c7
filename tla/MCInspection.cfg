SPECIFICATION Spec
CONSTANTS
  i1 = i1
  i2 = i2
  t1 = t1
  t2 = t2
  inCharge = inCharge
  head = head
  Inspector = {i1, i2}
  InCharge = {inCharge, head}
  IqcHead = {head}
  Device = {t1, t2}
  Sample = {"s1", "s2"}
  AcceptNo = 0
  MaxSteps = 4
SYMMETRY Interchangeable
INVARIANTS
  TypeOK
  SubmittedResultIsOfReadings
PROPERTIES
  InformedReview
  ImplementsLotCard
CHECK_DEADLOCK FALSE
