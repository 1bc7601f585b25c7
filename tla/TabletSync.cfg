SPECIFICATION SyncSpec
CONSTANTS
  Inspector = {"asha", "ravi"}
  InCharge = {}
  IqcHead = {}
  Device = {"tab", "other"}
  Tablet = "tab"
  Sample = {"s1"}
  Value = {"OK"}
  WebInspector = {"ravi"}
  WebValue = {"OK"}
  AcceptNo = 0
  MaxSteps = 1
  Request = {1, 2}
  MaxEntries = 2
  MaxLosses = 1
INVARIANTS
  EntriesAccountedFor
  AcceptedTookEffect
  CreditedToRecorder
  LotStaysAsTaken
PROPERTIES
  DecidedInOrder
  EntriesGetSent
CHECK_DEADLOCK FALSE
