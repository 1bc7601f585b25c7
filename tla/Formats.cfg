SPECIFICATION Spec
CONSTANTS
  Check = {c1, c2}
  Value = {a, b}
  Absent = Absent
  MaxVersions = 4
  MaxOpen = 2
SYMMETRY MCSymmetry
INVARIANTS
  OneApprovedVersion
PROPERTIES
  ReleasedContentStays
  OnlyEditedChecksChange
CHECK_DEADLOCK FALSE
