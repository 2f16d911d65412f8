SPECIFICATION Spec
CONSTANTS
  a = a  b = b  s1 = s1   v1 = v1  v2 = v2
  Gone = Gone  NoSave = NoSave  NoAnswer = NoAnswer
  Campus <- Campuses
  Citation <- Citations
  Value <- Values
  SavepointAnytime = FALSE
  MaxWrites = 3
SYMMETRY Alike
INVARIANT Agrees
INVARIANT StaleIsMarked
INVARIANT ReaderSeesTheWrite
CHECK_DEADLOCK FALSE
