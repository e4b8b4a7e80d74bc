SPECIFICATION Spec
CONSTANTS
  KeyValues <- KeysTo10
  t = 2
  MaxUnordered = 5
INVARIANTS CannotDelMeansAbsent
CHECK_DEADLOCK FALSE
