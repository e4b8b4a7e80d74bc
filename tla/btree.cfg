SPECIFICATION Spec
CONSTANTS
  KeyValues <- KeysTo10
  t = 2
  MaxUnordered = 5
INVARIANTS WellFormed HoldsKeysInOrder
CHECK_DEADLOCK FALSE
