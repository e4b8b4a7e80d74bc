SPECIFICATION FairSpec
CONSTANTS
  Cells = {1, 2, 3, 4, 5, 6, 7, 8}
  KeyValues = {1, 2, 3, 4, 5, 6, 7, 8}
VIEW View
INVARIANTS WellFormed RedBlack
PROPERTIES CallsReturn
