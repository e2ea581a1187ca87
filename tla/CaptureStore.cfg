SPECIFICATION Spec
CONSTANTS
  x = x
  y = y
  Ids <- MCIds
  Limits = {1, 2}
  MaxToken = 2
SYMMETRY Symmetry
INVARIANTS TypeOK NoChangeForgotten WithinLimit
