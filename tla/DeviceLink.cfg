\* Two names, requests of up to two items, and two steps of others.
SPECIFICATION Spec
CONSTANTS
  a = a
  b = b
  Names <- MCNames
  MAX_DIRECTORY_ENTRIES = 2
  MaxItems = 2
  MaxOthers = 2
SYMMETRY Symmetry
CHECK_DEADLOCK FALSE
INVARIANTS
  LinkInv
PROPERTIES
  Confined
  TruthfulAnswers
