\* A reservation somebody wrote to, and an operation that fails.
SPECIFICATION Spec
CONSTANTS
  n1 = n1
  n2 = n2
  n3 = n3
  Inodes <- MCInodes
  NoInode = none
  Quiet <- UnlinkWindow
  MaxMeddling = 3
SYMMETRY Symmetry
CHECK_DEADLOCK FALSE
PROPERTIES
  RemovesOnlyUnchanged
