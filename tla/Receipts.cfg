\* Others act between any two system calls but the last of commit and abort.
SPECIFICATION Spec
CONSTANTS
  n1 = n1
  n2 = n2
  n3 = n3
  Inodes <- MCInodes
  NoInode = none
  Quiet <- UnlinkWindow
  MaxMeddling = 3
SYMMETRY Symmetry
CHECK_DEADLOCK FALSE
INVARIANTS
  IdentityIsTheFile
PROPERTIES
  LeavesOthersAlone
  StartedEvidenceSurvives
  CommittedIsWhole
  ImplementsContract
