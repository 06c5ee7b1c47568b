\* Every answer of up to three entries.
SPECIFICATION Spec
CONSTANTS
  Answers <- MCAnswers
CHECK_DEADLOCK FALSE
INVARIANTS
  TypeOK
  FailsClosed
  ComputesInspectApp
  LoopInv
