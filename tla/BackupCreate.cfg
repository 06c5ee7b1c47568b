\* Two Ctrl-C, and two steps of other hosts or programs.
SPECIFICATION FairSpec
CONSTANTS
  MaxCancels = 2
  MaxOthers = 2
  Directories <- MCDirectories
  MAX_INSPECTED_DIRECTORY_ENTRIES = 10
  MAX_HASHED_PAYLOAD_COUNT = 2
CHECK_DEADLOCK FALSE
INVARIANTS
  EnableIsTruthful
  TruthfulSuccess
  RefusesOnlyUnfinished
  ChangeEvidenceSurvives
  EarlyInterruptPreventsChange
PROPERTIES
  Terminates
