\* A complete app of five members and up to two more, payloads of up to four
\* bytes in chunks of two.
SPECIFICATION FairSpec
CONSTANTS
  Archives <- MCArchives
  Parts <- MCParts
  Fold <- MCFold
  AppNames = {"A.app", "a.app", "B.app"}
  Executables = {"X"}
  SinfOf <- MCSinfOf
  BundleIds = {"x", "z"}
  StoreIds = {"1", "2"}
  MAX_IPA_BYTES = 40
  MAX_ZIP_ENTRIES = 7
  MAX_CENTRAL_DIRECTORY_BYTES = 9
  MAX_EXPANDED_BYTES = 10
  MAX_COMPRESSION_RATIO = 3
  MAX_PLIST_BYTES = 2
  MAX_SINF_BYTES = 2
  INTEGRITY_CHUNK = 2
  Corrupt = 9
CHECK_DEADLOCK FALSE
INVARIANTS
  AcceptsExactly
  ExpandsOnlyBounded
PROPERTIES
  AlwaysAdvances
  Terminates
