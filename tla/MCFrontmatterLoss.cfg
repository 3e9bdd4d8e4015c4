CONSTANTS
  Files <- TwiceFiles
  DirNames <- Directories
  BadRules <- Unparsed
  MaxNameLength = 4
  MaxDescriptionLength = 2
  MaxCompatibilityLength = 2
  MaxBodyLines = 2
SPECIFICATION Spec
CHECK_DEADLOCK FALSE
INVARIANTS
  EncodeLosesNothing
