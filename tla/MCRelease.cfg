CONSTANTS
  c1 = c1
  c2 = c2
  Clones <- TwoClones
  Versions <- SomeVersions
  First = 1
  MaxCommits = 4
SPECIFICATION Spec
SYMMETRY Swapped
CHECK_DEADLOCK FALSE
INVARIANTS
  TypeOK
  TagsOnBranch
  NothingHalfReleased
PROPERTIES
  PublishedAscend
