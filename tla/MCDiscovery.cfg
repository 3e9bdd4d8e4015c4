CONSTANTS
  name1 = name1
  name2 = name2
  qual = qual
  Segments <- Segs
  SourceLists <- AllSources
  Dirs <- TwoDirs
  Children <- AllChildren
  Trees <- StartTrees
  EditedLists <- EditedSources
  Edits <- EditedChildren
  Findings <- Reported
SPECIFICATION Spec
CHECK_DEADLOCK FALSE
INVARIANTS
  TypeOK
  NamesUnique
  PathResolution
  ShadowedByHolder
  ColonMeansQualified
  LocationsDistinct
  Accounted
  SpelledAsListed
PROPERTIES
  ProblemsStand
  NothingVanishes
