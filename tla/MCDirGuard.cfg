CONSTANTS
  Places <- AllPlaces
  Trees <- AllTrees
  Nodes <- AllNodes
  Arguments <- Given
  Names <- AllNames
  SkillFiles <- TheSkillFile
  MaxHops = 4
  MaxEdits = 1
SPECIFICATION Spec
CHECK_DEADLOCK FALSE
INVARIANTS
  TypeOK
  StillContained
  RefusedLeadsOut
  ListedIsServed
