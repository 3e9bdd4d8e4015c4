CONSTANTS
  c1 = c1
  f0 = f0
  f1 = f1
  fBad = fBad
  b0 = b0
  b1 = b1
  text = text
  big = big
  nul = nul
  png = png
  other = other
  Fronts <- AllFronts
  Parsing <- GoodFronts
  Bodies <- AllBodies
  Res <- Res1
  Extension <- Extensions
  Data <- AllData
  Size <- Sizes
  Utf8 <- ValidUtf8
  Nul <- WithNul
  Sniffed <- Sniffs
  DirSize = 2
  Calls <- OneCall
  Paths <- InstructionPaths
  SkillPaths <- Spellings
  InvalidPaths <- Invalid
  MaxBytes = 2
  InitDisks <- ShortStarts
  InitSkills <- Nothing
  Docs <- BadDocs
  Entries <- Nothing
  MaxEdits = 1
SPECIFICATION Spec
CHECK_DEADLOCK FALSE
PROPERTIES
  GoneOrUnparsedIsChanged
