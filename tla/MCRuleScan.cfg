CONSTANTS
  MaxLength = 6
  Chars <- Letters
  Inputs <- Fields
SPECIFICATION Spec
CHECK_DEADLOCK FALSE
INVARIANTS
  TypeOK
  SlicesInRange
  TokensBegin
  UnmatchedFoundFirst
  RulesReadGrammar
