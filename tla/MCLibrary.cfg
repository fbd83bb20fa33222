SPECIFICATION FrontSpec
CHECK_DEADLOCK FALSE
CONSTANTS
  CharBits = 4
  ShortBits = 6
  LongBits = 8
  MaxBits = 12
  T = 3
  STACKSIZE = 64
  Strings <- MCStrings
  Conversions <- MCConversions
  Prints <- MCPrints
  Scans <- MCScans
  Sorts <- MCSorts
  Lexed <- MCLexed
  TypeNames = {"int"}
  Word = 16
  Identifiers = {"a", "A", "B", "C", "E", "F", "G", "H", "x", "y"}
  Atoi <- MCAtoi
  IncludePath <- MCIncludePath
  Expressions <- MCExpressions
  Expansions <- MCExpansions
  Units <- MCUnits
INVARIANTS
  StringsExact
  ConversionsExact
  PrintsExact
  ScansExact
  SortsExact
  LexesAsWritten
  ExpressionsAsC
  PreprocessesAsC
