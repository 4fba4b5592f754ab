SPECIFICATION RSpec
CONSTANTS
  Files <- MCFiles
  Locales <- MCLocales
  Letters <- MCLetters
  MAX_TOKEN_SIZE = 3
INVARIANTS
  FrontendTypeOK
  OnlySystemErrors
  EndedTextsAreSafe
  TokensAsWritten
  AcceptsTheGrammar
  ScopesFollowBraces
PROPERTY
  TokenizerStops
CHECK_DEADLOCK FALSE
