SPECIFICATION FairSpec
CONSTANTS
  Letters = {"a", "b", "E"}
  Files <- MCFiles
  Strings <- MCStrings
  Values <- MCValues
  Mark <- MCMark
  Bufsiz = 2
  MaxFiles = 2
  MaxAliases = 3
  MaxCommands = 3
INVARIANTS
  InUseExact
  AtEofExact
PROPERTIES
  ImplementsStream
  ReadingEnds
