SPECIFICATION Spec
CONSTANTS
  Letters = {"a", "b", "E"}
  Files <- MCNulFiles
  Strings <- MCStrings
  Values <- MCValues
  Mark <- MCMark
  Bufsiz = 5
  MaxFiles = 2
  MaxAliases = 3
  MaxCommands = 3
PROPERTIES
  ImplementsStream
