CONSTANTS
  LitKind <- MCLitKind
  Chars <- MCChars
  MaxNesting = 2
  Content <- MCContent
  Rank <- MCRank
  EmptyDirs <- MCEmptyDirs
  Versions <- MCVersions
  MaxEdits = 2
  DevUi = TRUE
  Workers <- MCWorkers
  MaxRequests = 2
  MaxEvents = 2
  StackLimit = 5
  Dashes <- MCDashes
  Number <- MCNumber
  Projects <- MCProjects
  CommandLines <- MCCommandLines
SPECIFICATION Spec
CHECK_DEADLOCK FALSE
INVARIANTS
  DevCleansUp
  BuildRight
  RoutesRight
  ServicesRight
  WordsUsedOnce
PROPERTIES
  CatchesUp
  ComponentsRight
