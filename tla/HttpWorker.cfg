SPECIFICATION Spec
CONSTANTS
  Routes <- MCRoutes
  Requests <- MCRequests
  MaxRoutes = 3
  HdrBuf = 9
  Size <- MCSize
  NoErr = NoErr
  NoHandler = NoHandler
INVARIANTS
  AnswersRight
  Independent
