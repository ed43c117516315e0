SPECIFICATION Spec
CONSTANTS
  Services <- OneService
  TypeOf <- OneType
  Technologies <- NoTechnologies
  MaxMoves = 4
INVARIANT RestartShown
CHECK_DEADLOCK FALSE
