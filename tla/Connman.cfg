SPECIFICATION Spec
CONSTANTS
  Services <- SomeServices
  TypeOf <- SomeTypes
  Technologies <- SomeTechnologies
  MaxMoves = 4
INVARIANT InternetShown
INVARIANT ManagerThere
INVARIANT DefaultsShown
PROPERTY EventuallyShown
CHECK_DEADLOCK FALSE
