SPECIFICATION Spec
CONSTANTS
  Modems <- OneModem
  Contexts <- RegContexts
  NetStatuses <- RegStatuses
  InterfaceSets <- RegInterfaces
  Replies <- RegReplies
INVARIANT NoSimStatus
INVARIANT NoModemNoProxies
INVARIANT OperatorOwners
INVARIANT RegistrationHonest
PROPERTY StatusChangesShown
CHECK_DEADLOCK FALSE
