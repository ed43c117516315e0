SPECIFICATION Spec
CONSTANTS
  Modems <- OneModem
  Contexts <- RegContexts
  NetStatuses <- RegStatuses
  InterfaceSets <- RegInterfaces
  Replies <- RegReplies
PROPERTY OperatorsReadWhenRegistered
CHECK_DEADLOCK FALSE
