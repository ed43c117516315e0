SPECIFICATION Spec
CONSTANTS
  Modems <- OneModem
  Contexts <- RegContexts
  NetStatuses <- RegStatuses
  InterfaceSets <- RegInterfaces
  Replies <- RegReplies
PROPERTY NetworkResetKeepsSim
CHECK_DEADLOCK FALSE
