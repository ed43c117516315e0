SPECIFICATION Spec
CONSTANTS
  Modems <- OneModem
  Contexts <- CtxContexts
  NetStatuses <- CtxStatuses
  InterfaceSets <- CtxInterfaces
  Replies <- CtxReplies
INVARIANT TypeOK
INVARIANT PublishedOwners
INVARIANT MmsContextLive
CHECK_DEADLOCK FALSE
