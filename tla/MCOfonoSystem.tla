--------------------------- MODULE MCOfonoSystem ---------------------------
(* An instance of OfonoSystem for TLC: one modem, one context, and answers  *)
(* that are exactly the snapshots its daemon can give.                      *)
EXTENDS OfonoSystem

OneModem == {"m1"}
OneContext == {1}
SomeStatuses == {"registered", "denied", "unregistered"}
SomeInterfaces ==
  {{}, {"SimManager"},
   {"SimManager", "NetworkRegistration"},
   {"SimManager", "NetworkRegistration", "SimToolkit", "ConnectionManager"}}
Snapshots ==
  {r \in Reply : /\ (r.sim = "error" \/ r.net = "error") => r.stk = "error"
                 /\ r.net = "error" <=> r.ops = "error"
                 /\ r.ops # "none"
                 /\ r.stk = "error" <=> r.cm = "error"
                 /\ r.cm # "props"
                 /\ r.cm = "error" => r.ctx = NoContexts
                 /\ r.ctx[1] # "plain"}
AllMoves == {"restart", "modem", "power", "sim", "online", "net", "context"}
============================================================================
