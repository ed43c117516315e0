--------------------------- MODULE MCOfonoBridge ---------------------------
(* Instances of OfonoBridge for TLC: one that follows the SIM and the       *)
(* network, and one that follows the SIM toolkit and the MMS contexts.      *)
EXTENDS OfonoBridge

OneModem == {"m1"}

RegContexts == {}
RegStatuses == {"registered", "denied"}
RegInterfaces == {{}, {"SimManager"}, {"NetworkRegistration"},
                  {"SimManager", "NetworkRegistration"}}
RegReplies == {r \in Reply : r.cm = "error" /\ r.ops # "error" /\ r.stk = "ok"}

CtxContexts == {1, 2}
CtxStatuses == {"registered"}
CtxInterfaces == {{}, {"SimManager"}, {"SimToolkit", "ConnectionManager"},
                  {"SimManager", "SimToolkit", "ConnectionManager"}}
CtxReplies ==
  {r \in Reply : /\ r.ops = "none" /\ r.net # "error" /\ r.sim # "error"
                 /\ r.ctx \in {NoContexts, <<"mms", "mms">>, <<"absent", "mms">>}
                 /\ r.cm # "all" => r.ctx = NoContexts /\ r.stk = "ok"
                 /\ r.stk = "error" => r.ctx = NoContexts}
============================================================================
