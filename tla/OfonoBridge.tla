---------------------------- MODULE OfonoBridge ----------------------------
(***************************************************************************)
(* The Bridge of src/src/ofono/provider_ofono.cpp: it holds one D-Bus      *)
(* proxy per oFono object, follows the objects that come and go, and       *)
(* publishes what they say in the namespace "Cellular".                    *)
(*                                                                         *)
(* The whole bridge is one record b.  A member function of the code is an  *)
(* operator that takes the bridge and returns the bridge it leaves behind. *)
(* The environment is open here: any signal a connected proxy can receive  *)
(* may arrive at any time, and the answers to the blocking calls a handler *)
(* makes are an arbitrary reply record r, one record per handler.  The     *)
(* module OfonoSystem closes it with a daemon and its queue of signals.    *)
(***************************************************************************)
EXTENDS Naturals

CONSTANTS Modems,       \* object paths of hardware modems
          Contexts,     \* connection contexts, ordered as their paths are
          NetStatuses,  \* the "Status" strings oFono may report
          InterfaceSets, \* the lists of interfaces a modem may report
          Replies       \* the combinations of answers oFono may give

None == "none"

Interfaces == {"SimManager", "NetworkRegistration", "SimToolkit",
               "ConnectionManager"}

\* enum Status, in its order
StatusOrder == <<"NoSim", "Offline", "Registered", "Searching",
                 "Denied", "Unknown", "Roaming">>
Status == {"NoSim", "Offline", "Registered", "Searching",
           "Denied", "Unknown", "Roaming"}

status_map_ == [unregistered |-> "Offline",   registered |-> "Registered",
                searching    |-> "Searching", denied     |-> "Denied",
                unknown      |-> "Unknown",   roaming    |-> "Roaming"]

map_status(s) == IF s \in DOMAIN status_map_ THEN status_map_[s] ELSE "Offline"

ckit_status_ == [NoSim |-> "no-sim", Offline |-> "offline",
                 Registered |-> "home", Searching |-> "offline",
                 Denied |-> "forbidden", Unknown |-> "offline",
                 Roaming |-> "roam"]

CkitStatus == {"no-sim", "offline", "home", "forbidden", "roam"}

\* std::bitset built from a string: the LAST character is bit 0
status_registered_ ==
  LET literal == <<0, 0, 1, 0, 0, 0, 1>>
  IN  {StatusOrder[i] : i \in {j \in 1..7 : literal[8 - j] = 1}}

ProxyState == {None, "idle", "live"}        \* null, created, and subscribed
ContextKind == {"absent", "plain", "mms"}   \* "mms": of Type mms with a centre

NoContexts == [c \in Contexts |-> "absent"]

defaults_ == [RegistrationStatus |-> "offline", Status |-> "unregistered",
              NetworkName |-> "", Technology |-> "unknown", HomeMCC |-> "0",
              StkIdleModeText |-> "", MMSContext |-> 0,
              DataRoamingAllowed |-> "0"]

Reply == [sim : {"error", "absent", "present"},   \* SimManager.GetProperties
          net : {"error"} \cup NetStatuses,       \* NetworkRegistration, Status
          ops : {"error", "none", "current"},     \* GetOperators
          stk : {"error", "ok"},                  \* SimToolkit.GetProperties
          cm  : {"error", "props", "all"},        \* GetProperties, GetContexts
          ctx : [Contexts -> ContextKind]]

ASSUME BridgeAssumption ==
  /\ None \notin Modems
  /\ Contexts \subseteq Nat \ {0}
  /\ InterfaceSets \subseteq SUBSET Interfaces
  /\ "error" \notin NetStatuses
  /\ Replies \subseteq Reply

VARIABLE b

Published == [RegistrationStatus : CkitStatus, Status : NetStatuses \cup {"unregistered"},
              NetworkName : {"", "net", "op"}, Technology : {"unknown", "lte"},
              HomeMCC : {"0", "244"}, StkIdleModeText : {"", "text"},
              MMSContext : Contexts \cup {0}, DataRoamingAllowed : {"0", "1"}]

Bridge == [manager_ : ProxyState, modem_ : Modems \cup {None},
           interfaces_ : SUBSET Interfaces, sim_ : ProxyState,
           network_ : BOOLEAN, operator_ : BOOLEAN, stk_ : ProxyState,
           connectionManager_ : BOOLEAN,
           connectionContexts_ : [Contexts -> ContextKind],
           mmsContext_ : Contexts \cup {0}, has_sim_ : BOOLEAN,
           status_ : Status, network_name_ : [first : {"", "net"},
                                              second : {"", "op"}],
           pub : Published]

----------------------------------------------------------------------------
(* Published names and the MMS context.                                    *)

set_name(x) ==
  [x EXCEPT !.pub.NetworkName = IF x.network_name_.first # ""
                                THEN x.network_name_.first
                                ELSE x.network_name_.second]

set_network_name(x, n) == set_name([x EXCEPT !.network_name_.first = n])
set_operator_name(x, n) == set_name([x EXCEPT !.network_name_.second = n])

\* mutant: the iterator is read after the loop, the end of the map included
first_mms_end(ctx) ==
  LET mms == {c \in Contexts : ctx[c] = "mms"}
  IN  IF mms = {} THEN 1 + CHOOSE c \in Contexts : \A d \in Contexts : d <= c
      ELSE CHOOSE c \in mms : \A d \in mms : c <= d

\* the first context, in the order of their paths, that can carry MMS
first_mms(ctx) ==
  LET mms == {c \in Contexts : ctx[c] = "mms"}
  IN  IF mms = {} THEN 0 ELSE CHOOSE c \in mms : \A d \in mms : c <= d

update_mms_context(x) ==
  LET m == first_mms(x.connectionContexts_)
  IN  [x EXCEPT !.mmsContext_ = m, !.pub.MMSContext = m]

resetProperties(x, no_sim) ==
  [x EXCEPT !.pub = [defaults_ EXCEPT !.RegistrationStatus =
                                        IF no_sim THEN "no-sim" ELSE @]]

----------------------------------------------------------------------------
(* set_status calls setup_sim, setup_network and enumerate_operators, which *)
(* call set_status again.  The second call never gets as far as a third:    *)
(* it is made with status_ already in status_registered_ and can only leave *)
(* that set, or stay.  So the functions below take set_status as a          *)
(* parameter, assign_status is the innermost one, and set_status the whole. *)

\* mutant: a status is accepted whether there is a SIM or not
assign_status_unguarded(x, s) ==
  IF s = x.status_ THEN x
  ELSE [x EXCEPT !.status_ = s,
                 !.has_sim_ = IF s = "NoSim" THEN FALSE ELSE @,
                 !.pub.RegistrationStatus = ckit_status_[s]]

\* mutant: the word of the status is published before the status changes
assign_status_late(x, s) ==
  LET new == IF x.has_sim_ THEN s ELSE "NoSim"
  IN  IF s = x.status_ \/ new = x.status_ THEN x
      ELSE [x EXCEPT !.status_ = new,
                     !.has_sim_ = IF new = "NoSim" THEN FALSE ELSE @,
                     !.pub.RegistrationStatus = ckit_status_[x.status_]]

\* 375-402: every assignment of set_status
assign_status(x, s) ==
  LET new == IF x.has_sim_ THEN s ELSE "NoSim"
  IN  IF s = x.status_ \/ new = x.status_ THEN x
      ELSE [x EXCEPT !.status_ = new,
                     !.has_sim_ = IF new = "NoSim" THEN FALSE ELSE @,
                     !.pub.RegistrationStatus = ckit_status_[new]]

BecameRegistered(x, y) ==
  y.status_ \in status_registered_ /\ x.status_ \notin status_registered_

reset_network_by(SetStatus(_, _), x) ==
  LET y == SetStatus([x EXCEPT !.operator_ = FALSE, !.network_ = FALSE],
                     "Offline")
  IN  resetProperties(y, ~y.has_sim_)

\* map_exec(net_property_actions_, n, this, v)
net_action(SetStatus(_, _), x, n, v) ==
  CASE n = "Name"       -> set_network_name(x, v)
    [] n = "Status"     -> SetStatus([x EXCEPT !.pub.Status = v], map_status(v))
    [] n = "Technology" -> [x EXCEPT !.pub.Technology = v]

\* the lambda "update" of setup_network
net_update_by(SetStatus(_, _), x, n, v) ==
  net_action(SetStatus,
             IF x.has_sim_ THEN x ELSE reset_network_by(SetStatus, x), n, v)

\* GetProperties returns a QVariantMap: its keys are visited in this order
net_read_by(SetStatus(_, _), x, status) ==
  LET y == net_update_by(SetStatus, x, "Name", "net")
      z == net_update_by(SetStatus, y, "Status", status)
  IN  net_update_by(SetStatus, z, "Technology", "lte")

setup_network_by(SetStatus(_, _), x, r) ==
  LET y == [x EXCEPT !.network_ = TRUE]
  IN  IF r.net = "error" THEN y ELSE net_read_by(SetStatus, y, r.net)

\* the lambda "update" of setup_stk
stk_update(x) ==
  IF x.has_sim_ THEN [x EXCEPT !.pub.StkIdleModeText = "text"]
  ELSE [x EXCEPT !.stk_ = None, !.pub.StkIdleModeText = ""]

setup_stk(x, r) ==
  LET y == [x EXCEPT !.stk_ = "idle"]
      z == stk_update(y)
  IN  IF r.stk = "error" THEN y
      ELSE IF z.stk_ = None THEN z ELSE [z EXCEPT !.stk_ = "live"]

\* mutant: the text of the card stays
reset_stk_silent(x) == [x EXCEPT !.stk_ = None]

reset_stk(x) == [x EXCEPT !.stk_ = None, !.pub.StkIdleModeText = ""]

\* the lambda "update" of setup_sim, for the property Present
sim_present_by(SetStatus(_, _), x, present) ==
  LET y == [x EXCEPT !.has_sim_ = present]
  IN  CASE present /\ x.network_  -> y
        [] present /\ ~x.network_ -> SetStatus(y, "Offline")
        [] ~present               -> SetStatus(y, "NoSim")

sim_mcc(x) == [x EXCEPT !.pub.HomeMCC = "244"]

setup_sim_by(SetStatus(_, _), x, r) ==
  LET y == [x EXCEPT !.sim_ = "idle"]
      z == IF r.sim = "present"
           THEN sim_present_by(SetStatus, sim_mcc(y), TRUE)
           ELSE sim_present_by(SetStatus, y, FALSE)
      connected == [z EXCEPT !.sim_ = "live"]
  IN  CASE r.sim = "error" -> y
        [] r.sim # "error" /\ "SimToolkit" \in z.interfaces_
             -> setup_stk(connected, r)
        [] r.sim # "error" /\ "SimToolkit" \notin z.interfaces_ -> connected

\* setup_operator of the operator that is "current"; the lambda "update"
\* drops the network when there is no SIM, and applies the name all the same
operator_update_by(SetStatus(_, _), x) ==
  set_operator_name(IF x.sim_ = None THEN reset_network_by(SetStatus, x) ELSE x,
                    "op")

enumerate_operators(x, r) ==
  IF x.network_ /\ r.ops = "current"
  THEN operator_update_by(assign_status, [x EXCEPT !.operator_ = TRUE])
  ELSE x

\* mutant: the word of the status is published after the proxies are set up
set_status_last(x, s, r) ==
  LET y == assign_status(x, s)
      z == IF ~BecameRegistered(x, y) \/ y.modem_ = None THEN y
           ELSE IF y.sim_ = None THEN setup_sim_by(assign_status, y, r)
           ELSE IF ~y.network_ THEN setup_network_by(assign_status, y, r)
           ELSE enumerate_operators(y, r)
  IN  IF y = x THEN x
      ELSE [z EXCEPT !.pub.RegistrationStatus = ckit_status_[y.status_]]

set_status(x, s, r) ==
  LET y == assign_status(x, s)
  IN  IF ~BecameRegistered(x, y) \/ y.modem_ = None THEN y
      ELSE IF y.sim_ = None THEN setup_sim_by(assign_status, y, r)
      ELSE IF ~y.network_ THEN setup_network_by(assign_status, y, r)
      ELSE enumerate_operators(y, r)

----------------------------------------------------------------------------
(* The member functions, with the whole set_status.                        *)

setup_sim(x, r) == setup_sim_by(LAMBDA y, s : set_status(y, s, r), x, r)
setup_network(x, r) == setup_network_by(LAMBDA y, s : set_status(y, s, r), x, r)
reset_network(x, r) == reset_network_by(LAMBDA y, s : set_status(y, s, r), x)

\* mutant: the operator's proxy is not dropped
reset_sim_operator(x, r) ==
  resetProperties(set_status([x EXCEPT !.network_ = FALSE, !.sim_ = None],
                             "NoSim", r), TRUE)

reset_sim(x, r) ==
  resetProperties(set_status([x EXCEPT !.operator_ = FALSE, !.network_ = FALSE,
                                       !.sim_ = None], "NoSim", r), TRUE)

\* mutant: the MMS context is not computed again
reset_connectionManager_stale(x) ==
  [x EXCEPT !.connectionManager_ = FALSE, !.connectionContexts_ = NoContexts]

reset_connectionManager(x) ==
  update_mms_context([x EXCEPT !.connectionManager_ = FALSE,
                               !.connectionContexts_ = NoContexts])

\* contexts that were cached before a repeated set-up stay in the map
setup_connectionManager(x, r) ==
  LET y == [x EXCEPT !.connectionManager_ = TRUE]
      z == [y EXCEPT !.pub.DataRoamingAllowed = "1"]
      ctx == [c \in Contexts |-> IF r.ctx[c] = "absent"
                                 THEN x.connectionContexts_[c] ELSE r.ctx[c]]
  IN  CASE r.cm = "error" -> y
        [] r.cm = "props" -> z
        [] r.cm = "all"   -> IF r.ctx = NoContexts THEN z
                             ELSE update_mms_context(
                                    [z EXCEPT !.connectionContexts_ = ctx])

\* mutant: the modem goes last, so that set_status may still set up its SIM
reset_modem_last(x, r) ==
  [reset_sim(reset_connectionManager(x), r) EXCEPT !.modem_ = None]

reset_modem(x, r) ==
  reset_sim(reset_connectionManager([x EXCEPT !.modem_ = None]), r)

\* get_state_change(interfaces_, interfaces, id)
IsSet(x, ifs, id) == id \notin x.interfaces_ /\ id \in ifs
IsReset(x, ifs, id) == id \in x.interfaces_ /\ id \notin ifs

process_network(x, ifs, r) ==
  IF IsReset(x, ifs, "NetworkRegistration") THEN reset_network(x, r)
  ELSE IF IsSet(x, ifs, "NetworkRegistration") THEN setup_network(x, r) ELSE x

process_stk(x, ifs, r) ==
  IF IsSet(x, ifs, "SimToolkit") THEN setup_stk(x, r)
  ELSE IF IsReset(x, ifs, "SimToolkit") THEN reset_stk(x) ELSE x

process_cm(x, ifs, r) ==
  IF IsSet(x, ifs, "ConnectionManager") THEN setup_connectionManager(x, r)
  ELSE IF IsReset(x, ifs, "ConnectionManager") THEN reset_connectionManager(x)
  ELSE x

\* mutant: the early return forgets the new interfaces
process_interfaces_forgetful(x, ifs, r) ==
  IF IsReset(x, ifs, "SimManager") /\ x.sim_ # None THEN reset_sim(x, r)
  ELSE LET y == IF IsSet(x, ifs, "SimManager") THEN setup_sim(x, r) ELSE x
       IN  [process_cm(process_stk(process_network(y, ifs, r), ifs, r), ifs, r)
              EXCEPT !.interfaces_ = ifs]

\* losing SimManager returns early: the other interfaces are not looked at
process_interfaces(x, ifs, r) ==
  LET sim_lost == IsReset(x, ifs, "SimManager") /\ x.sim_ # None
      y == IF IsSet(x, ifs, "SimManager") THEN setup_sim(x, r) ELSE x
      rest == process_cm(process_stk(process_network(y, ifs, r), ifs, r), ifs, r)
  IN  [(IF sim_lost THEN reset_sim(x, r) ELSE rest) EXCEPT !.interfaces_ = ifs]

modem_powered(x, powered, r) ==
  IF ~powered /\ x.sim_ = None THEN reset_sim(x, r) ELSE x

\* mutant: only later changes of the modem's properties are followed
setup_modem_unread(x, m, ifs, powered, r) == [x EXCEPT !.modem_ = m]

\* of a hardware modem; "Interfaces" precedes "Powered" in the map
setup_modem(x, m, ifs, powered, r) ==
  modem_powered(process_interfaces([x EXCEPT !.modem_ = m], ifs, r), powered, r)

----------------------------------------------------------------------------
(* One action per event the bridge's event loop delivers.                  *)

InitBridge ==
  [manager_ |-> None, modem_ |-> None, interfaces_ |-> {}, sim_ |-> None,
   network_ |-> FALSE, operator_ |-> FALSE, stk_ |-> None,
   connectionManager_ |-> FALSE, connectionContexts_ |-> NoContexts,
   mmsContext_ |-> 0, has_sim_ |-> FALSE, status_ |-> "Unknown",
   network_name_ |-> [first |-> "", second |-> ""], pub |-> defaults_]

Init == b = InitBridge

\* connect_manager when GetModems fails or lists nothing: nobody listens to
\* ModemAdded.  It also runs when the owner of the name changes.
ConnectManagerNoModem == b' = [b EXCEPT !.manager_ = "idle"]

\* connect_manager when GetModems lists modems, none of them hardware
ConnectManagerOtherModem == b' = [b EXCEPT !.manager_ = "live"]

\* connect_manager when one of the modems is hardware
connect_manager(x, m, ifs, powered, r) ==
  [setup_modem(x, m, ifs, powered, r) EXCEPT !.manager_ = "live"]

ConnectManager ==
  \E m \in Modems, ifs \in InterfaceSets, powered \in BOOLEAN, r \in Replies :
    b' = connect_manager(b, m, ifs, powered, r)

\* the proxies of the objects, the status and the interfaces are kept
reset_manager(x) == resetProperties([x EXCEPT !.manager_ = None], FALSE)

ResetManager == b' = reset_manager(b)

ModemAdded ==
  /\ b.manager_ = "live"
  /\ \E m \in Modems, ifs \in InterfaceSets, powered \in BOOLEAN, r \in Replies :
       b' = setup_modem(b, m, ifs, powered, r)

ModemRemoved ==
  /\ b.manager_ = "live"
  /\ b.modem_ # None
  /\ \E r \in Replies : b' = reset_modem(b, r)

InterfacesChanged ==
  /\ b.modem_ # None
  /\ \E ifs \in InterfaceSets, r \in Replies : b' = process_interfaces(b, ifs, r)

PoweredChanged ==
  /\ b.modem_ # None
  /\ \E powered \in BOOLEAN, r \in Replies : b' = modem_powered(b, powered, r)

SimPresentChanged ==
  /\ b.sim_ = "live"
  /\ \E present \in BOOLEAN, r \in Replies :
       b' = sim_present_by(LAMBDA x, s : set_status(x, s, r), b, present)

SimMccChanged ==
  /\ b.sim_ = "live"
  /\ b' = sim_mcc(b)

net_update(x, n, v, r) ==
  net_update_by(LAMBDA y, s : set_status(y, s, r), x, n, v)

NetworkNameChanged ==
  /\ b.network_
  /\ \E n \in {"", "net"}, r \in Replies : b' = net_update(b, "Name", n, r)

NetworkStatusChanged ==
  /\ b.network_
  /\ \E s \in NetStatuses, r \in Replies : b' = net_update(b, "Status", s, r)

NetworkTechnologyChanged ==
  /\ b.network_
  /\ \E r \in Replies : b' = net_update(b, "Technology", "lte", r)

OperatorNameChanged ==
  /\ b.operator_
  /\ \E r \in Replies :
       b' = operator_update_by(LAMBDA x, s : set_status(x, s, r), b)

StkTextChanged ==
  /\ b.stk_ = "live"
  /\ b' = stk_update(b)

RoamingAllowedChanged ==
  /\ b.connectionManager_
  /\ \E v \in {"0", "1"} : b' = [b EXCEPT !.pub.DataRoamingAllowed = v]

ContextAdded ==
  /\ b.connectionManager_
  /\ \E c \in Contexts, k \in ContextKind \ {"absent"} :
       b' = update_mms_context([b EXCEPT !.connectionContexts_[c] = k])

ContextRemoved ==
  /\ b.connectionManager_
  /\ \E c \in Contexts :
       b' = update_mms_context([b EXCEPT !.connectionContexts_[c] = "absent"])

\* a signal of the context's own proxy, which lives in the map's entry
ContextChanged ==
  \E c \in Contexts, k \in ContextKind \ {"absent"} :
    /\ b.connectionContexts_[c] # "absent"
    /\ b' = update_mms_context([b EXCEPT !.connectionContexts_[c] = k])

Next ==
  \/ ConnectManagerNoModem
  \/ ConnectManagerOtherModem
  \/ ConnectManager
  \/ ResetManager
  \/ ModemAdded
  \/ ModemRemoved
  \/ InterfacesChanged
  \/ PoweredChanged
  \/ SimPresentChanged
  \/ SimMccChanged
  \/ NetworkNameChanged
  \/ NetworkStatusChanged
  \/ NetworkTechnologyChanged
  \/ OperatorNameChanged
  \/ StkTextChanged
  \/ RoamingAllowedChanged
  \/ ContextAdded
  \/ ContextRemoved
  \/ ContextChanged

Spec == Init /\ [][Next]_b
----------------------------------------------------------------------------
(* Properties.                                                             *)

TypeOK == b \in Bridge

\* Without a SIM the bridge knows no network status: has_sim_ is cleared by
\* set_status, by Present and by nothing else, status_ must follow (375-388).
NoSimStatus == ~b.has_sim_ => b.status_ \in {"NoSim", "Unknown"}

\* When the modem is gone the proxies of its SIM, its network, its operator and
\* its connection manager are gone, although reset_modem reaches set_status,
\* which creates proxies (435-452).  That of the SIM toolkit stays: neither
\* reset_modem nor reset_sim resets stk_.
NoModemNoProxies ==
  b.modem_ = None => /\ b.sim_ = None
                     /\ ~b.network_
                     /\ ~b.operator_
                     /\ ~b.connectionManager_
                     /\ b.mmsContext_ = 0

\* An operator's proxy never outlives the network registration it was
\* enumerated from, nor the SIM: operator_ is reset before network_ (444-459).
OperatorOwners == b.operator_ => b.network_ /\ b.sim_ # None

\* The SIM's and the toolkit's data are shown only while their proxies exist:
\* whoever drops a proxy also takes back what it published (444-469).
PublishedOwners ==
  /\ b.pub.HomeMCC # defaults_.HomeMCC => b.sim_ # None
  /\ b.pub.StkIdleModeText # defaults_.StkIdleModeText => b.stk_ # None

\* A user is never shown "home", "roam" or "forbidden" unless there is a SIM
\* and that is the status the bridge holds (375-402, 818-823).
RegistrationHonest ==
  b.pub.RegistrationStatus \in {"home", "roam", "forbidden"} =>
    b.has_sim_ /\ b.pub.RegistrationStatus = ckit_status_[b.status_]

\* The MMS context shown is one the connection manager still has, the first of
\* those that can carry MMS, whatever was added, changed or removed (421-433).
MmsContextLive ==
  /\ ~b.connectionManager_ => b.connectionContexts_ = NoContexts
  /\ b.mmsContext_ = first_mms(b.connectionContexts_)
  /\ b.pub.MMSContext \in {0, b.mmsContext_}

\* A step that changes the status shows the new one, or "no-sim" when it ends
\* by resetting the SIM, even when set_status ran twice in it (375-419).
StatusChangesShown ==
  [][b'.status_ # b.status_ =>
       b'.pub.RegistrationStatus \in {ckit_status_[b'.status_], "no-sim"}]_b

\* What the log calls "Registered" (406) is the status "home" or "roam": the
\* operators are then enumerated (407-416).  The code does not do that.
OperatorsReadWhenRegistered ==
  [][~b.operator_ /\ b'.operator_ => b'.status_ \in {"Registered", "Roaming"}]_b

\* Resetting "cellular network properties" (456) leaves alone the home network
\* of a SIM that stays.  The code resets every property of the namespace.
NetworkResetKeepsSim ==
  [][b.network_ /\ ~b'.network_ /\ b.sim_ = "live" /\ b'.sim_ = "live"
       /\ b.has_sim_ /\ b'.has_sim_ => b'.pub.HomeMCC = b.pub.HomeMCC]_b
============================================================================
