------------------------------ MODULE Connman ------------------------------
(***************************************************************************)
(* The Bridge of src/src/connman/provider_connman.cpp and the ConnMan      *)
(* daemon it mirrors.                                                      *)
(*                                                                         *)
(* A handler is the list todo of what it has left to do.  A blocking call  *)
(* and what the bridge makes of its reply are one step; the daemon may     *)
(* change before the next one.  The bridge subscribes to a service, and to *)
(* a technology, only after it has read it: a change in between is never   *)
(* heard, and missed records it.                                           *)
(***************************************************************************)
EXTENDS SequencesExt, Signals

CONSTANTS Services,     \* paths of services
          TypeOf,       \* [Services -> the "Type" strings of ConnMan]
          Technologies, \* paths of technologies, one of each type
          MaxMoves      \* how many changes the daemon makes before it is quiet

None == "none"

ASSUME ConnmanAssumption == /\ IsFiniteSet(Services) /\ IsFiniteSet(Technologies)
                            /\ None \notin Services \cup Technologies
                            /\ TypeOf \in [Services -> STRING]
                            /\ MaxMoves \in Nat

VARIABLES manager_,             \* None, "idle" (not connected) or "live"
          service_, current_service_, technologies_, tethering_,
          pub, todo,            \* what is published; the running handler
          up, services, online, techs, sharing,     \* the daemon
          restarted,            \* it has restarted
          missed,               \* a change fell between a read and its connect
          moves, q              \* the changes so far; signals on their way

bridge == <<manager_, service_, current_service_, technologies_, tethering_, pub, todo>>
daemon == <<up, services, online, techs, sharing, restarted, moves>>
vars == <<bridge, daemon, missed, q>>

net_type_map_ == [wifi |-> "WLAN", gprs |-> "GPRS", cellular |-> "GPRS",
                  edge |-> "GPRS", umts |-> "GPRS", ethernet |-> "ethernet"]

net_type(t) == IF t \in DOMAIN net_type_map_ THEN net_type_map_[t] ELSE ""

defaults_ == [NetworkType |-> "", NetworkState |-> "disconnected",
              NetworkName |-> "", Tethering |-> {}]

\* the first service of a listing that is online
first_online(listing, on) ==
  LET where == {i \in 1..Len(listing) : listing[i] \in on}
  IN  IF where = {} THEN None
      ELSE listing[CHOOSE i \in where : \A j \in where : i <= j]

----------------------------------------------------------------------------
(* Signals are received by the proxies, and lost with them.                *)

Signal(on, path, val) == [on |-> on, path |-> path, val |-> val]
ToManager == {"State", "TechnologyAdded", "TechnologyRemoved",
              "ServicesAdded", "ServicesRemoved"}

Subscribed(m, s, ts, x) == CASE x.on \in ToManager      -> m = "live"
                             [] x.on = "ServiceState"   -> s = x.path
                             [] x.on = "Tethering"      -> x.path \in ts
                             [] x.on \in {"Registered", "Unregistered"} -> TRUE

\* the news of the technology t that wait in q are older than its Tethering
Announced(t) == \E i \in 1..Len(q) : q[i].on = "TechnologyAdded" /\ q[i].path = t

\* the bridge has read what x changes and has still to connect to it
Missing(x) ==
  \/ \E i \in 1..Len(todo) :
       \/ todo[i].do = "connect" /\ x.on = "ServiceState" /\ todo[i].arg = x.path
       \/ todo[i].do = "follow" /\ x.on = "Tethering" /\ todo[i].arg = x.path
       \/ todo[i].do = "listen" /\ x.on \in ToManager
  \/ x.on = "Tethering" /\ x.path \notin technologies_ /\ Announced(x.path)

Hear(s, x) == IF Subscribed(manager_, service_, technologies_, x) THEN Append(s, x) ELSE s

Send(x) == q' = Hear(q, x) /\ missed' = (missed \/ Missing(x))

Send2(x, y) == q' = Hear(Hear(q, x), y) /\ missed' = (missed \/ Missing(x) \/ Missing(y))

----------------------------------------------------------------------------
(* The bridge, one step of the running handler at a time.                  *)

Step(do, arg) == [do |-> do, arg |-> arg]
Doing(do) == todo # <<>> /\ Head(todo).do = do
arg == Head(todo).arg

process_state(state) ==
  IF state = "online" THEN <<Step("services", None), Step("technologies", None)>>
  ELSE <<Step("reset", None)>>

ResetProperties == /\ Doing("reset")
                   /\ pub' = defaults_
                   /\ todo' = Tail(todo)
                   /\ UNCHANGED <<manager_, service_, current_service_, technologies_,
                                  tethering_, daemon, missed, q>>

State == IF online = {} THEN "idle" ELSE "online"

\* init_manager: GetProperties, and then process_manager_props
GetProperties == /\ Doing("init")
                 /\ todo' = IF up THEN <<Step("listen", State)>> ELSE <<>>
                 /\ UNCHANGED <<manager_, service_, current_service_, technologies_,
                                tethering_, pub, daemon, missed, q>>

Listen == /\ Doing("listen")
          /\ manager_' = "live"
          /\ todo' = process_state(arg)
          /\ UNCHANGED <<service_, current_service_, technologies_, tethering_,
                         pub, daemon, missed, q>>

\* process_services, up to the point where process_service connects: nothing
\* is published when there are services and none is online
ProcessServices ==
  LET s == first_online(services, online)
  IN  /\ Doing("services")
      /\ service_' = None
      /\ q' = Without(q, {"ServiceState"})
      /\ UNCHANGED <<manager_, technologies_, tethering_, daemon, missed>>
      /\ IF up /\ s # None
         THEN /\ current_service_' = s
              /\ pub' = [NetworkType |-> net_type(TypeOf[s]), NetworkState |-> "connected",
                         NetworkName |-> s, Tethering |-> pub.Tethering]
              /\ todo' = <<Step("connect", s)>> \o Tail(todo)
         ELSE /\ current_service_' = None
              /\ pub' = IF up /\ services = <<>> THEN defaults_ ELSE pub
              /\ todo' = Tail(todo)

Connect == /\ Doing("connect")
           /\ service_' = arg
           /\ todo' = Tail(todo)
           /\ UNCHANGED <<manager_, current_service_, technologies_, tethering_,
                          pub, daemon, missed, q>>

\* update_tethering, for the technologies in ts of which those in on share
tethered(ts, on) == (tethering_ \ ts) \cup (ts \cap on)

\* process_technologies: those that went away stay in tethering_
ProcessTechnologies ==
  LET listing == SetToSeq(techs)
  IN  /\ Doing("technologies")
      /\ technologies_' = {}
      /\ q' = Without(q, {"Tethering"})
      /\ missed' = (missed \/ \E i \in 1..Len(q) : q[i].on = "Tethering" /\ Announced(q[i].path))
      /\ UNCHANGED <<manager_, service_, current_service_, daemon>>
      /\ IF up /\ techs # {}
         THEN /\ tethering_' = tethered(techs, sharing)
              /\ pub' = [pub EXCEPT !.Tethering = tethering_']
              /\ todo' = [i \in 1..Cardinality(techs) |-> Step("follow", listing[i])]
                         \o Tail(todo)
         ELSE /\ todo' = Tail(todo)
              /\ UNCHANGED <<tethering_, pub>>

Follow == /\ Doing("follow")
          /\ technologies_' = technologies_ \cup {arg}
          /\ todo' = Tail(todo)
          /\ UNCHANGED <<manager_, service_, current_service_, tethering_,
                         pub, daemon, missed, q>>

Handle(on) == todo = <<>> /\ q # <<>> /\ Head(q).on = on /\ UNCHANGED <<daemon, missed>>
path == Head(q).path
val == Head(q).val

\* mutant: a manager that comes back is not connected to
OnRegistered_once ==
  /\ Handle("Registered")
  /\ q' = Tail(q)
  /\ UNCHANGED bridge

\* init_manager replaces the proxy of the manager
OnRegistered == /\ Handle("Registered")
                /\ manager_' = "idle"
                /\ todo' = <<Step("init", None)>>
                /\ q' = Without(Tail(q), ToManager)
                /\ UNCHANGED <<service_, current_service_, technologies_, tethering_, pub>>

\* mutant: the properties stay as they are
OnUnregistered_silent ==
  /\ Handle("Unregistered")
  /\ manager_' = None
  /\ q' = Without(Tail(q), ToManager)
  /\ UNCHANGED <<service_, current_service_, technologies_, tethering_, pub, todo>>

\* reset_manager: the service, the technologies and tethering_ are kept
OnUnregistered == /\ Handle("Unregistered")
                  /\ manager_' = None
                  /\ pub' = defaults_
                  /\ q' = Without(Tail(q), ToManager)
                  /\ UNCHANGED <<service_, current_service_, technologies_, tethering_, todo>>

OnState == /\ Handle("State")
           /\ todo' = process_state(val)
           /\ q' = Tail(q)
           /\ UNCHANGED <<manager_, service_, current_service_, technologies_,
                          tethering_, pub>>

OnServicesAdded == /\ Handle("ServicesAdded")
                   /\ todo' = <<Step("services", None)>>
                   /\ q' = Tail(q)
                   /\ UNCHANGED <<manager_, service_, current_service_, technologies_,
                                  tethering_, pub>>

\* mutant: the removal of a service is left to the manager's State
OnServicesRemoved_ignored ==
  /\ Handle("ServicesRemoved")
  /\ q' = Tail(q)
  /\ UNCHANGED bridge

OnServicesRemoved ==
  /\ Handle("ServicesRemoved")
  /\ todo' = IF path = current_service_ THEN <<Step("services", None)>> ELSE <<>>
  /\ q' = Tail(q)
  /\ UNCHANGED <<manager_, service_, current_service_, technologies_, tethering_, pub>>

\* mutant: the state of the service is shown, the others are not looked at
OnServiceState_alone ==
  /\ Handle("ServiceState")
  /\ pub' = [pub EXCEPT !.NetworkState = IF val = "online" THEN "connected"
                                         ELSE "disconnected"]
  /\ q' = Tail(q)
  /\ UNCHANGED <<manager_, service_, current_service_, technologies_, tethering_, todo>>

\* the property State of the current service: update_status, process_services
OnServiceState ==
  /\ Handle("ServiceState")
  /\ pub' = [pub EXCEPT !.NetworkState = IF val = "online" THEN "connected"
                                         ELSE "disconnected"]
  /\ todo' = <<Step("services", None)>>
  /\ q' = Tail(q)
  /\ UNCHANGED <<manager_, service_, current_service_, technologies_, tethering_>>

\* process_technology: an entry of technologies_ is not replaced
OnTechnologyAdded ==
  /\ Handle("TechnologyAdded")
  /\ tethering_' = tethered({path}, IF val = "on" THEN {path} ELSE {})
  /\ pub' = [pub EXCEPT !.Tethering = tethering_']
  /\ todo' = <<Step("follow", path)>>
  /\ q' = Tail(q)
  /\ UNCHANGED <<manager_, service_, current_service_, technologies_>>

OnTechnologyRemoved ==
  /\ Handle("TechnologyRemoved")
  /\ todo' = <<Step("technologies", None)>>
  /\ q' = Tail(q)
  /\ UNCHANGED <<manager_, service_, current_service_, technologies_, tethering_, pub>>

OnTethering ==
  /\ Handle("Tethering")
  /\ tethering_' = tethered({path}, IF val = "on" THEN {path} ELSE {})
  /\ pub' = [pub EXCEPT !.Tethering = tethering_']
  /\ q' = Tail(q)
  /\ UNCHANGED <<manager_, service_, current_service_, technologies_, todo>>

Handler == \/ OnRegistered \/ OnUnregistered \/ OnState \/ OnServicesAdded
           \/ OnServicesRemoved \/ OnServiceState \/ OnTechnologyAdded
           \/ OnTechnologyRemoved \/ OnTethering
Running == \/ ResetProperties \/ GetProperties \/ Listen \/ ProcessServices
           \/ Connect \/ ProcessTechnologies \/ Follow

----------------------------------------------------------------------------
(* The daemon.  Its State is "online" as long as one of its services is.   *)

Change(restart) == /\ moves < MaxMoves
                   /\ moves' = moves + 1
                   /\ restarted' = (restarted \/ restart)
                   /\ UNCHANGED bridge
Move == Change(FALSE)

\* the signal x and, when the last service went or the first came, the State
SetOnline(new, x) ==
  /\ online' = new
  /\ IF (new = {}) = (online = {}) THEN Send(x)
     ELSE Send2(x, Signal("State", None, IF new = {} THEN "idle" ELSE "online"))

Start == /\ Change(TRUE) /\ ~up
         /\ up' = TRUE
         /\ online' \in SUBSET Range(services)
         /\ Send(Signal("Registered", None, None))
         /\ UNCHANGED <<services, techs, sharing>>

Stop == /\ Move /\ up
        /\ up' = FALSE
        /\ Send(Signal("Unregistered", None, None))
        /\ UNCHANGED <<services, online, techs, sharing>>

AddService == /\ Move /\ up
              /\ \E s \in Services \ Range(services) :
                   /\ services' \in {Append(services, s), <<s>> \o services}
                   /\ Send(Signal("ServicesAdded", s, None))
              /\ UNCHANGED <<up, online, techs, sharing>>

RemoveService == /\ Move /\ up
                 /\ \E s \in Range(services) :
                      /\ services' = SelectAt(services, {i \in 1..Len(services) : services[i] # s})
                      /\ SetOnline(online \ {s}, Signal("ServicesRemoved", s, None))
                 /\ UNCHANGED <<up, techs, sharing>>

ServiceOnline == /\ Move /\ up
                 /\ \E s \in Range(services) \ online :
                      SetOnline(online \cup {s}, Signal("ServiceState", s, "online"))
                 /\ UNCHANGED <<up, services, techs, sharing>>

ServiceOffline == /\ Move /\ up
                  /\ \E s \in online :
                       SetOnline(online \ {s}, Signal("ServiceState", s, "idle"))
                  /\ UNCHANGED <<up, services, techs, sharing>>

AddTechnology == /\ Move /\ up
                 /\ \E t \in Technologies \ techs :
                      /\ techs' = techs \cup {t}
                      /\ sharing' = sharing \ {t}
                      /\ Send(Signal("TechnologyAdded", t, "off"))
                 /\ UNCHANGED <<up, services, online>>

RemoveTechnology == /\ Move /\ up
                    /\ \E t \in techs :
                         /\ techs' = techs \ {t}
                         /\ Send(Signal("TechnologyRemoved", t, None))
                    /\ UNCHANGED <<up, services, online, sharing>>

SetTethering == /\ Move /\ up
                /\ \E t \in techs :
                     /\ sharing' = IF t \in sharing THEN sharing \ {t} ELSE sharing \cup {t}
                     /\ Send(Signal("Tethering", t, IF t \in sharing THEN "off" ELSE "on"))
                /\ UNCHANGED <<up, services, online, techs>>

Daemon == \/ Start \/ Stop \/ AddService \/ RemoveService \/ ServiceOnline
          \/ ServiceOffline \/ AddTechnology \/ RemoveTechnology \/ SetTethering

Init == /\ manager_ = "idle" /\ service_ = None /\ current_service_ = None
        /\ technologies_ = {} /\ tethering_ = {}
        /\ pub = defaults_ /\ todo = <<Step("init", None)>>
        /\ up \in BOOLEAN
        /\ \E listed \in SUBSET Services : services = SetToSeq(listed)
        /\ online \in SUBSET Range(services)
        /\ techs \in {{}, Technologies} /\ sharing = {}
        /\ missed = FALSE /\ restarted = FALSE /\ moves = 0 /\ q = <<>>

Loop == Handler \/ Running
Next == Loop \/ Daemon
Spec == Init /\ [][Next]_vars /\ WF_vars(Loop)

----------------------------------------------------------------------------
(* Properties.                                                             *)

Settled == todo = <<>> /\ q = <<>> /\ ~missed

\* When everything is handled, "connected" is shown when a service is online
\* and, unless ConnMan has restarted, only then, although the states of the
\* manager and of the service come as different signals, each maybe older
\* than what GetServices says (62-105).
StateShown ==
  Settled /\ up => /\ online # {} => pub.NetworkState = "connected"
                   /\ pub.NetworkState = "connected" /\ ~restarted => online # {}

\* The name and the type shown with "connected" are those of a service that
\* is online and followed, not of one that was (147-221).  It was the first one
\* of those online when the services were last read.  It need not be ConnMan's
\* default service, the first of the list, as a comment has it (212-214): when
\* that one comes online later, the bridge does not notice.
ServiceShown ==
  Settled /\ up /\ online # {} =>
    /\ service_ \in online /\ current_service_ = service_
    /\ pub.NetworkName = service_
    /\ pub.NetworkType = net_type(TypeOf[service_])

\* On line, the tethering of every technology there is shown, whatever was
\* added, removed and changed off line; the ones that went away may stay
\* (134-145, 223-263).
TetheringShown ==
  Settled /\ up /\ online # {} /\ techs # {} =>
    /\ pub.Tethering = tethering_
    /\ tethering_ \cap techs = sharing \cap techs

\* The whole of what a user of the network sees at rest: whether there is a
\* connection, some service that provides one, and the tethering; but after a
\* restart "connected" may be shown without one (RestartShown).
InternetShown == StateShown /\ ServiceShown /\ TetheringShown

\* process_services calls the manager's proxy: a service never calls back
\* while it is null, though service_ outlives it (127-132, 177-179, 220).
ManagerThere ==
  /\ todo = <<>> /\ q # <<>> /\ Head(q).on = "ServiceState" => manager_ # None
  /\ Doing("services") \/ Doing("technologies") => manager_ # None

\* Without the daemon nothing is shown of it (127-132).
DefaultsShown == Settled /\ ~up => pub = defaults_

\* The bridge comes to rest, and shows whether there is a connection.
EventuallyShown ==
  <>[](up /\ ~missed /\ ~restarted =>
         (pub.NetworkState = "connected" <=> online # {}))

\* When ConnMan goes away the bridge is "cleaning up" (129): what it shows
\* afterwards is the new ConnMan's.  But service_ is kept (127-132), and its
\* State may be shown when no service is online any more.
RestartShown ==
  Settled /\ up /\ pub.NetworkState = "connected" => online # {}
============================================================================
