------------------------------- MODULE Bluez -------------------------------
(***************************************************************************)
(* The Bridge of src/src/bluez/provider_bluez.cpp, the namespace it fills  *)
(* (src/src/util/ns.cpp), and the BlueZ daemon it mirrors.                 *)
(*                                                                         *)
(* A handler is the list todo of what it has left to do.  A blocking call  *)
(* and what the bridge makes of its reply are one step; the daemon may     *)
(* change before the next one.  Adapters and devices are read before the   *)
(* bridge connects to their signals: a change in between is never heard,   *)
(* and missed records it.                                                  *)
(***************************************************************************)
EXTENDS SequencesExt, Signals

CONSTANTS Adapters, Devices,    \* object paths
          AdapterOf,            \* the adapter a device is paired with
          MaxMoves              \* how many changes the daemon makes

None == "none"

ASSUME BluezAssumption == /\ IsFiniteSet(Devices)
                          /\ None \notin Adapters \cup Devices
                          /\ AdapterOf \in [Devices -> Adapters]
                          /\ MaxMoves \in Nat

VARIABLES manager_, adapter_,   \* BOOLEAN; a path or None
          hears,                \* which signals of adapter_ it is connected to
          devices_, connected_, pub, todo,
          up, default, powered, paired, linked,     \* the daemon
          missed,               \* a change fell between a read and its connect
          moves, q              \* the changes so far; signals on their way

bridge == <<manager_, adapter_, hears, devices_, connected_, pub, todo>>
daemon == <<up, default, powered, paired, linked, moves>>
vars == <<bridge, daemon, missed, q>>

\* Namespace::setters_for_props_: the name under which the source of each
\* property has it
setters_for_props_ ==
  [Enabled |-> "Powered", Connected |-> "Connected", Address |-> "Address"]

defaults_ == [Enabled |-> "0", Connected |-> "0", Address |-> "00:00"]

\* Namespace::setProperties: values without a setter of that name are skipped
setProperties(values, p) ==
  [n \in DOMAIN p |-> IF setters_for_props_[n] \in DOMAIN values
                      THEN values[setters_for_props_[n]] ELSE p[n]]

updateProperty(name, value, p) == setProperties([n \in {name} |-> value], p)
Flag(yes) == IF yes THEN "1" ELSE "0"

----------------------------------------------------------------------------
(* Signals are received by the proxies, and lost with them.                *)

Signal(on, path, val) == [on |-> on, path |-> path, val |-> val]
OfAdapter == {"Powered", "DeviceCreated", "DeviceRemoved"}

\* where a signal about a device comes from
Source(x) == IF x.path \in Devices THEN AdapterOf[x.path] ELSE x.path

Subscribed(m, a, h, ds, x) ==
  CASE x.on = "DefaultAdapterChanged" -> m
    [] x.on = "Powered" -> a = x.path /\ "props" \in h
    [] x.on \in {"DeviceCreated", "DeviceRemoved"} -> a = Source(x) /\ "devices" \in h
    [] x.on = "Connected" -> x.path \in ds
    [] x.on \in {"Registered", "Unregistered"} -> TRUE

\* the proxy of a device is gone
Unheard(s, d) == SelectAt(s, {i \in 1..Len(s) : ~(s[i].on = "Connected" /\ s[i].path = d)})

Step(do, arg) == [do |-> do, arg |-> arg]
Pending(do, arg) == \E i \in 1..Len(todo) : todo[i] = Step(do, arg)

\* the running handler has read what x changes and has still to connect to it
Missing(x) ==
  \/ x.on = "Powered" /\ Pending("listen", x.path)
  \/ x.on \in {"DeviceCreated", "DeviceRemoved"} /\ Pending("watch", Source(x))
       /\ ~Pending("list", Source(x))
  \/ x.on = "Connected" /\ Pending("follow", x.path)

Send(x) ==
  /\ q' = IF Subscribed(manager_, adapter_, hears, devices_, x) THEN Append(q, x) ELSE q
  /\ missed' = (missed \/ Missing(x))

----------------------------------------------------------------------------
(* The bridge, one step of the running handler at a time.                  *)

Doing(do) == todo # <<>> /\ Head(todo).do = do /\ UNCHANGED <<daemon, missed>>
arg == Head(todo).arg

\* setup_manager connects to the manager and asks for the default adapter
GetDefault == /\ Doing("default")
              /\ todo' = IF up /\ default # None THEN <<Step("adapter", default)>> ELSE <<>>
              /\ UNCHANGED <<manager_, adapter_, hears, devices_, connected_, pub, q>>

\* defaultAdapterChanged: the proxy is replaced and its properties are read;
\* the devices of the old adapter stay
NewAdapter ==
  /\ Doing("adapter")
  /\ adapter_' = arg /\ hears' = {}
  /\ q' = Without(q, OfAdapter)
  /\ pub' = IF up THEN setProperties([Powered |-> Flag(powered[arg]), Address |-> arg], pub)
            ELSE pub
  /\ todo' = <<Step("listen", arg), Step("list", arg), Step("watch", arg)>>
  /\ UNCHANGED <<manager_, devices_, connected_>>

Listen == /\ Doing("listen")
          /\ hears' = hears \cup {"props"}
          /\ todo' = Tail(todo)
          /\ UNCHANGED <<manager_, adapter_, devices_, connected_, pub, q>>

ListDevices ==
  LET those == {d \in paired : AdapterOf[d] = arg}
      listing == SetToSeq(those)
  IN  /\ Doing("list")
      /\ todo' = IF up THEN [i \in 1..Cardinality(those) |-> Step("add", listing[i])]
                            \o Tail(todo)
                 ELSE Tail(todo)
      /\ UNCHANGED <<manager_, adapter_, hears, devices_, connected_, pub, q>>

Watch == /\ Doing("watch")
         /\ hears' = hears \cup {"devices"}
         /\ todo' = Tail(todo)
         /\ UNCHANGED <<manager_, adapter_, devices_, connected_, pub, q>>

\* mutant: the device is not removed first, its old state stays if it is gone
AddDevice_keep ==
  LET known == up /\ arg \in paired
      now == IF known /\ arg \in linked THEN connected_ \cup {arg} ELSE connected_
  IN  /\ Doing("add")
      /\ devices_' = devices_ \ {arg}
      /\ q' = Unheard(q, arg)
      /\ connected_' = now
      /\ pub' = IF known THEN updateProperty("Connected", Flag(now # {}), pub) ELSE pub
      /\ todo' = <<Step("follow", arg)>> \o Tail(todo)
      /\ UNCHANGED <<manager_, adapter_, hears>>

\* addDevice: removeDevice, and then the property Connected is read
AddDevice ==
  LET known == up /\ arg \in paired
      now == IF known /\ arg \in linked THEN connected_ \cup {arg}
             ELSE connected_ \ {arg}
  IN  /\ Doing("add")
      /\ devices_' = devices_ \ {arg}
      /\ q' = Unheard(q, arg)
      /\ connected_' = now
      /\ pub' = IF known \/ arg \in connected_
                THEN updateProperty("Connected", Flag(now # {}), pub) ELSE pub
      /\ todo' = <<Step("follow", arg)>> \o Tail(todo)
      /\ UNCHANGED <<manager_, adapter_, hears>>

Follow == /\ Doing("follow")
          /\ devices_' = devices_ \cup {arg}
          /\ todo' = Tail(todo)
          /\ UNCHANGED <<manager_, adapter_, hears, connected_, pub, q>>

Handle(on) == todo = <<>> /\ q # <<>> /\ Head(q).on = on /\ UNCHANGED <<daemon, missed>>
path == Head(q).path
val == Head(q).val

\* mutant: a daemon that comes back is not asked for its adapter
OnRegistered_once ==
  /\ Handle("Registered")
  /\ q' = Tail(q)
  /\ UNCHANGED bridge

\* setup_manager replaces the manager's proxy
OnRegistered == /\ Handle("Registered")
                /\ manager_' = TRUE
                /\ todo' = <<Step("default", None)>>
                /\ q' = Without(Tail(q), {"DefaultAdapterChanged"})
                /\ UNCHANGED <<adapter_, hears, devices_, connected_, pub>>

\* mutant: the properties stay as they are
OnUnregistered_silent ==
  /\ Handle("Unregistered")
  /\ manager_' = FALSE
  /\ q' = Without(Tail(q), {"DefaultAdapterChanged"})
  /\ UNCHANGED <<adapter_, hears, devices_, connected_, pub, todo>>

\* reset_manager: the adapter, the devices and connected_ stay
OnUnregistered == /\ Handle("Unregistered")
                  /\ manager_' = FALSE
                  /\ pub' = setProperties(defaults_, pub)
                  /\ q' = Without(Tail(q), {"DefaultAdapterChanged"})
                  /\ UNCHANGED <<adapter_, hears, devices_, connected_, todo>>

OnDefaultAdapterChanged ==
  /\ Handle("DefaultAdapterChanged")
  /\ todo' = <<Step("adapter", path)>>
  /\ q' = Tail(q)
  /\ UNCHANGED <<manager_, adapter_, hears, devices_, connected_, pub>>

OnPowered == /\ Handle("Powered")
             /\ pub' = updateProperty("Powered", val, pub)
             /\ q' = Tail(q)
             /\ UNCHANGED <<manager_, adapter_, hears, devices_, connected_, todo>>

OnDeviceCreated == /\ Handle("DeviceCreated")
                   /\ todo' = <<Step("add", path)>>
                   /\ q' = Tail(q)
                   /\ UNCHANGED <<manager_, adapter_, hears, devices_, connected_, pub>>

\* removeDevice
OnDeviceRemoved ==
  /\ Handle("DeviceRemoved")
  /\ devices_' = devices_ \ {path}
  /\ connected_' = connected_ \ {path}
  /\ pub' = IF path \in connected_
            THEN updateProperty("Connected", Flag(connected_' # {}), pub) ELSE pub
  /\ q' = Unheard(Tail(q), path)
  /\ UNCHANGED <<manager_, adapter_, hears, todo>>

OnConnected ==
  /\ Handle("Connected")
  /\ connected_' = IF val = "1" THEN connected_ \cup {path} ELSE connected_ \ {path}
  /\ pub' = updateProperty("Connected", Flag(connected_' # {}), pub)
  /\ q' = Tail(q)
  /\ UNCHANGED <<manager_, adapter_, hears, devices_, todo>>

Handler == \/ OnRegistered \/ OnUnregistered \/ OnDefaultAdapterChanged \/ OnPowered
           \/ OnDeviceCreated \/ OnDeviceRemoved \/ OnConnected
Running == \/ GetDefault \/ NewAdapter \/ Listen \/ ListDevices \/ Watch
           \/ AddDevice \/ Follow

----------------------------------------------------------------------------
(* The daemon.                                                             *)

Move == moves < MaxMoves /\ moves' = moves + 1 /\ UNCHANGED bridge

Start == /\ Move /\ ~up
         /\ up' = TRUE
         /\ default' \in Adapters \cup {None}
         /\ Send(Signal("Registered", None, None))
         /\ UNCHANGED <<powered, paired, linked>>

\* the links go down with the daemon
Stop == /\ Move /\ up
        /\ up' = FALSE
        /\ linked' = {}
        /\ Send(Signal("Unregistered", None, None))
        /\ UNCHANGED <<default, powered, paired>>

ChangeDefault == /\ Move /\ up
                 /\ default' \in Adapters \ {default}
                 /\ Send(Signal("DefaultAdapterChanged", default', None))
                 /\ UNCHANGED <<up, powered, paired, linked>>

SetPowered == /\ Move /\ up /\ default # None
              /\ powered' = [powered EXCEPT ![default] = ~@]
              /\ Send(Signal("Powered", default, Flag(~powered[default])))
              /\ UNCHANGED <<up, default, paired, linked>>

Pair == /\ Move /\ up /\ default # None
        /\ \E d \in Devices \ paired :
             /\ AdapterOf[d] = default
             /\ paired' = paired \cup {d}
             /\ Send(Signal("DeviceCreated", d, None))
        /\ UNCHANGED <<up, default, powered, linked>>

Unpair == /\ Move /\ up
          /\ \E d \in paired : /\ paired' = paired \ {d}
                               /\ linked' = linked \ {d}
                               /\ Send(Signal("DeviceRemoved", d, None))
          /\ UNCHANGED <<up, default, powered>>

Link == /\ Move /\ up
        /\ \E d \in paired :
             /\ linked' = IF d \in linked THEN linked \ {d} ELSE linked \cup {d}
             /\ Send(Signal("Connected", d, Flag(d \notin linked)))
        /\ UNCHANGED <<up, default, powered, paired>>

Daemon == Start \/ Stop \/ ChangeDefault \/ SetPowered \/ Pair \/ Unpair \/ Link

Init == /\ manager_ = TRUE /\ adapter_ = None /\ hears = {}
        /\ devices_ = {} /\ connected_ = {} /\ pub = defaults_
        /\ todo = <<Step("default", None)>>
        /\ up \in BOOLEAN
        /\ default \in Adapters \cup {None}
        /\ powered = [a \in Adapters |-> TRUE]
        /\ paired \in SUBSET Devices
        /\ linked \in {{}, paired}
        /\ missed = FALSE /\ moves = 0 /\ q = <<>>

Loop == Handler \/ Running
Next == Loop \/ Daemon
Spec == Init /\ [][Next]_vars /\ WF_vars(Loop)

----------------------------------------------------------------------------
(* Properties.                                                             *)

Settled == todo = <<>> /\ q = <<>> /\ ~missed
Here == {d \in paired : AdapterOf[d] = default}

\* When everything is handled, the adapter shown is the default one as it is,
\* whatever changes of the default and restarts overtook each other (46-100).
AdapterShown ==
  Settled /\ up /\ default # None =>
    /\ adapter_ = default
    /\ pub.Address = default
    /\ pub.Enabled = Flag(powered[default])

\* The bridge knows which devices of the default adapter are connected, also
\* those it knew before the adapter, or the daemon, came back (102-141).
ConnectedKnown == Settled /\ up /\ default # None => connected_ \cap Here = linked \cap Here

\* "Connected" is shown when a device of the default adapter is connected, and
\* at no time when the bridge believes that none is (116, 127, 139-140).  With
\* none connected it may stay: connected_ keeps the devices of an adapter that
\* was the default before (73).
ConnectedShown ==
  /\ pub.Connected = "1" => connected_ # {}
  /\ Settled /\ up /\ default # None /\ linked \cap Here # {} => pub.Connected = "1"

\* The adapter and its connections together.
BluetoothShown == AdapterShown /\ ConnectedKnown /\ ConnectedShown

\* Without the daemon no connection and no address are shown (60-63).
NothingShown ==
  Settled /\ ~up => pub.Connected = "0" /\ pub.Address = defaults_.Address

\* The bridge comes to rest and shows the default adapter.
EventuallyShown ==
  <>[](up /\ default # None /\ ~missed => pub.Enabled = Flag(powered[default]))

\* When the daemon goes away the table of defaults is shown, "Enabled" "0"
\* included (146-150).  But Namespace::setProperties looks it up by the name
\* of its source, "Powered" (152, ns.cpp 38-50).
DefaultsShown == Settled /\ ~up => pub = defaults_
============================================================================
