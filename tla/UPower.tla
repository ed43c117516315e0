------------------------------- MODULE UPower -------------------------------
(***************************************************************************)
(* The Bridge of src/src/upower/provider_upower.cpp and the UPower daemon  *)
(* it mirrors.                                                             *)
(*                                                                         *)
(* Every property of a proxy is read by a blocking call of its own, so the *)
(* daemon may change between two reads of one update.  A handler is the    *)
(* list todo of what it has left to do; one element is one step.  Signals  *)
(* and the replies of EnumerateDevices wait in q, in the order the bus     *)
(* delivers them; only one handler runs at a time.                         *)
(***************************************************************************)
EXTENDS Naturals, SequencesExt, Signals

CONSTANTS Devices,      \* object paths
          Batteries,    \* those whose Type is Battery
          Readings,     \* what a device may report
          MaxMoves      \* how many changes the daemon makes before it is quiet

None == "none"

DeviceState == {"Unknown", "Charging", "Discharging", "FullyCharged"}

\* percentages are in tenths
Reading == [pct : 0..1000, toEmpty : Nat, toFull : Nat, state : DeviceState]

ASSUME UPowerAssumption == /\ IsFiniteSet(Devices) /\ None \notin Devices
                           /\ Batteries \subseteq Devices
                           /\ Readings \subseteq Reading
                           /\ MaxMoves \in Nat

VARIABLES manager_, device_,    \* the proxies: BOOLEAN, a path or None
          last_values_, pub,    \* what was read last, what is published
          now, todo,            \* props_now as far as it is read; the handler
          up, present, reading, supply,   \* the daemon
          lostBattery,          \* it has lost a battery since it started
          moves, calls, q       \* changes; EnumerateDevices calls; deliveries

bridge == <<manager_, device_, last_values_, pub, now, todo>>
daemon == <<up, present, reading, supply, lostBattery, moves>>
vars == <<bridge, daemon, calls, q>>

default_values_ ==
  [pct |-> 870, onBattery |-> TRUE, lowBattery |-> FALSE,
   toEmpty |-> 878787, toFull |-> 0, state |-> "Unknown"]

\* PowerNs::defaults_
defaults_ ==
  [ChargePercentage |-> 87, Capacity |-> 870, OnBattery |-> TRUE,
   LowBattery |-> FALSE, TimeUntilLow |-> 878787, TimeUntilFull |-> 0,
   IsCharging |-> FALSE]

round(tenths) == (tenths + 5) \div 10

----------------------------------------------------------------------------
(* update_all_props.                                                       *)

\* the actions of cor::copy_apply_if_changed run, in the order of the tuple,
\* for the fields that differ from last
published(last, new, p) ==
  LET changed(f) == new[f] # last[f]
      is_charging == new.state \in {"Charging", "FullyCharged"}
      set(f, v, old) == IF changed(f) THEN v ELSE old
  IN  [ChargePercentage |-> set("pct", round(new.pct), p.ChargePercentage),
       Capacity      |-> set("pct", new.pct, p.Capacity),
       OnBattery     |-> set("onBattery", new.onBattery, p.OnBattery),
       LowBattery    |-> set("lowBattery", new.lowBattery, p.LowBattery),
       TimeUntilLow  |-> set("toEmpty", new.toEmpty, p.TimeUntilLow),
       IsCharging    |-> set("state", is_charging, p.IsCharging),
       TimeUntilFull |->
         IF changed("state") /\ (~is_charging \/ new.state = "FullyCharged")
         THEN 0
         ELSE IF changed("toFull") THEN new.toFull
         ELSE IF changed("onBattery") /\ new.onBattery THEN 0
         ELSE p.TimeUntilFull]

Step(do, arg) == [do |-> do, arg |-> arg]
Update == <<Step("update", None)>>
read(field) == Step("read", field)
apply == Step("apply", None)

\* the reads that an update is made of, and the values they start from
update_steps ==
  IF device_ # None /\ manager_
  THEN <<read("pct"), read("onBattery"), read("lowBattery"), read("toEmpty"),
         read("toFull"), read("state"), apply>>
  ELSE IF manager_ THEN <<read("onBattery"), read("lowBattery"), apply>>
  ELSE <<apply>>

update_start ==
  IF manager_ THEN [pct |-> 990, onBattery |-> TRUE, lowBattery |-> FALSE,
                    toEmpty |-> 12345, toFull |-> 0, state |-> "Unknown"]
  ELSE default_values_

----------------------------------------------------------------------------
(* Signals are received by the proxies, and lost with them.                *)

Message(on, paths) == [on |-> on, paths |-> paths]
ToManager == {"ManagerChanged", "DeviceAdded", "DeviceRemoved"}

Heard(on, paths) == /\ on \in ToManager => manager_
                    /\ on = "Changed" => paths = <<device_>>

Send(on, paths) == q' = IF Heard(on, paths) THEN Append(q, Message(on, paths))
                        ELSE q

ManagerLost(s) == Without(s, ToManager)
DeviceLost(s) == Without(s, {"Changed"})

----------------------------------------------------------------------------
(* The bridge, one step of the running handler at a time.                  *)

Doing(do) == todo # <<>> /\ Head(todo).do = do
arg == Head(todo).arg

\* type() of a path, and of one that is gone, is read by a blocking call
IsBattery(path) == up /\ path \in present \cap Batteries

\* try_get_battery when the path is not a battery: find_if goes on
TryOther == /\ Doing("try")
            /\ ~IsBattery(arg)
            /\ todo' = Tail(todo)
            /\ UNCHANGED <<manager_, device_, last_values_, pub, now, daemon, calls, q>>

\* mutant: the first values are those of the first change
TryBattery_unread ==
  /\ Doing("try")
  /\ IsBattery(arg)
  /\ device_' = arg
  /\ q' = DeviceLost(q)
  /\ todo' = <<>>
  /\ UNCHANGED <<manager_, last_values_, pub, now, daemon, calls>>

\* try_get_battery of a battery: find_if stops
TryBattery == /\ Doing("try")
              /\ IsBattery(arg)
              /\ device_' = arg
              /\ q' = DeviceLost(q)
              /\ todo' = Update
              /\ UNCHANGED <<manager_, last_values_, pub, now, daemon, calls>>

StartUpdate == /\ Doing("update")
               /\ now' = update_start
               /\ todo' = update_steps \o Tail(todo)
               /\ UNCHANGED <<manager_, device_, last_values_, pub, daemon, calls, q>>

\* a call that fails yields a value made by default
Answer(f) ==
  IF f \in {"onBattery", "lowBattery"} THEN up /\ supply[f]
  ELSE IF up /\ device_ \in present THEN reading[device_][f]
  ELSE IF f = "state" THEN "Unknown" ELSE 0

Read == /\ Doing("read")
        /\ now' = [now EXCEPT ![arg] = Answer(arg)]
        /\ todo' = Tail(todo)
        /\ UNCHANGED <<manager_, device_, last_values_, pub, daemon, calls, q>>

\* mutant: without the daemon the values are forgotten, not published
ApplyChanged_quiet ==
  /\ Doing("apply")
  /\ pub' = IF manager_ THEN published(last_values_, now, pub) ELSE pub
  /\ last_values_' = now
  /\ todo' = Tail(todo)
  /\ UNCHANGED <<manager_, device_, now, daemon, calls, q>>

ApplyChanged == /\ Doing("apply")
                /\ pub' = published(last_values_, now, pub)
                /\ last_values_' = now
                /\ todo' = Tail(todo)
                /\ UNCHANGED <<manager_, device_, now, daemon, calls, q>>

\* the second half of reset_manager
DropManager == /\ Doing("drop")
               /\ manager_' = FALSE
               /\ q' = ManagerLost(q)
               /\ todo' = Update \o Tail(todo)
               /\ UNCHANGED <<device_, last_values_, pub, now, daemon, calls>>

Handle(on) == todo = <<>> /\ q # <<>> /\ Head(q).on = on
about == Head(q).paths[1]
listed == Head(q).paths

\* find_battery: the reply of EnumerateDevices lists the devices
OnDevices ==
  /\ Handle("Devices")
  /\ todo' = [i \in DOMAIN listed |-> Step("try", listed[i])]
  /\ q' = Tail(q)
  /\ UNCHANGED <<manager_, device_, last_values_, pub, now, daemon, calls>>

OnDeviceAdded ==
  /\ Handle("DeviceAdded")
  /\ todo' = <<Step("try", about)>>
  /\ q' = Tail(q)
  /\ UNCHANGED <<manager_, device_, last_values_, pub, now, daemon, calls>>

OnChanged ==
  /\ Handle("Changed") \/ Handle("ManagerChanged")
  /\ todo' = Update
  /\ q' = Tail(q)
  /\ UNCHANGED <<manager_, device_, last_values_, pub, now, daemon, calls>>

\* mutant: only the proxy is dropped, the values stay
OnDeviceRemoved_silent ==
  /\ Handle("DeviceRemoved")
  /\ device_' = IF about = device_ THEN None ELSE device_
  /\ q' = IF about = device_ THEN DeviceLost(Tail(q)) ELSE Tail(q)
  /\ UNCHANGED <<manager_, last_values_, pub, now, todo, daemon, calls>>

\* reset_device if it is the path of the battery
OnDeviceRemoved ==
  /\ Handle("DeviceRemoved")
  /\ device_' = IF about = device_ THEN None ELSE device_
  /\ todo' = IF about = device_ THEN Update ELSE <<>>
  /\ q' = IF about = device_ THEN DeviceLost(Tail(q)) ELSE Tail(q)
  /\ UNCHANGED <<manager_, last_values_, pub, now, daemon, calls>>

\* init_manager: the old manager's proxy is replaced, and calls back no more
OnRegistered ==
  /\ Handle("Registered")
  /\ manager_' = TRUE
  /\ calls' = calls + 1
  /\ q' = ManagerLost(Tail(q))
  /\ UNCHANGED <<device_, last_values_, pub, now, todo, daemon>>

\* reset_manager: reset_device, and then the manager
OnUnregistered ==
  /\ Handle("Unregistered")
  /\ device_' = None
  /\ todo' = Update \o <<Step("drop", None)>>
  /\ q' = DeviceLost(Tail(q))
  /\ UNCHANGED <<manager_, last_values_, pub, now, daemon, calls>>

Handler == \/ OnDevices \/ OnDeviceAdded \/ OnChanged \/ OnDeviceRemoved
           \/ OnRegistered \/ OnUnregistered
Running == \/ TryOther \/ TryBattery \/ StartUpdate \/ Read \/ ApplyChanged
           \/ DropManager

----------------------------------------------------------------------------
(* The daemon and the bus.                                                 *)

Move == moves < MaxMoves /\ moves' = moves + 1 /\ UNCHANGED bridge

Start == /\ Move
         /\ ~up /\ up' = TRUE
         /\ present' \in SUBSET Devices
         /\ lostBattery' = FALSE
         /\ Send("Registered", <<>>)
         /\ UNCHANGED <<reading, supply, calls>>

\* the calls that wait for an answer fail
Stop == /\ Move
        /\ up /\ up' = FALSE
        /\ calls' = 0
        /\ Send("Unregistered", <<>>)
        /\ UNCHANGED <<present, reading, supply, lostBattery>>

AddDevice == /\ Move
             /\ up
             /\ \E d \in Devices \ present : /\ present' = present \cup {d}
                                             /\ Send("DeviceAdded", <<d>>)
             /\ UNCHANGED <<up, reading, supply, lostBattery, calls>>

RemoveDevice == /\ Move
                /\ up
                /\ \E d \in present : /\ present' = present \ {d}
                                      /\ lostBattery' = (lostBattery \/ d \in Batteries)
                                      /\ Send("DeviceRemoved", <<d>>)
                /\ UNCHANGED <<up, reading, supply, calls>>

ChangeDevice == /\ Move
                /\ up
                /\ \E d \in present \cap Batteries, r \in Readings :
                     /\ reading[d] # r
                     /\ reading' = [reading EXCEPT ![d] = r]
                     /\ Send("Changed", <<d>>)
                /\ UNCHANGED <<up, present, supply, lostBattery, calls>>

ChangeSupply == /\ Move
                /\ up
                /\ \E f \in DOMAIN supply : supply' = [supply EXCEPT ![f] = ~@]
                /\ Send("ManagerChanged", <<>>)
                /\ UNCHANGED <<up, present, reading, lostBattery, calls>>

Daemon == \/ Start \/ Stop \/ AddDevice \/ RemoveDevice \/ ChangeDevice
          \/ ChangeSupply

\* EnumerateDevices: async() calls back with the devices there are now
Enumerate == /\ up /\ calls > 0
             /\ calls' = calls - 1
             /\ \E listing \in SetToSeqs(present) :
                  q' = Append(q, Message("Devices", listing))
             /\ UNCHANGED <<bridge, daemon>>

\* with no daemon the call fails, or it waits for the daemon it starts
EnumerateFails == /\ ~up /\ calls > 0
                  /\ calls' = calls - 1
                  /\ UNCHANGED <<bridge, daemon, q>>

Init == /\ manager_ = TRUE /\ device_ = None    \* after init()
        /\ last_values_ = default_values_ /\ pub = defaults_
        /\ now = default_values_ /\ todo = <<>>
        /\ up \in BOOLEAN
        /\ present \in SUBSET Devices
        /\ \E r \in Readings : reading = [d \in Batteries |-> r]
        /\ supply = [onBattery |-> FALSE, lowBattery |-> FALSE]
        /\ lostBattery = FALSE /\ moves = 0
        /\ calls = 1 /\ q = <<>>

Loop == Handler \/ Running
Bus == Enumerate \/ EnumerateFails

Next == Loop \/ Bus \/ Daemon

Spec == Init /\ [][Next]_vars /\ WF_vars(Loop) /\ WF_vars(Bus)

----------------------------------------------------------------------------
(* Properties.                                                             *)

\* The published properties are those of the values read last, though only
\* the changed ones are published: the two tables of defaults agree (46 and
\* 155-162), and no action publishes over another one but for the time until
\* full, which may be hidden (51-85).
PublishedIsLast ==
  /\ pub.ChargePercentage = round(last_values_.pct)
  /\ pub.Capacity = last_values_.pct
  /\ pub.OnBattery = last_values_.onBattery
  /\ pub.LowBattery = last_values_.lowBattery
  /\ pub.TimeUntilLow = last_values_.toEmpty
  /\ pub.IsCharging = (last_values_.state \in {"Charging", "FullyCharged"})
  /\ pub.TimeUntilFull \in {0, last_values_.toFull}

Quiet == todo = <<>> /\ q = <<>> /\ calls = 0

\* with what the daemon says of the supply
supplied(values) ==
  [f \in DOMAIN values \cup DOMAIN supply |->
     IF f \in DOMAIN supply THEN supply[f] ELSE values[f]]

no_battery_values == supplied(update_start)

\* When everything is handled, the values are those of a battery the daemon
\* still has, none older than another, whatever changed between the reads of
\* one update (72-77); without a battery they are the ones for that case.
BatteryShown ==
  Quiet /\ up =>
    IF device_ = None THEN last_values_ \in {default_values_, no_battery_values}
    ELSE /\ device_ \in present
         /\ last_values_ = supplied(reading[device_])

\* A battery that the daemon has is found, by EnumerateDevices or DeviceAdded,
\* as long as it never lost one: after that the bridge looks for no other
\* (126-139).
BatteryFound ==
  Quiet /\ up /\ ~lostBattery /\ present \cap Batteries # {} => device_ # None

\* Without the daemon the defaults are shown: no reply or update that was
\* under way when it went outlives it (143-147).
DefaultsShown == Quiet /\ ~up => last_values_ = default_values_ /\ device_ = None

\* The battery that is there is found and shown, one that is not is forgotten.
PowerShown == BatteryShown /\ BatteryFound /\ DefaultsShown

\* The bridge comes to rest and shows a battery as it is.
EventuallyShown ==
  <>[](up /\ device_ # None => last_values_ = supplied(reading[device_]))
============================================================================
