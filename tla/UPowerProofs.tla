---------------------------- MODULE UPowerProofs ---------------------------
(***************************************************************************)
(* Proofs about UPower: what is published is what was read last, and when  *)
(* everything is handled the battery that is there is found and shown.     *)
(***************************************************************************)
EXTENDS UPower, SignalsProofs, FiniteSetTheorems

Supplied == {"onBattery", "lowBattery"}
Field == {"pct", "toEmpty", "toFull", "state"} \cup Supplied

Kind == ToManager \cup {"Changed", "Devices", "Registered", "Unregistered"}
Signal == {m \in [on : Kind, paths : Seq(Devices)] :
             m.on \in {"DeviceAdded", "DeviceRemoved"} => m.paths[1] \in Devices}

Removals(ds) == {m \in Signal : m.on = "DeviceRemoved" /\ m.paths[1] \in ds}
News == {m \in Signal : m.on \in {"Changed", "ManagerChanged"}}
Naming(d) == {m \in Signal :
                \/ m.on = "DeviceAdded" /\ m.paths[1] = d
                \/ m.on = "Devices" /\ \E i \in DOMAIN m.paths : m.paths[i] = d}

----------------------------------------------------------------------------
(* The steps that the handler has left.                                    *)

Steps == [do : {"try", "update", "read", "apply", "drop"},
          arg : Devices \cup Field \cup {None}]

\* a step of this kind is left
Left(t, do) == \E i \in 1..Len(t) : t[i].do = do
ToRead(t, f) == \E i \in 1..Len(t) : t[i].do = "read" /\ t[i].arg = f
ToTry(t, d) == \E i \in 1..Len(t) : t[i].do = "try" /\ t[i].arg = d

\* the devices are tried with nothing else to do; an update starts, reads and
\* is applied; and dropping the manager is the last step before another one
Ordered(t) ==
  \A i \in 1..Len(t) :
    /\ t[i].do = "try" => \A j \in 1..Len(t) : t[j].do = "try"
    /\ t[i].do = "update" => i = 1 /\ \A j \in 1..Len(t) : i < j => t[j].do = "drop"
    /\ t[i].do = "read" => /\ t[i].arg \in Field
                           /\ \E j \in 1..Len(t) : i < j /\ t[j].do = "apply"
    /\ t[i].do = "apply" => \A j \in 1..Len(t) : i < j => t[j].do = "drop"
    /\ t[i].do = "drop" => i = Len(t)

\* what an update reads
Reads(t) == /\ Left(t, "read") => manager_
            /\ device_ = None => \A f \in Field \ Supplied : ~ToRead(t, f)

----------------------------------------------------------------------------
(* The invariant.                                                          *)

Types == /\ manager_ \in BOOLEAN /\ up \in BOOLEAN /\ lostBattery \in BOOLEAN
         /\ device_ \in Batteries \cup {None} /\ present \in SUBSET Devices
         /\ reading \in [Batteries -> Readings] /\ supply \in [Supplied -> BOOLEAN]
         /\ now = [f \in Field |-> now[f]]
         /\ last_values_ = [f \in Field |-> last_values_[f]]
         /\ calls \in Nat /\ q \in Seq(Signal)
         /\ todo \in Seq(Steps) /\ Ordered(todo) /\ Reads(todo)

\* the manager's proxy is lost, or about to be
Gone == ~manager_ \/ Left(todo, "drop")

Outside == Absent(Signal, q, up)
Lives == Life(Signal, q, up)

\* A bridge without a manager shows the defaults, or is about to, and hears of
\* nothing before the daemon starts; at first it waits for that with a manager.
Defaults == /\ Gone => Outside
            /\ Left(todo, "drop") => manager_
            /\ Outside => device_ = None /\ ~Left(todo, "try")
            /\ Outside /\ ~Gone => todo = <<>>
            /\ Outside /\ todo = <<>> => last_values_ = default_values_
            /\ ~manager_ /\ Left(todo, "apply") => now = default_values_

Current(f) == IF f \in Supplied THEN supply[f]
              ELSE IF device_ = None THEN update_start[f]
              ELSE reading[device_][f]

\* nothing waits that will reset the battery
Settled == /\ up /\ ~Gone /\ NoneIn(q, Stops(Signal)) /\ NoneIn(q, Removals({device_}))

\* What is shown is current, or will be read again, or will be known to have
\* changed; the same goes for each value of an update that is under way.
Shown ==
  Settled =>
    /\ device_ # None => device_ \in present
    /\ Left(todo, "update") \/ Left(todo, "apply") \/ ~NoneIn(q, News)
         \/ (device_ = None /\ last_values_ = default_values_)
         \/ \A f \in Field : last_values_[f] = Current(f)
    /\ Left(todo, "apply") =>
         \A f \in Field : ToRead(todo, f) \/ ~NoneIn(q, News) \/ now[f] = Current(f)

\* A daemon that has lost no battery since it started has none removed later,
\* and each of its batteries is still to be tried while there is no proxy.
Found ==
  up /\ ~lostBattery =>
    /\ Behind(q, Removals(Batteries), Starts(Signal))
    /\ NoneIn(q, Starts(Signal)) /\ device_ = None =>
         \A b \in present \cap Batteries :
           calls > 0 \/ ~NoneIn(q, Naming(b)) \/ ToTry(todo, b)

PowerInv == Types /\ Lives /\ Defaults /\ Shown /\ Found

----------------------------------------------------------------------------
(* What is published.                                                      *)

\* Publishing the fields that differ publishes them all: the others are
\* published already.
LEMMA PublishedStays ==
  ASSUME PublishedIsLast, ApplyChanged
  PROVE  PublishedIsLast'
<1>1. pub' = published(last_values_, now, pub) /\ last_values_' = now
  BY DEF ApplyChanged
<1>2. /\ pub'.ChargePercentage = round(now.pct) /\ pub'.Capacity = now.pct
      /\ pub'.TimeUntilLow = now.toEmpty
  BY <1>1 DEF published, PublishedIsLast
<1>3. pub'.OnBattery = now.onBattery
  BY <1>1 DEF published, PublishedIsLast
<1>4. pub'.LowBattery = now.lowBattery
  BY <1>1 DEF published, PublishedIsLast
<1>5. pub'.IsCharging = (now.state \in {"Charging", "FullyCharged"})
  BY <1>1 DEF published, PublishedIsLast
<1>6. pub'.TimeUntilFull \in {0, now.toFull}
  BY <1>1 DEF published, PublishedIsLast
<1> QED BY <1>1, <1>2, <1>3, <1>4, <1>5, <1>6, Zenon DEF PublishedIsLast

\* What is published is what was read last, for every device and reading, though
\* only what differs is published (46, 51-85, 155-162).
THEOREM PublishedIsLastHolds == Spec => []PublishedIsLast
<1>1. Init => PublishedIsLast
  <2> SUFFICES ASSUME Init PROVE PublishedIsLast OBVIOUS
  <2>1. pub = defaults_ /\ last_values_ = default_values_ BY Zenon DEF Init
  <2>2. /\ pub.ChargePercentage = round(last_values_.pct)
        /\ pub.Capacity = last_values_.pct
        /\ pub.TimeUntilLow = last_values_.toEmpty
        /\ pub.TimeUntilFull = 0
    BY <2>1, SMT DEF default_values_, defaults_, round
  <2>3. pub.OnBattery = last_values_.onBattery
    BY <2>1, SMT DEF default_values_, defaults_
  <2>4. pub.LowBattery = last_values_.lowBattery
    BY <2>1, SMT DEF default_values_, defaults_
  <2>5. /\ pub.IsCharging = FALSE
        /\ (last_values_.state \in {"Charging", "FullyCharged"}) = FALSE
    BY <2>1, SMT DEF default_values_, defaults_
  <2> QED BY <2>2, <2>3, <2>4, <2>5, Zenon DEF PublishedIsLast
<1>2. PublishedIsLast /\ [Next]_vars => PublishedIsLast'
  <2> SUFFICES ASSUME PublishedIsLast, [Next]_vars PROVE PublishedIsLast'
    OBVIOUS
  <2>1. CASE ApplyChanged BY <2>1, PublishedStays
  <2>2. CASE UNCHANGED <<pub, last_values_>> BY <2>2, Zenon DEF PublishedIsLast
  <2>3. ApplyChanged \/ UNCHANGED <<pub, last_values_>>
    BY Zenon DEF Next, Loop, Handler, Running, Bus, Daemon, Move, bridge, vars,
       OnDevices, OnDeviceAdded, OnChanged, OnDeviceRemoved, OnRegistered,
       OnUnregistered, TryOther, TryBattery, StartUpdate, Read, DropManager,
       Enumerate, EnumerateFails, Start, Stop, AddDevice, RemoveDevice,
       ChangeDevice, ChangeSupply
  <2> QED BY <2>1, <2>2, <2>3
<1> QED BY <1>1, <1>2, PTL DEF Spec

----------------------------------------------------------------------------
(* What is left of a handler.                                              *)

\* The first step is taken off, and no other.
LEMMA TodoTail ==
  ASSUME NEW t \in Seq(Steps), t # <<>>
  PROVE  /\ Tail(t) \in Seq(Steps) /\ Head(t) \in Steps
         /\ \A do : Left(t, do) <=> Left(Tail(t), do) \/ Head(t).do = do
         /\ \A f : ToRead(t, f) <=>
              ToRead(Tail(t), f) \/ (Head(t).do = "read" /\ Head(t).arg = f)
         /\ \A d : ToTry(t, d) <=>
              ToTry(Tail(t), d) \/ (Head(t).do = "try" /\ Head(t).arg = d)
<1> DEFINE r == Tail(t)
           e == Head(t)
<1>1. /\ r \in Seq(Steps) /\ e = t[1] /\ e \in Steps /\ 1 \in 1..Len(t)
      /\ \A i \in 1..Len(r) : i + 1 \in 1..Len(t) /\ r[i] = t[i + 1]
      /\ \A i \in 1..Len(t) : i = 1 \/ (i - 1 \in 1..Len(r) /\ r[i - 1] = t[i])
  BY Tailed
<1> HIDE DEF r, e
<1>2. \A do : Left(t, do) <=> Left(r, do) \/ e.do = do BY <1>1 DEF Left
<1>3. \A f : ToRead(t, f) <=> ToRead(r, f) \/ (e.do = "read" /\ e.arg = f)
  BY <1>1, ZenonT(40) DEF ToRead
<1>4. \A d : ToTry(t, d) <=> ToTry(r, d) \/ (e.do = "try" /\ e.arg = d)
  BY <1>1, ZenonT(40) DEF ToTry
<1> QED BY <1>1, <1>2, <1>3, <1>4 DEF r, e

\* The order says what follows the first step.
LEMMA OrderedTail ==
  ASSUME NEW t \in Seq(Steps), t # <<>>, Ordered(t)
  PROVE  /\ Ordered(Tail(t))
         /\ Head(t).do = "try" =>
              \A do \in {"update", "read", "apply", "drop"} : ~Left(t, do)
         /\ Head(t).do = "read" => /\ Left(Tail(t), "apply") /\ Head(t).arg \in Field
         /\ Head(t).do \in {"update", "apply"} =>
              \A do \in {"try", "update", "read", "apply"} : ~Left(Tail(t), do)
         /\ Head(t).do = "drop" => Tail(t) = <<>>
         /\ Head(t).do # "update" => ~Left(t, "update")
         /\ Head(t).do # "try" => ~Left(t, "try") /\ \A d : ~ToTry(t, d)
<1> DEFINE r == Tail(t)
           e == Head(t)
<1>1. /\ r \in Seq(Steps) /\ Len(r) = Len(t) - 1 /\ e = t[1] /\ 1 \in 1..Len(t)
      /\ \A i \in 1..Len(r) : i + 1 \in 1..Len(t) /\ r[i] = t[i + 1]
      /\ \A i \in 1..Len(t) : i = 1 \/ (i - 1 \in 1..Len(r) /\ r[i - 1] = t[i])
  BY Tailed
<1>2. /\ \A i \in 1..Len(r) : 1 < i + 1 /\ i + 1 # 1
      /\ \A i, j \in 1..Len(r) : i < j <=> i + 1 < j + 1
      /\ \A j \in 1..Len(t) : 1 < j => j - 1 \in 1..Len(r) /\ r[j - 1] = t[j]
      /\ \A i \in 1..Len(r) : \A j \in 1..Len(t) :
           i + 1 < j => /\ i < j - 1 /\ j - 1 \in 1..Len(r) /\ r[j - 1] = t[j]
  BY <1>1
<1>3. \A i \in 1..Len(t) :
        /\ t[i].do = "try" => \A j \in 1..Len(t) : t[j].do = "try"
        /\ t[i].do = "update" => i = 1 /\ \A j \in 1..Len(t) : i < j => t[j].do = "drop"
        /\ t[i].do = "read" => /\ t[i].arg \in Field
                               /\ \E j \in 1..Len(t) : i < j /\ t[j].do = "apply"
        /\ t[i].do = "apply" => \A j \in 1..Len(t) : i < j => t[j].do = "drop"
        /\ t[i].do = "drop" => i = Len(t)
  BY DEF Ordered
<1>4. Len(r) \in Nat BY <1>1
<1> HIDE DEF r, e
<1>5. Ordered(r)
  <2>1. ASSUME NEW i \in 1..Len(r)
        PROVE  /\ r[i].do = "try" => \A j \in 1..Len(r) : r[j].do = "try"
               /\ r[i].do = "update" =>
                    i = 1 /\ \A j \in 1..Len(r) : i < j => r[j].do = "drop"
               /\ r[i].do = "read" => r[i].arg \in Field
               /\ r[i].do = "apply" => \A j \in 1..Len(r) : i < j => r[j].do = "drop"
               /\ r[i].do = "drop" => i = Len(r)
    BY <1>1, <1>2, <1>3
  <2>2. ASSUME NEW i \in 1..Len(r), r[i].do = "read"
        PROVE  \E j \in 1..Len(r) : i < j /\ r[j].do = "apply"
    <3>1. i + 1 \in 1..Len(t) /\ t[i + 1].do = "read" BY <1>1, <2>2
    <3>2. PICK j \in 1..Len(t) : i + 1 < j /\ t[j].do = "apply" BY <1>3, <3>1
    <3> QED BY <1>2, <3>2
  <2> QED BY <2>1, <2>2 DEF Ordered
<1>6. e.do = "try" => \A do \in {"update", "read", "apply", "drop"} : ~Left(t, do)
  BY <1>1, <1>3 DEF Left
<1>7. e.do = "read" => Left(r, "apply") /\ e.arg \in Field
  BY <1>1, <1>2, <1>3 DEF Left
<1>8. e.do \in {"update", "apply"} =>
        \A do \in {"try", "update", "read", "apply"} : ~Left(r, do)
  BY <1>1, <1>2, <1>3 DEF Left
<1>9. e.do = "drop" => r = <<>>
  <2>1. e.do = "drop" => Len(r) = 0 BY <1>1, <1>3, <1>4
  <2> QED BY <1>1, <2>1
<1>10. e.do # "update" => ~Left(t, "update") BY <1>1, <1>3 DEF Left
<1>11. e.do # "try" => ~Left(t, "try") /\ \A d : ~ToTry(t, d)
  BY <1>1, <1>3 DEF Left, ToTry
<1> QED BY <1>5, <1>6, <1>7, <1>8, <1>9, <1>10, <1>11 DEF r, e

\* An empty list.
LEMMA TodoEmpty ==
  /\ <<>> \in Seq(Steps) /\ Ordered(<<>>)
  /\ \A x : ~Left(<<>>, x) /\ ~ToRead(<<>>, x) /\ ~ToTry(<<>>, x)
<1>1. Len(<<>>) = 0 OBVIOUS
<1>2. <<>> \in Seq(Steps) OBVIOUS
<1> QED BY <1>1, <1>2 DEF Ordered, Left, ToRead, ToTry

\* Only an empty list has nothing left.
LEMMA TodoNone ==
  ASSUME NEW t \in Seq(Steps), t # <<>>
  PROVE  \E do \in {"try", "update", "read", "apply", "drop"} : Left(t, do)
<1>1. 1 \in 1..Len(t) /\ t[1] \in Steps OBVIOUS
<1>2. t[1].do \in {"try", "update", "read", "apply", "drop"} BY <1>1 DEF Steps
<1> QED BY <1>1, <1>2 DEF Left

\* A list with a step more at its end.
LEMMA TodoAppended ==
  ASSUME NEW t \in Seq(Steps), NEW e \in Steps
  PROVE  /\ Append(t, e) \in Seq(Steps)
         /\ \A do : Left(Append(t, e), do) <=> Left(t, do) \/ e.do = do
         /\ \A f : ToRead(Append(t, e), f) <=>
              ToRead(t, f) \/ (e.do = "read" /\ e.arg = f)
         /\ \A d : ToTry(Append(t, e), d) <=>
              ToTry(t, d) \/ (e.do = "try" /\ e.arg = d)
         /\ e.do = "drop" /\ ~Left(t, "try") /\ ~Left(t, "drop") /\ Ordered(t) =>
              Ordered(Append(t, e))
<1> DEFINE r == Append(t, e)
<1>1. /\ r \in Seq(Steps) /\ Len(r) = Len(t) + 1 /\ r[Len(t) + 1] = e
      /\ \A i \in 1..Len(t) : i # Len(t) + 1 /\ r[i] = t[i]
      /\ \A i \in 1..(Len(t) + 1) : i \in 1..Len(t) \/ i = Len(t) + 1
  BY Appended
<1>2. /\ Len(t) \in Nat /\ Len(t) + 1 \in 1..Len(r) /\ \A i \in 1..Len(t) : i \in 1..Len(r)
      /\ \A j \in 1..Len(r) : ~(Len(t) + 1 < j)
  BY <1>1
<1> HIDE DEF r
<1>3. \A do : Left(r, do) <=> Left(t, do) \/ e.do = do BY <1>1, <1>2 DEF Left
<1>4. \A f : ToRead(r, f) <=> ToRead(t, f) \/ (e.do = "read" /\ e.arg = f)
  BY <1>1, <1>2 DEF ToRead
<1>5. \A d : ToTry(r, d) <=> ToTry(t, d) \/ (e.do = "try" /\ e.arg = d)
  BY <1>1, <1>2 DEF ToTry
<1>6. ASSUME e.do = "drop", ~Left(t, "try"), ~Left(t, "drop"), Ordered(t)
      PROVE  Ordered(r)
  <2>1. ASSUME NEW i \in 1..Len(t)
        PROVE  /\ t[i].do # "try" /\ t[i].do # "drop"
               /\ t[i].do = "update" => i = 1 /\ \A j \in 1..Len(t) : i < j => t[j].do = "drop"
               /\ t[i].do = "read" => /\ t[i].arg \in Field
                                      /\ \E j \in 1..Len(t) : i < j /\ t[j].do = "apply"
               /\ t[i].do = "apply" => \A j \in 1..Len(t) : i < j => t[j].do = "drop"
    BY <1>6 DEF Ordered, Left
  <2> QED BY <1>1, <1>2, <1>6, <2>1 DEF Ordered
<1> QED BY <1>1, <1>3, <1>4, <1>5, <1>6 DEF r

\* An update, alone or before the manager is dropped.
LEMMA TodoUpdate ==
  /\ Update \in Seq(Steps) /\ Ordered(Update) /\ Update # <<>>
  /\ Left(Update, "update") /\ \A x : Left(Update, x) => x = "update"
  /\ \A x : ~ToRead(Update, x) /\ ~ToTry(Update, x)
  /\ Update \o <<>> = Update
  /\ \A e : Update \o <<e>> = Append(Update, e)
<1>1. Step("update", None) \in Steps BY DEF Step, Steps
<1> DEFINE e == Step("update", None)
<1>2. Update = <<e>> BY DEF Update
<1>3. e.do = "update" BY DEF Step
<1> HIDE DEF e
<1>4. /\ <<e>> \in Seq(Steps) /\ Len(<<e>>) = 1 /\ <<e>>[1] = e /\ <<e>> # <<>>
      /\ <<e>> \o <<>> = <<e>> /\ \A x : <<e>> \o <<x>> = Append(<<e>>, x)
  BY <1>1 DEF e
<1>5. Ordered(<<e>>) BY <1>3, <1>4 DEF Ordered
<1>6. /\ \A x : Left(<<e>>, x) <=> x = "update"
      /\ \A x : ~ToRead(<<e>>, x) /\ ~ToTry(<<e>>, x)
  BY <1>3, <1>4 DEF Left, ToRead, ToTry
<1> QED BY <1>2, <1>4, <1>5, <1>6

\* One step for each device that is listed.
LEMMA TodoTries ==
  ASSUME NEW l \in Seq(Devices)
  PROVE  LET t == [i \in DOMAIN l |-> Step("try", l[i])]
         IN  /\ t \in Seq(Steps) /\ Ordered(t)
             /\ \A x : Left(t, x) => x = "try"
             /\ \A x : ~ToRead(t, x)
             /\ \A i \in DOMAIN l : ToTry(t, l[i])
<1> DEFINE t == [i \in DOMAIN l |-> Step("try", l[i])]
<1>1. Len(l) \in Nat /\ DOMAIN l = 1..Len(l) OBVIOUS
<1>2. \A i \in 1..Len(l) : l[i] \in Devices OBVIOUS
<1>3. \A i \in 1..Len(l) : Step("try", l[i]) \in Steps BY <1>2 DEF Step, Steps
<1>4. t \in [1..Len(l) -> Steps] BY <1>1, <1>3
<1>5. t \in Seq(Steps) /\ Len(t) = Len(l) BY <1>1, <1>4
<1>6. \A i \in 1..Len(l) : t[i].do = "try" /\ t[i].arg = l[i] BY <1>1 DEF Step
<1> HIDE DEF t
<1>7. Ordered(t) BY <1>5, <1>6 DEF Ordered
<1>8. \A x : (Left(t, x) => x = "try") /\ ~ToRead(t, x)
  BY <1>5, <1>6 DEF Left, ToRead
<1>9. \A i \in DOMAIN l : ToTry(t, l[i]) BY <1>1, <1>5, <1>6 DEF ToTry
<1> QED BY <1>5, <1>7, <1>8, <1>9 DEF t

\* reads of some fields and nothing else, to be applied in the end
Updates(u, fields) ==
  /\ u \in Seq(Steps) /\ u # <<>> /\ Ordered(u)
  /\ \A x : Left(u, x) => x \in {"read", "apply"}
  /\ Left(u, "apply") /\ \A f : ToRead(u, f) <=> f \in fields
  /\ \A x : ~ToTry(u, x)
  /\ u \o <<>> = u /\ \A e : u \o <<e>> = Append(u, e)

\* An update reads what there are proxies for.
LEMMA UpdateReads ==
  /\ device_ # None /\ manager_ => Updates(update_steps, Field)
  /\ device_ = None /\ manager_ => Updates(update_steps, Supplied)
  /\ ~manager_ => Updates(update_steps, {})
<1>1. ASSUME device_ # None, manager_ PROVE Updates(update_steps, Field)
  <2> DEFINE u == <<read("pct"), read("onBattery"), read("lowBattery"),
                    read("toEmpty"), read("toFull"), read("state"), apply>>
  <2>1. update_steps = u BY <1>1 DEF update_steps
  <2>2. /\ read("pct") \in Steps /\ read("onBattery") \in Steps
        /\ read("lowBattery") \in Steps /\ read("toEmpty") \in Steps
        /\ read("toFull") \in Steps /\ read("state") \in Steps /\ apply \in Steps
    BY DEF read, apply, Step, Steps, Field, Supplied
  <2>3. u \in Seq(Steps) /\ Len(u) = 7 BY <2>2
  <2>4. /\ u[1] = read("pct") /\ u[2] = read("onBattery") /\ u[3] = read("lowBattery")
        /\ u[4] = read("toEmpty") /\ u[5] = read("toFull") /\ u[6] = read("state")
        /\ u[7] = apply
    OBVIOUS
  <2> HIDE DEF u
  <2>5. /\ \A i \in 1..7 : i \in {1, 2, 3, 4, 5, 6, 7}
        /\ \A f : read(f).do = "read" /\ read(f).arg = f
        /\ apply.do = "apply"
    BY DEF read, apply, Step
  <2>6. /\ u[7].do = "apply" /\ 7 \in 1..7
        /\ \A i \in 1..7 : i # 7 => u[i].do = "read" /\ u[i].arg \in Field /\ i < 7
    BY <2>4, <2>5 DEF Field, Supplied
  <2>7. \A f : ToRead(u, f) <=> f \in Field
    BY <2>3, <2>4, <2>5 DEF ToRead, Field, Supplied
  <2>8. Ordered(u) BY <2>3, <2>6 DEF Ordered
  <2>9. /\ \A x : Left(u, x) => x \in {"read", "apply"}
        /\ Left(u, "apply") /\ \A x : ~ToTry(u, x)
    BY <2>3, <2>6 DEF Left, ToTry
  <2>10. u # <<>> /\ u \o <<>> = u BY <2>3
  <2>11. \A e : u \o <<e>> = Append(u, e) BY <2>3
  <2> QED BY <2>1, <2>3, <2>7, <2>8, <2>9, <2>10, <2>11 DEF Updates
<1>2. ASSUME device_ = None, manager_ PROVE Updates(update_steps, Supplied)
  <2> DEFINE u == <<read("onBattery"), read("lowBattery"), apply>>
  <2>1. update_steps = u BY <1>2 DEF update_steps
  <2>2. read("onBattery") \in Steps /\ read("lowBattery") \in Steps /\ apply \in Steps
    BY DEF read, apply, Step, Steps, Field, Supplied
  <2>3. u \in Seq(Steps) /\ Len(u) = 3 BY <2>2
  <2>4. u[1] = read("onBattery") /\ u[2] = read("lowBattery") /\ u[3] = apply
    OBVIOUS
  <2> HIDE DEF u
  <2>5. /\ \A i \in 1..3 : i \in {1, 2, 3}
        /\ \A f : read(f).do = "read" /\ read(f).arg = f
        /\ apply.do = "apply"
    BY DEF read, apply, Step
  <2>6. /\ u[3].do = "apply" /\ 3 \in 1..3
        /\ \A i \in 1..3 : i # 3 => u[i].do = "read" /\ u[i].arg \in Field /\ i < 3
    BY <2>4, <2>5 DEF Field, Supplied
  <2>7. \A f : ToRead(u, f) <=> f \in Supplied
    BY <2>3, <2>4, <2>5 DEF ToRead, Supplied
  <2>8. Ordered(u) BY <2>3, <2>6 DEF Ordered
  <2>9. /\ \A x : Left(u, x) => x \in {"read", "apply"}
        /\ Left(u, "apply") /\ \A x : ~ToTry(u, x)
    BY <2>3, <2>6 DEF Left, ToTry
  <2>10. u # <<>> /\ u \o <<>> = u BY <2>3
  <2>11. \A e : u \o <<e>> = Append(u, e) BY <2>3
  <2> QED BY <2>1, <2>3, <2>7, <2>8, <2>9, <2>10, <2>11 DEF Updates
<1>3. ASSUME ~manager_ PROVE Updates(update_steps, {})
  <2> DEFINE u == <<apply>>
  <2>1. update_steps = u BY <1>3 DEF update_steps
  <2>2. apply \in Steps /\ apply.do = "apply" BY DEF apply, Step, Steps
  <2>3. u \in Seq(Steps) /\ Len(u) = 1 /\ u[1] = apply BY <2>2
  <2> HIDE DEF u
  <2>4. Ordered(u) BY <2>2, <2>3 DEF Ordered
  <2>5. /\ \A x : Left(u, x) => x \in {"read", "apply"}
        /\ Left(u, "apply") /\ \A x : ~ToTry(u, x) /\ ~ToRead(u, x)
    BY <2>2, <2>3 DEF Left, ToTry, ToRead
  <2>6. u # <<>> /\ u \o <<>> = u /\ \A e : u \o <<e>> = Append(u, e) BY <2>3
  <2> QED BY <2>1, <2>3, <2>4, <2>5, <2>6 DEF Updates
<1> QED BY <1>1, <1>2, <1>3

\* An update that starts is followed by what followed it.
LEMMA TodoStarted ==
  ASSUME NEW t \in Seq(Steps), Ordered(t), t # <<>>, Head(t).do = "update",
         NEW u, NEW fields, Updates(u, fields)
  PROVE  LET v == u \o Tail(t)
         IN  /\ v \in Seq(Steps) /\ Ordered(v) /\ v # <<>>
             /\ Left(v, "apply") /\ ~Left(v, "update") /\ ~Left(v, "try")
             /\ Left(v, "drop") <=> Left(t, "drop")
             /\ \A f : ToRead(v, f) <=> f \in fields
             /\ \A x : ~ToTry(v, x)
<1> DEFINE r == Tail(t)
           v == u \o r
<1>1. /\ r \in Seq(Steps) /\ Ordered(r)
      /\ \A do \in {"try", "update", "read", "apply"} : ~Left(r, do)
      /\ Left(t, "drop") <=> Left(r, "drop")
  BY OrderedTail, TodoTail
<1> HIDE DEF r
<1>2. CASE r = <<>>
  <2>1. v = u BY <1>2 DEF Updates
  <2>2. ~Left(r, "drop") BY <1>2, TodoEmpty
  <2> HIDE DEF v
  <2>3. /\ v \in Seq(Steps) /\ Ordered(v) /\ v # <<>>
        /\ Left(v, "apply") /\ ~Left(v, "update") /\ ~Left(v, "try")
        /\ Left(v, "drop") <=> Left(t, "drop")
        /\ \A f : ToRead(v, f) <=> f \in fields
        /\ \A x : ~ToTry(v, x)
    BY <1>1, <2>1, <2>2 DEF Updates
  <2> QED BY <2>3 DEF v, r
<1>3. CASE r # <<>>
  <2>1. Len(r) \in Nat \ {0} /\ \A i \in 1..Len(r) : r[i] \in Steps BY <1>1, <1>3
  <2>2. \A i \in 1..Len(r) : r[i].do = "drop" BY <1>1, <2>1 DEF Left, Steps
  <2>3. 1 \in 1..Len(r) BY <2>1
  <2>4. Len(r) = 1 BY <1>1, <2>2, <2>3 DEF Ordered
  <2> DEFINE d == r[1]
  <2>5. d \in Steps /\ d.do = "drop" BY <2>1, <2>2, <2>3
  <2>6. r = <<d>> BY <1>1, <2>4
  <2> HIDE DEF d
  <2>7. v = Append(u, d) BY <2>6 DEF Updates
  <2> HIDE DEF v
  <2>8. /\ u \in Seq(Steps) /\ ~Left(u, "try") /\ ~Left(u, "drop") /\ Ordered(u)
        /\ ~Left(u, "update") /\ Left(u, "apply")
        /\ \A f : ToRead(u, f) <=> f \in fields
        /\ \A x : ~ToTry(u, x)
    BY DEF Updates
  <2>9. /\ v \in Seq(Steps) /\ Ordered(v)
        /\ \A do : Left(v, do) <=> Left(u, do) \/ d.do = do
        /\ \A f : ToRead(v, f) <=> ToRead(u, f) \/ (d.do = "read" /\ d.arg = f)
        /\ \A f : ToTry(v, f) <=> ToTry(u, f) \/ (d.do = "try" /\ d.arg = f)
    BY <2>5, <2>7, <2>8, TodoAppended
  <2>10. Left(r, "drop") BY <2>2, <2>3 DEF Left
  <2>11. v # <<>> BY <2>5, <2>9, TodoEmpty
  <2>12. \A f : (ToRead(v, f) <=> f \in fields) /\ ~ToTry(v, f) BY <2>5, <2>8, <2>9
  <2> QED BY <1>1, <2>5, <2>8, <2>9, <2>10, <2>11, <2>12 DEF v, r
<1> QED BY <1>2, <1>3

----------------------------------------------------------------------------
(* The signals and the values.                                             *)

\* In which sets the signals of the daemon are.
LEMMA Messages ==
  /\ Message("Registered", <<>>) \in Starts(Signal)
  /\ Message("Unregistered", <<>>) \in Stops(Signal)
  /\ Message("ManagerChanged", <<>>) \in News
  /\ \A d \in Devices : /\ Message("DeviceAdded", <<d>>) \in Naming(d)
                        /\ Message("DeviceRemoved", <<d>>) \in Removals({d})
                        /\ Message("Changed", <<d>>) \in News
  /\ \A on, paths : Message(on, paths).on = on /\ Message(on, paths).paths = paths
<1>1. <<>> \in Seq(Devices) /\ \A d \in Devices : <<d>> \in Seq(Devices) /\ <<d>>[1] = d
  OBVIOUS
<1>2. \A on, paths : Message(on, paths).on = on /\ Message(on, paths).paths = paths
  BY DEF Message
<1>3. \A on \in Kind, paths \in Seq(Devices) :
        Message(on, paths) \in [on : Kind, paths : Seq(Devices)]
  BY DEF Message
<1>4. \A on \in Kind, paths \in Seq(Devices) :
        (on \in {"DeviceAdded", "DeviceRemoved"} => paths[1] \in Devices) =>
          Message(on, paths) \in Signal
  BY <1>2, <1>3 DEF Signal
<1>5. /\ "Registered" \in Kind /\ "Unregistered" \in Kind /\ "ManagerChanged" \in Kind
      /\ "DeviceAdded" \in Kind /\ "DeviceRemoved" \in Kind /\ "Changed" \in Kind
  BY DEF Kind, ToManager
<1>6. /\ Message("Registered", <<>>) \in Signal
      /\ Message("Unregistered", <<>>) \in Signal
      /\ Message("ManagerChanged", <<>>) \in Signal
  BY <1>1, <1>4, <1>5
<1>7. \A d \in Devices : /\ Message("DeviceAdded", <<d>>) \in Signal
                         /\ Message("DeviceRemoved", <<d>>) \in Signal
                         /\ Message("Changed", <<d>>) \in Signal
  BY <1>1, <1>4, <1>5
<1> QED BY <1>1, <1>2, <1>6, <1>7 DEF Starts, Stops, News, Naming, Removals

\* EnumerateDevices lists the devices there are, each of them.
LEMMA Listings ==
  ASSUME NEW ds \in SUBSET Devices, NEW l \in SetToSeqs(ds)
  PROVE  l \in Seq(Devices) /\ \A d \in ds : \E i \in DOMAIN l : l[i] = d
<1> DEFINE n == Cardinality(ds)
           D == 1..n
<1>1. IsFiniteSet(ds) BY UPowerAssumption, FS_Subset
<1>2. n \in Nat BY <1>1, FS_CardinalityType
<1>3. l \in [D -> ds] /\ \A i, j \in D : i # j => l[i] # l[j] BY DEF SetToSeqs
<1>4. Cardinality(D) = n BY <1>2, FS_Interval
<1>5. l \in Injection(D, ds) BY <1>3, Zenon DEF Injection, IsInjective
<1>6. l \in Surjection(D, ds) BY <1>1, <1>4, <1>5, FS_Injection
<1>7. \A d \in ds : \E i \in D : l[i] = d BY <1>6, Zenon DEF Surjection
<1>8. l \in Seq(Devices) BY <1>2, <1>3
<1> QED BY <1>3, <1>7, <1>8

\* Replacing the value of a field adds none.
LEMMA FieldReplaced ==
  ASSUME NEW r, r = [f \in Field |-> r[f]], NEW g \in Field, NEW v
  PROVE  /\ [r EXCEPT ![g] = v] = [f \in Field |-> [r EXCEPT ![g] = v][f]]
         /\ \A f \in Field : [r EXCEPT ![g] = v][f] = IF f = g THEN v ELSE r[f]
BY SMT

\* The values that are shown without a battery have all the fields.
LEMMA StartValues ==
  /\ default_values_ = [f \in Field |-> default_values_[f]]
  /\ update_start = [f \in Field |-> update_start[f]]
  /\ ~manager_ => update_start = default_values_
<1>1. default_values_ = [f \in Field |-> default_values_[f]]
  BY SMT DEF default_values_, Field, Supplied
<1>2. update_start = [f \in Field |-> update_start[f]]
  <2>1. CASE manager_ BY <2>1, SMT DEF update_start, Field, Supplied
  <2>2. CASE ~manager_ BY <1>1, <2>2, SMT DEF update_start
  <2> QED BY <2>1, <2>2
<1>3. ~manager_ => update_start = default_values_ BY SMT DEF update_start
<1> QED BY <1>1, <1>2, <1>3, SMT

----------------------------------------------------------------------------
(* Types.                                                                  *)

\* What is sent is a signal, of those that are waited for.
LEMMA TypesSent ==
  ASSUME Types, NEW e \in Signal, q' \in {q, Append(q, e)}, UNCHANGED bridge,
         up' \in BOOLEAN, lostBattery' \in BOOLEAN, present' \in SUBSET Devices,
         reading' \in [Batteries -> Readings], supply' \in [Supplied -> BOOLEAN],
         calls' \in Nat
  PROVE  Types'
<1>1. q' \in Seq(Signal) BY QueueAppended, SMTT(20) DEF Types
<1>2. /\ UNCHANGED <<manager_, device_, last_values_, now, todo>>
  BY DEF bridge
<1>3. Reads(todo)' <=> Reads(todo) BY <1>2 DEF Reads
<1>4. Ordered(todo)' <=> Ordered(todo) BY <1>2
<1> QED BY <1>1, <1>2, <1>3, <1>4 DEF Types

\* What the loop does to the types is what it does to a few variables.
LEMMA TypesHandled ==
  ASSUME Types, UNCHANGED daemon, calls' \in Nat, q' \in Seq(Signal),
         manager_' \in BOOLEAN, device_' \in Batteries \cup {None},
         now' = [f \in Field |-> now'[f]],
         last_values_' = [f \in Field |-> last_values_'[f]],
         todo' \in Seq(Steps), Ordered(todo'), Reads(todo)'
  PROVE  Types'
<1>1. UNCHANGED <<up, present, reading, supply, lostBattery>> BY DEF daemon
<1> QED BY <1>1 DEF Types

\* Nothing to read is allowed.
LEMMA ReadsNone ==
  ASSUME \A x : ~Left(todo', "read") /\ ~ToRead(todo', x)
  PROVE  Reads(todo)'
BY DEF Reads

\* A step of the running handler keeps the types.
LEMMA TypesRunning == Types /\ Running => Types'
<1> SUFFICES ASSUME Types, Running PROVE Types' OBVIOUS
<1>0. /\ calls' \in Nat /\ todo \in Seq(Steps) /\ Ordered(todo) /\ Reads(todo)
      /\ q \in Seq(Signal) /\ todo # <<>>
  BY DEF Types, Running, TryOther, TryBattery, StartUpdate, Read, ApplyChanged,
         DropManager, Doing
<1>1. /\ Tail(todo) \in Seq(Steps) /\ Ordered(Tail(todo))
      /\ Left(Tail(todo), "read") => Left(todo, "read")
      /\ \A f : ToRead(Tail(todo), f) => ToRead(todo, f)
  BY <1>0, TodoTail, OrderedTail
<1>2. CASE TryOther
  <2>1. Reads(todo)' BY <1>0, <1>1, <1>2 DEF Reads, TryOther
  <2> QED BY <1>0, <1>1, <1>2, <2>1, TypesHandled DEF TryOther, Types
<1>3. CASE TryBattery
  <2>1. Ordered(todo') /\ todo' \in Seq(Steps) /\ Reads(todo)'
    BY <1>3, TodoUpdate, ReadsNone DEF TryBattery
  <2>2. q' \in Seq(Signal) BY <1>0, <1>3, QueueWithout DEF TryBattery, DeviceLost
  <2>3. device_' \in Batteries BY <1>3 DEF TryBattery, IsBattery
  <2> QED BY <1>0, <1>3, <2>1, <2>2, <2>3, TypesHandled DEF TryBattery, Types
<1>4. CASE StartUpdate
  <2>1. now' = [f \in Field |-> now'[f]] BY <1>4, StartValues, Zenon DEF StartUpdate
  <2>2. /\ todo' = update_steps \o Tail(todo) /\ Head(todo).do = "update"
        /\ UNCHANGED <<manager_, device_>>
    BY <1>4 DEF StartUpdate, Doing
  <2>3. PICK fields : /\ Updates(update_steps, fields) /\ (~manager_ => fields = {})
                      /\ (device_ = None => fields \subseteq Supplied)
    BY UpdateReads
  <2>4. /\ todo' \in Seq(Steps) /\ Ordered(todo')
        /\ \A f : ToRead(todo', f) <=> f \in fields
    BY <1>0, <2>2, <2>3, TodoStarted
  <2>5. Left(todo', "read") => \E f : ToRead(todo', f) BY DEF Left, ToRead
  <2>6. Reads(todo)' BY <2>2, <2>3, <2>4, <2>5 DEF Reads, Types
  <2> QED BY <1>0, <1>4, <2>1, <2>4, <2>6, TypesHandled DEF StartUpdate, Types
<1>5. CASE Read
  <2>1. arg \in Field BY <1>0, <1>5, OrderedTail DEF Read, Doing, arg
  <2>2. now' = [f \in Field |-> now'[f]]
    BY <1>5, <2>1, FieldReplaced, Zenon DEF Read, Types
  <2>3. Reads(todo)' BY <1>0, <1>1, <1>5 DEF Reads, Read
  <2> QED BY <1>0, <1>1, <1>5, <2>2, <2>3, TypesHandled DEF Read, Types
<1>6. CASE ApplyChanged
  <2>1. Reads(todo)' BY <1>0, <1>1, <1>6 DEF Reads, ApplyChanged
  <2> QED BY <1>0, <1>1, <1>6, <2>1, TypesHandled DEF ApplyChanged, Types
<1>7. CASE DropManager
  <2>1. todo' = Update
    BY <1>0, <1>7, OrderedTail, TodoUpdate DEF DropManager, Doing
  <2>2. Ordered(todo') /\ todo' \in Seq(Steps) /\ Reads(todo)'
    BY <2>1, TodoUpdate, ReadsNone
  <2>3. q' \in Seq(Signal) BY <1>0, <1>7, QueueWithout DEF DropManager, ManagerLost
  <2> QED BY <1>0, <1>7, <2>2, <2>3, TypesHandled DEF DropManager, Types
<1> QED BY <1>2, <1>3, <1>4, <1>5, <1>6, <1>7 DEF Running

\* So does a handler that begins,
LEMMA TypesHandler == Types /\ Handler => Types'
<1> SUFFICES ASSUME Types, Handler PROVE Types' OBVIOUS
<1>0. q \in Seq(Signal) /\ q # <<>> /\ todo = <<>>
  BY DEF Types, Handler, OnDevices, OnDeviceAdded, OnChanged, OnDeviceRemoved,
         OnRegistered, OnUnregistered, Handle
<1>1. Tail(q) \in Seq(Signal) /\ Head(q) \in Signal BY <1>0, Tailed
<1>2. /\ Update \in Seq(Steps) /\ Ordered(Update)
      /\ \A x : ~Left(Update, "read") /\ ~ToRead(Update, x)
      /\ <<>> \in Seq(Steps) /\ Ordered(<<>>)
      /\ \A x : ~Left(<<>>, "read") /\ ~ToRead(<<>>, x)
  BY TodoUpdate, TodoEmpty
<1>3. CASE OnDevices
  <2>1. listed \in Seq(Devices) BY <1>1 DEF listed, Signal
  <2>2. /\ todo' \in Seq(Steps) /\ Ordered(todo')
        /\ \A x : ~Left(todo', "read") /\ ~ToRead(todo', x)
    BY <1>3, <2>1, TodoTries DEF OnDevices
  <2> QED BY <1>1, <1>3, <2>2, ReadsNone, TypesHandled DEF OnDevices, Types
<1>4. CASE OnDeviceAdded
  <2>1. about \in Devices BY <1>1, <1>4 DEF OnDeviceAdded, Handle, about, Signal
  <2>2. <<about>> \in Seq(Devices) /\ DOMAIN <<about>> = {1} /\ <<about>>[1] = about
    BY <2>1
  <2>3. todo' = [i \in DOMAIN <<about>> |-> Step("try", <<about>>[i])]
    BY <1>4 DEF OnDeviceAdded
  <2>4. /\ todo' \in Seq(Steps) /\ Ordered(todo')
        /\ \A x : ~Left(todo', "read") /\ ~ToRead(todo', x)
    BY <2>2, <2>3, TodoTries
  <2> QED BY <1>1, <1>4, <2>4, ReadsNone, TypesHandled DEF OnDeviceAdded, Types
<1>5. CASE OnChanged
  BY <1>1, <1>2, <1>5, ReadsNone, TypesHandled DEF OnChanged, Types
<1>6. CASE OnDeviceRemoved
  <2>1. q' \in Seq(Signal)
    BY <1>1, <1>6, QueueWithout DEF OnDeviceRemoved, DeviceLost
  <2>2. todo' \in {Update, <<>>} BY <1>6 DEF OnDeviceRemoved
  <2>3. device_' \in Batteries \cup {None} BY <1>6 DEF OnDeviceRemoved, Types
  <2> QED
    BY <1>2, <1>6, <2>1, <2>2, <2>3, ReadsNone, TypesHandled DEF OnDeviceRemoved, Types
<1>7. CASE OnRegistered
  <2>1. q' \in Seq(Signal) BY <1>1, <1>7, QueueWithout DEF OnRegistered, ManagerLost
  <2>2. todo' = <<>> /\ calls' \in Nat BY <1>0, <1>7 DEF OnRegistered, Types
  <2> QED BY <1>2, <1>7, <2>1, <2>2, ReadsNone, TypesHandled DEF OnRegistered, Types
<1>8. CASE OnUnregistered
  <2>1. q' \in Seq(Signal) BY <1>1, <1>8, QueueWithout DEF OnUnregistered, DeviceLost
  <2> DEFINE d == Step("drop", None)
  <2>2. d \in Steps /\ d.do = "drop" BY DEF Step, Steps
  <2> HIDE DEF d
  <2>3. todo' = Append(Update, d) BY <1>8, TodoUpdate DEF OnUnregistered, d
  <2>4. /\ todo' \in Seq(Steps) /\ Ordered(todo')
        /\ \A x : ~Left(todo', "read") /\ ~ToRead(todo', x)
    BY <2>2, <2>3, TodoUpdate, TodoAppended
  <2> QED BY <1>8, <2>1, <2>4, ReadsNone, TypesHandled DEF OnUnregistered, Types
<1> QED BY <1>3, <1>4, <1>5, <1>6, <1>7, <1>8 DEF Handler

----------------------------------------------------------------------------
(* What the daemon and the bus send.                                       *)

\* A signal is sent by a daemon that is there, starts or stops; that it starts
\* or stops is always heard.
SendsSignal(e) ==
  /\ UNCHANGED bridge
  /\ \/ ~up /\ up' = TRUE /\ e \in Starts(Signal) /\ q' = Append(q, e)
     \/ up /\ up' = FALSE /\ e \in Stops(Signal) /\ q' = Append(q, e)
     \/ /\ up /\ up' = TRUE /\ e \in Signal \ (Starts(Signal) \cup Stops(Signal))
        /\ q' \in {q, Append(q, e)}

\* and the daemon, which sends one signal with every change,
LEMMA DaemonSends ==
  ASSUME Types, Daemon
  PROVE  Types' /\ \E e \in Signal : SendsSignal(e)
<1>0. Starts(Signal) \subseteq Signal /\ Stops(Signal) \subseteq Signal /\ News \subseteq Signal
  BY DEF Starts, Stops, News
<1>1. /\ UNCHANGED bridge /\ Types
  BY DEF Daemon, Start, Stop, AddDevice, RemoveDevice, ChangeDevice, ChangeSupply, Move
<1>2. ASSUME NEW on, NEW paths, Send(on, paths)
      PROVE  /\ q' \in {q, Append(q, Message(on, paths))}
             /\ on \in {"Registered", "Unregistered"} => q' = Append(q, Message(on, paths))
  BY <1>2 DEF Send, Heard, ToManager
<1>3. CASE Start
  <2> DEFINE e == Message("Registered", <<>>)
  <2>1. e \in Starts(Signal) /\ q' = Append(q, e) BY <1>2, <1>3, Messages DEF Start
  <2>2. /\ ~up /\ up' = TRUE /\ present' \in SUBSET Devices /\ lostBattery' = FALSE
        /\ UNCHANGED <<reading, supply, calls>>
    BY <1>3 DEF Start
  <2> HIDE DEF e
  <2>3. Types' BY <1>0, <1>1, <2>1, <2>2, TypesSent DEF Types
  <2>4. SendsSignal(e) BY <1>1, <2>1, <2>2 DEF SendsSignal
  <2> QED BY <1>0, <2>1, <2>3, <2>4
<1>4. CASE Stop
  <2> DEFINE e == Message("Unregistered", <<>>)
  <2>1. e \in Stops(Signal) /\ q' = Append(q, e) BY <1>2, <1>4, Messages DEF Stop
  <2>2. /\ up /\ up' = FALSE /\ calls' = 0
        /\ UNCHANGED <<present, reading, supply, lostBattery>>
    BY <1>4 DEF Stop
  <2> HIDE DEF e
  <2>3. Types' BY <1>0, <1>1, <2>1, <2>2, TypesSent DEF Types
  <2>4. SendsSignal(e) BY <1>1, <2>1, <2>2 DEF SendsSignal
  <2> QED BY <1>0, <2>1, <2>3, <2>4
<1>5. CASE AddDevice
  <2>1. PICK d \in Devices \ present :
          present' = present \cup {d} /\ Send("DeviceAdded", <<d>>)
    BY <1>5 DEF AddDevice
  <2> DEFINE e == Message("DeviceAdded", <<d>>)
  <2>2. e \in Signal /\ e.on = "DeviceAdded" /\ q' \in {q, Append(q, e)}
    BY <1>2, <2>1, Messages DEF Naming
  <2>3. up /\ up' = up /\ UNCHANGED <<reading, supply, lostBattery, calls>>
    BY <1>5 DEF AddDevice
  <2> HIDE DEF e
  <2>4. Types' BY <1>1, <2>1, <2>2, <2>3, TypesSent DEF Types
  <2>5. SendsSignal(e) BY <1>1, <2>2, <2>3 DEF SendsSignal, Starts, Stops, Types
  <2> QED BY <2>2, <2>4, <2>5
<1>6. CASE RemoveDevice
  <2>1. PICK d \in present :
          /\ present' = present \ {d} /\ lostBattery' = (lostBattery \/ d \in Batteries)
          /\ Send("DeviceRemoved", <<d>>)
    BY <1>6, Zenon DEF RemoveDevice
  <2>2. d \in Devices BY DEF Types
  <2> DEFINE e == Message("DeviceRemoved", <<d>>)
  <2>3. e \in Signal /\ e.on = "DeviceRemoved" /\ q' \in {q, Append(q, e)}
    BY <1>2, <2>1, <2>2, Messages DEF Removals
  <2>4. up /\ up' = up /\ UNCHANGED <<reading, supply, calls>>
    BY <1>6 DEF RemoveDevice
  <2> HIDE DEF e
  <2>5. lostBattery' \in BOOLEAN BY <2>1
  <2>6. Types' BY <1>1, <2>1, <2>3, <2>4, <2>5, TypesSent DEF Types
  <2>7. SendsSignal(e) BY <1>1, <2>3, <2>4 DEF SendsSignal, Starts, Stops, Types
  <2> QED BY <2>3, <2>6, <2>7
<1>7. CASE ChangeDevice
  <2>1. PICK d \in present \cap Batteries, r \in Readings :
          reading' = [reading EXCEPT ![d] = r] /\ Send("Changed", <<d>>)
    BY <1>7 DEF ChangeDevice
  <2>2. d \in Devices /\ reading' \in [Batteries -> Readings] BY <2>1 DEF Types
  <2> DEFINE e == Message("Changed", <<d>>)
  <2>3. e \in Signal /\ e.on = "Changed" /\ q' \in {q, Append(q, e)}
    BY <1>0, <1>2, <2>1, <2>2, Messages
  <2>4. up /\ up' = up /\ UNCHANGED <<present, supply, lostBattery, calls>>
    BY <1>7 DEF ChangeDevice
  <2> HIDE DEF e
  <2>5. Types' BY <1>1, <2>2, <2>3, <2>4, TypesSent DEF Types
  <2>6. SendsSignal(e) BY <1>1, <2>3, <2>4 DEF SendsSignal, Starts, Stops, Types
  <2> QED BY <2>3, <2>5, <2>6
<1>8. CASE ChangeSupply
  <2>1. PICK f \in DOMAIN supply : supply' = [supply EXCEPT ![f] = ~@]
    BY <1>8 DEF ChangeSupply
  <2>2. supply' \in [Supplied -> BOOLEAN] BY <2>1 DEF Types
  <2> DEFINE e == Message("ManagerChanged", <<>>)
  <2>3. e \in Signal /\ e.on = "ManagerChanged" /\ q' \in {q, Append(q, e)}
    BY <1>0, <1>2, <1>8, Messages DEF ChangeSupply
  <2>4. up /\ up' = up /\ UNCHANGED <<present, reading, lostBattery, calls>>
    BY <1>8 DEF ChangeSupply
  <2> HIDE DEF e
  <2>5. Types' BY <1>1, <2>2, <2>3, <2>4, TypesSent DEF Types
  <2>6. SendsSignal(e) BY <1>1, <2>3, <2>4 DEF SendsSignal, Starts, Stops, Types
  <2> QED BY <2>3, <2>5, <2>6
<1> QED BY <1>3, <1>4, <1>5, <1>6, <1>7, <1>8 DEF Daemon

\* and the bus, which answers with the devices that are there.
LEMMA EnumerateSends ==
  ASSUME Types, Enumerate
  PROVE  Types' /\ \E e \in Signal : /\ SendsSignal(e) /\ q' = Append(q, e)
                                     /\ e.on = "Devices"
                                     /\ \A d \in present : e \in Naming(d)
<1>1. PICK l \in SetToSeqs(present) : q' = Append(q, Message("Devices", l))
  BY DEF Enumerate
<1>2. /\ up /\ calls > 0 /\ calls' = calls - 1 /\ UNCHANGED <<bridge, daemon>>
  BY DEF Enumerate
<1>3. l \in Seq(Devices) /\ \A d \in present : \E i \in DOMAIN l : l[i] = d
  BY Listings DEF Types
<1> DEFINE e == Message("Devices", l)
<1>4. e.on = "Devices" /\ e.paths = l BY Messages
<1>5. e \in Signal BY <1>3, <1>4 DEF Message, Signal, Kind
<1>6. q' = Append(q, e) BY <1>1
<1> HIDE DEF e
<1>7. \A d \in present : e \in Naming(d) BY <1>3, <1>4, <1>5 DEF Naming
<1>8. UNCHANGED <<up, present, reading, supply, lostBattery>> BY <1>2 DEF daemon
<1>9. calls' \in Nat BY <1>2 DEF Types
<1>10. Types' BY <1>2, <1>5, <1>6, <1>8, <1>9, TypesSent DEF Types
<1>11. SendsSignal(e)
  BY <1>2, <1>4, <1>5, <1>6, <1>8 DEF SendsSignal, Starts, Stops, Types
<1> QED BY <1>4, <1>5, <1>6, <1>7, <1>10, <1>11

\* Every step keeps the types.
LEMMA TypesSteps == Types /\ [Next]_vars => Types'
<1> SUFFICES ASSUME Types, [Next]_vars PROVE Types' OBVIOUS
<1>1. CASE EnumerateFails \/ UNCHANGED vars
  <2>1. calls' \in Nat /\ UNCHANGED <<bridge, daemon, q>>
    BY <1>1 DEF EnumerateFails, vars, Types
  <2>2. UNCHANGED <<manager_, device_, last_values_, now, todo, up, present, reading,
                    supply, lostBattery>>
    BY <2>1 DEF bridge, daemon
  <2>3. Reads(todo)' <=> Reads(todo) BY <2>2 DEF Reads
  <2>4. Ordered(todo)' <=> Ordered(todo) BY <2>2
  <2> QED BY <2>1, <2>2, <2>3, <2>4 DEF Types
<1>2. Running \/ Handler \/ Daemon \/ Enumerate \/ EnumerateFails \/ UNCHANGED vars
  BY Zenon DEF Next, Loop, Bus
<1> QED
  BY <1>1, <1>2, TypesRunning, TypesHandler, DaemonSends, EnumerateSends

----------------------------------------------------------------------------
(* Whether the daemon is there, as it is known.                            *)

\* What is known of the daemon's life depends on the queue only.
LEMMA LifeUnchanged ==
  ASSUME Lives, UNCHANGED <<q, up>>
  PROVE  Lives' /\ (Outside' <=> Outside)
BY DEF Lives, Outside, Life, Absent

\* Running a handler, what is known stays.
LEMMA LivesRunning ==
  ASSUME Types, Lives, Running
  PROVE  /\ Lives' /\ (Outside' <=> Outside) /\ UNCHANGED daemon /\ calls' = calls
         /\ todo \in Seq(Steps) /\ Ordered(todo) /\ Reads(todo) /\ todo # <<>>
<1>1. ASSUME UNCHANGED <<q, daemon>> PROVE Lives' /\ (Outside' <=> Outside)
  BY <1>1, LifeUnchanged DEF daemon
<1>2. ASSUME q' \in {DeviceLost(q), ManagerLost(q)}, UNCHANGED daemon
      PROVE  Lives' /\ (Outside' <=> Outside)
  <2>1. PICK kinds : /\ "Registered" \notin kinds /\ "Unregistered" \notin kinds
                     /\ q' = Without(q, kinds)
    BY <1>2 DEF DeviceLost, ManagerLost, ToManager
  <2>2. q \in Seq(Signal) /\ up \in BOOLEAN /\ up' = up BY <1>2 DEF Types, daemon
  <2> QED BY <2>1, <2>2, LifeWithout DEF Lives, Outside
<1>3. UNCHANGED daemon /\ calls' = calls /\ q' \in {q, DeviceLost(q), ManagerLost(q)}
  BY DEF Running, TryOther, TryBattery, StartUpdate, Read, ApplyChanged, DropManager
<1>4. todo \in Seq(Steps) /\ Ordered(todo) /\ Reads(todo) /\ todo # <<>>
  BY DEF Types, Running, TryOther, TryBattery, StartUpdate, Read, ApplyChanged,
         DropManager, Doing
<1> QED BY <1>1, <1>2, <1>3, <1>4

\* Handling a signal, the daemon is known to be there unless it says not.
LEMMA LivesHandler ==
  ASSUME Types, Lives, Handler
  PROVE  /\ Lives' /\ (Outside' <=> Head(q) \in Stops(Signal)) /\ UNCHANGED daemon
         /\ q \in Seq(Signal) /\ q # <<>> /\ todo = <<>>
         /\ Tail(q) \in Seq(Signal) /\ Head(q) \in Signal
<1>1. q \in Seq(Signal) /\ q # <<>> /\ todo = <<>> /\ UNCHANGED daemon
  BY DEF Types, Handler, OnDevices, OnDeviceAdded, OnChanged, OnDeviceRemoved,
         OnRegistered, OnUnregistered, Handle
<1>2. up \in BOOLEAN /\ up' = up BY <1>1 DEF Types, daemon
<1>3. Tail(q) \in Seq(Signal) /\ Head(q) \in Signal BY <1>1, Tailed
<1>4. Life(Signal, Tail(q), up) /\ (Absent(Signal, Tail(q), up) <=> Head(q) \in Stops(Signal))
  BY <1>1, <1>2, LifeHandled DEF Lives
<1>5. q' \in {Tail(q), DeviceLost(Tail(q)), ManagerLost(Tail(q))}
  BY DEF Handler, OnDevices, OnDeviceAdded, OnChanged, OnDeviceRemoved,
         OnRegistered, OnUnregistered
<1>6. ASSUME q' = Tail(q) PROVE Lives' /\ (Outside' <=> Head(q) \in Stops(Signal))
  BY <1>2, <1>4, <1>6 DEF Lives, Outside
<1>7. ASSUME q' \in {DeviceLost(Tail(q)), ManagerLost(Tail(q))}
      PROVE  Lives' /\ (Outside' <=> Head(q) \in Stops(Signal))
  <2>1. PICK kinds : /\ "Registered" \notin kinds /\ "Unregistered" \notin kinds
                     /\ q' = Without(Tail(q), kinds)
    BY <1>7 DEF DeviceLost, ManagerLost, ToManager
  <2> DEFINE t == Without(Tail(q), kinds)
  <2>2. Life(Signal, t, up) /\ (Absent(Signal, t, up) <=> Absent(Signal, Tail(q), up))
    BY <1>2, <1>3, <1>4, <2>1, LifeWithout
  <2> HIDE DEF t
  <2>3. q' = t BY <2>1 DEF t
  <2> QED BY <1>2, <1>4, <2>2, <2>3 DEF Lives, Outside
<1>8. Lives' /\ (Outside' <=> Head(q) \in Stops(Signal)) BY <1>5, <1>6, <1>7
<1> QED BY <1>1, <1>3, <1>8

\* A daemon that is there sends, starts and stops with those who know it.
LEMMA LivesSent ==
  ASSUME Types, Lives, NEW e \in Signal, SendsSignal(e)
  PROVE  Lives' /\ (Outside' <=> Outside)
<1>0. q \in Seq(Signal) /\ up \in BOOLEAN BY DEF Types
<1>1. CASE ~up /\ up' = TRUE /\ e \in Starts(Signal) /\ q' = Append(q, e)
  <2>1. Life(Signal, q, FALSE) /\ (Outside <=> Absent(Signal, q, FALSE))
    BY <1>0, <1>1 DEF Lives, Outside, Life, Absent
  <2>2. Life(Signal, q', TRUE) /\ (Absent(Signal, q', TRUE) <=> Absent(Signal, q, FALSE))
    BY <1>0, <1>1, <2>1, LifeStarted
  <2> QED BY <1>1, <2>1, <2>2 DEF Lives, Outside
<1>2. CASE up /\ q' = Append(q, e) /\ e \notin Starts(Signal) /\ up' = (e \notin Stops(Signal))
  <2>1. Life(Signal, q, TRUE) /\ (Outside <=> Absent(Signal, q, TRUE))
    BY <1>0, <1>2 DEF Lives, Outside, Life, Absent
  <2>2. up' \in BOOLEAN BY <1>2
  <2>3. Life(Signal, q', up') /\ (Absent(Signal, q', up') <=> Absent(Signal, q, TRUE))
    BY <1>0, <1>2, <2>1, <2>2, LifeSent
  <2> QED BY <2>1, <2>3 DEF Lives, Outside
<1>3. CASE q' = q /\ up' = up BY <1>3, LifeUnchanged
<1>4. e \in Stops(Signal) => e \notin Starts(Signal) BY DEF Starts, Stops
<1> QED BY <1>0, <1>1, <1>2, <1>3, <1>4 DEF SendsSignal

----------------------------------------------------------------------------
(* The defaults.                                                           *)

\* A handler that goes on leaves the defaults shown, if they are to be.
LEMMA DefaultsRunning == Types /\ Lives /\ Defaults /\ Running => Defaults'
<1> SUFFICES ASSUME Types, Lives, Defaults, Running PROVE Defaults' OBVIOUS
<1>0. /\ Outside' <=> Outside
      /\ todo \in Seq(Steps) /\ Ordered(todo) /\ Reads(todo) /\ todo # <<>>
  BY LivesRunning
<1>1. /\ \A do : Left(todo, do) <=> Left(Tail(todo), do) \/ Head(todo).do = do
      /\ Head(todo).do = "read" => Left(Tail(todo), "apply")
      /\ Head(todo).do = "apply" => ~Left(Tail(todo), "apply")
      /\ Head(todo).do = "try" => ~Left(todo, "apply")
      /\ Head(todo).do = "update" => ~Left(Tail(todo), "try")
  BY <1>0, TodoTail, OrderedTail
<1>2. /\ \A x : ~Left(<<>>, x) /\ (Left(Update, x) => x = "update")
      /\ Update # <<>>
  BY TodoEmpty, TodoUpdate
\* a running handler is that of one who knows the daemon, or has lost it
<1>3. Outside => Gone /\ device_ = None /\ ~Left(todo, "try")
  BY <1>0 DEF Defaults
<1>4. CASE TryOther \/ TryBattery
  <2>1. Left(todo, "try") BY <1>1, <1>4 DEF TryOther, TryBattery, Doing
  <2>2. ~Outside /\ ~Outside' /\ ~Gone /\ manager_ /\ ~Left(todo, "drop")
    BY <1>0, <1>3, <2>1 DEF Defaults, Gone
  <2>3. manager_' = manager_ /\ todo' \in {Tail(todo), Update}
    BY <1>4 DEF TryOther, TryBattery
  <2>4. ~Left(todo', "drop") BY <1>1, <1>2, <2>2, <2>3
  <2> QED BY <2>2, <2>3, <2>4 DEF Defaults, Gone
<1>5. CASE StartUpdate
  <2>1. /\ todo' = update_steps \o Tail(todo) /\ Head(todo).do = "update"
        /\ now' = update_start /\ UNCHANGED <<manager_, device_, last_values_>>
    BY <1>5 DEF StartUpdate, Doing
  <2>2. PICK fields : Updates(update_steps, fields) BY UpdateReads DEF Types
  <2>3. /\ todo' # <<>> /\ ~Left(todo', "try")
        /\ Left(todo', "drop") <=> Left(todo, "drop")
    BY <1>0, <2>1, <2>2, TodoStarted
  <2>4. ~manager_ => now' = default_values_ BY <2>1, StartValues
  <2>5. Gone' <=> Gone BY <2>1, <2>3 DEF Gone
  <2> QED BY <1>0, <1>3, <2>1, <2>3, <2>4, <2>5 DEF Defaults
<1>6. CASE Read
  <2>1. /\ todo' = Tail(todo) /\ Head(todo).do = "read"
        /\ UNCHANGED <<manager_, device_, last_values_>>
    BY <1>6 DEF Read, Doing
  <2>2. manager_ BY <1>0, <1>1, <2>1 DEF Reads
  <2>3. todo' # <<>> /\ (Left(todo', "drop") <=> Left(todo, "drop"))
    BY <1>1, <1>2, <2>1
  <2>4. Left(todo', "try") => Left(todo, "try") BY <1>1, <2>1
  <2>5. Gone' <=> Gone BY <2>1, <2>3 DEF Gone
  <2> QED BY <1>0, <1>3, <2>1, <2>2, <2>3, <2>4, <2>5 DEF Defaults
<1>7. CASE ApplyChanged
  <2>1. /\ todo' = Tail(todo) /\ Head(todo).do = "apply" /\ last_values_' = now
        /\ UNCHANGED <<manager_, device_>>
    BY <1>7 DEF ApplyChanged, Doing
  <2>2. /\ Left(todo', "drop") <=> Left(todo, "drop")
        /\ ~Left(todo', "apply") /\ Left(todo, "apply")
        /\ Left(todo', "try") => Left(todo, "try")
    BY <1>1, <2>1
  <2>3. Gone' <=> Gone BY <2>1, <2>2 DEF Gone
  <2>4. Outside /\ todo' = <<>> => ~manager_ BY <1>2, <1>3, <2>1, <2>2 DEF Gone
  <2> QED BY <1>0, <1>3, <2>1, <2>2, <2>3, <2>4 DEF Defaults
<1>8. CASE DropManager
  <2>1. todo' = Update \o Tail(todo) /\ Head(todo).do = "drop" /\ manager_' = FALSE
        /\ device_' = device_
    BY <1>8 DEF DropManager, Doing
  <2>2. todo' = Update BY <1>0, <2>1, OrderedTail, TodoUpdate
  <2>3. Gone /\ Outside /\ device_ = None BY <1>1, <1>3, <2>1 DEF Gone, Defaults
  <2> QED BY <1>0, <1>2, <2>1, <2>2, <2>3 DEF Defaults, Gone
<1> QED BY <1>4, <1>5, <1>6, <1>7, <1>8 DEF Running

\* A handler that begins shows them when the daemon is gone.
LEMMA DefaultsHandler == Types /\ Lives /\ Defaults /\ Handler => Defaults'
<1> SUFFICES ASSUME Types, Lives, Defaults, Handler PROVE Defaults' OBVIOUS
<1>0. /\ Outside' <=> Head(q) \in Stops(Signal)
      /\ q # <<>> /\ todo = <<>> /\ Head(q) \in Signal
      /\ Tail(q) \in Seq(Signal)
  BY LivesHandler
<1>1. /\ \A x : ~Left(<<>>, x) /\ (Left(Update, x) => x = "update")
      /\ Update # <<>>
  BY TodoEmpty, TodoUpdate
<1>2. Head(q) \notin Starts(Signal) => manager_
  BY <1>0, <1>1 DEF Defaults, Gone, Outside, Absent
<1>3. CASE OnDevices \/ OnDeviceAdded \/ OnChanged \/ OnDeviceRemoved
  <2>1. Head(q).on \notin {"Registered", "Unregistered"} /\ manager_' = manager_
    BY <1>3 DEF OnDevices, OnDeviceAdded, OnChanged, OnDeviceRemoved, Handle
  <2>2. ~Outside' /\ manager_' = TRUE
    BY <1>0, <1>2, <2>1 DEF Starts, Stops, Types
  <2>3. ~Left(todo', "drop")
    <3>1. CASE OnDevices
      <4>1. listed \in Seq(Devices) BY <1>0 DEF listed, Signal
      <4> QED BY <3>1, <4>1, TodoTries DEF OnDevices
    <3>2. CASE OnDeviceAdded
      <4>1. about \in Devices BY <1>0, <3>2 DEF OnDeviceAdded, Handle, about, Signal
      <4>2. /\ <<about>> \in Seq(Devices) /\ DOMAIN <<about>> = {1}
            /\ <<about>>[1] = about
        BY <4>1
      <4>3. todo' = [i \in DOMAIN <<about>> |-> Step("try", <<about>>[i])]
        BY <3>2 DEF OnDeviceAdded
      <4> QED BY <4>2, <4>3, TodoTries
    <3>3. CASE OnChanged BY <1>1, <3>3 DEF OnChanged
    <3>4. CASE OnDeviceRemoved BY <1>1, <3>4 DEF OnDeviceRemoved
    <3> QED BY <1>3, <3>1, <3>2, <3>3, <3>4
  <2> QED BY <2>2, <2>3 DEF Defaults, Gone
<1>4. CASE OnRegistered
  <2>1. Head(q).on = "Registered" /\ manager_' = TRUE /\ todo' = <<>>
    BY <1>0, <1>4 DEF OnRegistered, Handle
  <2>2. ~Outside' BY <1>0, <2>1 DEF Stops
  <2> QED BY <1>1, <2>1, <2>2 DEF Defaults, Gone
<1>5. CASE OnUnregistered
  <2>1. /\ Head(q).on = "Unregistered" /\ manager_' = manager_ /\ device_' = None
        /\ todo' = Update \o <<Step("drop", None)>>
    BY <1>5 DEF OnUnregistered, Handle
  <2>2. Head(q) \in Stops(Signal) /\ Head(q) \notin Starts(Signal) BY <1>0, <2>1 DEF Stops, Starts
  <2> DEFINE d == Step("drop", None)
  <2>3. d \in Steps /\ d.do = "drop" BY DEF Step, Steps
  <2> HIDE DEF d
  <2>4. todo' = Append(Update, d) BY <2>1, TodoUpdate DEF d
  <2>5. /\ \A x : Left(todo', x) <=> Left(Update, x) \/ d.do = x
        /\ todo' # <<>>
    <3>1. Update \in Seq(Steps) BY TodoUpdate
    <3> QED BY <2>3, <2>4, <3>1, TodoAppended, Headed
  <2>6. /\ Left(todo', "drop") /\ ~Left(todo', "try") /\ ~Left(todo', "apply")
        /\ manager_' = TRUE
    BY <1>1, <1>2, <2>1, <2>2, <2>3, <2>5 DEF Types
  <2> QED BY <1>0, <2>1, <2>2, <2>5, <2>6 DEF Defaults, Gone
<1> QED BY <1>3, <1>4, <1>5 DEF Handler

\* A signal that is sent leaves them shown.
LEMMA DefaultsSent ==
  ASSUME Types, Lives, Defaults, NEW e \in Signal, SendsSignal(e)
  PROVE  Defaults'
<1>1. Outside' <=> Outside BY LivesSent
<1>2. UNCHANGED <<manager_, device_, last_values_, now, todo>>
  BY DEF SendsSignal, bridge
<1>3. Gone' <=> Gone BY <1>2 DEF Gone
<1> QED BY <1>1, <1>2, <1>3 DEF Defaults

\* Every step keeps what is known of the daemon's life, and the defaults.
LEMMA LivesSteps ==
  ASSUME Types, Lives, Defaults, [Next]_vars
  PROVE  Lives' /\ Defaults'
<1>1. ASSUME EnumerateFails \/ UNCHANGED vars PROVE Lives' /\ Defaults'
  <2>1. UNCHANGED <<bridge, daemon, q>> BY <1>1 DEF EnumerateFails, vars
  <2>2. UNCHANGED <<manager_, device_, last_values_, now, todo, up, q>>
    BY <2>1 DEF bridge, daemon
  <2>3. Lives' /\ (Outside' <=> Outside) BY <2>2, LifeUnchanged
  <2>4. Gone' <=> Gone BY <2>2 DEF Gone
  <2> QED BY <2>2, <2>3, <2>4 DEF Defaults
<1>2. ASSUME Daemon \/ Enumerate PROVE Lives' /\ Defaults'
  <2>1. PICK e \in Signal : SendsSignal(e) BY <1>2, DaemonSends, EnumerateSends
  <2> QED BY <2>1, LivesSent, DefaultsSent
<1>3. Running \/ Handler \/ Daemon \/ Enumerate \/ EnumerateFails \/ UNCHANGED vars
  BY Zenon DEF Next, Loop, Bus
<1> QED
  BY <1>1, <1>2, <1>3, LivesRunning, DefaultsRunning, LivesHandler, DefaultsHandler

----------------------------------------------------------------------------
(* What is shown.                                                          *)

\* The current values are those of the same proxies and of the same daemon.
LEMMA CurrentStays ==
  ASSUME UNCHANGED <<manager_, device_, supply>>,
         device_ # None => reading'[device_] = reading[device_]
  PROVE  \A f : Current(f)' = Current(f)
<1>1. update_start' = update_start BY SMT DEF update_start
<1> QED BY <1>1 DEF Current

\* A signal does not disturb what is shown, unless it tells of a change.
LEMMA ShownSent ==
  ASSUME Types, Shown, UNCHANGED bridge, up, NEW e \in Signal,
         q' \in {q, Append(q, e)},
         Settled' /\ device_ \in present => device_ \in present',
         Settled' /\ NoneIn(q', News) =>
           supply' = supply /\ (device_ # None => reading'[device_] = reading[device_])
  PROVE  Shown'
<1> SUFFICES ASSUME Settled' PROVE Shown' BY DEF Shown
<1>1. UNCHANGED <<manager_, device_, last_values_, now, todo>> BY DEF bridge
<1>2. q \in Seq(Signal) BY DEF Types
<1>3. \A X : NoneIn(q', X) => NoneIn(q, X) BY <1>2, QueueAppended
<1>4. Gone' <=> Gone BY <1>1 DEF Gone
<1>5. Settled BY <1>1, <1>3, <1>4 DEF Settled
<1>6. device_' # None => device_' \in present' BY <1>1, <1>5 DEF Shown
<1>7. ~NoneIn(q', News) \/ \A f : Current(f)' = Current(f)
  BY <1>1, CurrentStays
<1> QED BY <1>1, <1>3, <1>5, <1>6, <1>7 DEF Shown

\* A handler that goes on leads to the battery as it is.
LEMMA ShownRunning ==
  ASSUME Types, Lives, Shown, Running
  PROVE  Shown'
<1> SUFFICES ASSUME Settled' PROVE Shown' BY DEF Shown
<1>0. /\ UNCHANGED <<up, present, reading, supply>>
      /\ todo \in Seq(Steps) /\ Ordered(todo) /\ Reads(todo) /\ todo # <<>>
  BY LivesRunning DEF daemon
<1>1. /\ \A do : Left(todo, do) <=> Left(Tail(todo), do) \/ Head(todo).do = do
      /\ \A f : ToRead(todo, f) <=>
           ToRead(Tail(todo), f) \/ (Head(todo).do = "read" /\ Head(todo).arg = f)
      /\ Head(todo).do = "try" => \A do \in {"update", "apply", "drop"} : ~Left(todo, do)
      /\ Head(todo).do = "read" => Left(Tail(todo), "apply")
      /\ Head(todo).do = "apply" =>
           ~Left(Tail(todo), "read") /\ ~Left(Tail(todo), "apply")
  BY <1>0, TodoTail, OrderedTail
<1>2. Left(Update, "update") /\ ~Left(Update, "apply") BY TodoUpdate
<1>3. ASSUME UNCHANGED <<manager_, device_, q>>,
             Left(todo', "drop") <=> Left(todo, "drop")
      PROVE  Settled /\ manager_ /\ (device_ # None => device_ \in present)
  BY <1>0, <1>3 DEF Settled, Gone, Shown
<1>4. CASE TryOther
  <2>1. /\ todo' = Tail(todo) /\ Head(todo).do = "try"
        /\ UNCHANGED <<manager_, device_, last_values_, now, q>>
    BY <1>4 DEF TryOther, Doing
  <2>2. \A do \in {"update", "apply", "drop"} : ~Left(todo, do) /\ ~Left(todo', do)
    BY <1>1, <2>1
  <2>3. Settled /\ (device_ # None => device_ \in present) BY <1>3, <2>1, <2>2
  <2>4. \A f : Current(f)' = Current(f) BY <1>0, <2>1, CurrentStays
  <2> QED BY <1>0, <2>1, <2>2, <2>3, <2>4 DEF Shown
<1>5. CASE TryBattery
  BY <1>0, <1>2, <1>5 DEF TryBattery, IsBattery, Shown
<1>6. CASE StartUpdate
  <2>1. /\ todo' = update_steps \o Tail(todo) /\ Head(todo).do = "update"
        /\ now' = update_start /\ UNCHANGED <<manager_, device_, last_values_, q>>
    BY <1>6 DEF StartUpdate, Doing
  <2>2. PICK fields : /\ Updates(update_steps, fields)
                      /\ device_ # None /\ manager_ => fields = Field
                      /\ device_ = None /\ manager_ => fields = Supplied
    BY UpdateReads DEF Types
  <2>3. /\ Left(todo', "apply") /\ (Left(todo', "drop") <=> Left(todo, "drop"))
        /\ \A f : ToRead(todo', f) <=> f \in fields
    BY <1>0, <2>1, <2>2, TodoStarted
  <2>4. manager_ /\ (device_ # None => device_ \in present) BY <1>3, <2>1, <2>3
  <2>5. \A f : Current(f)' = Current(f) BY <1>0, <2>1, CurrentStays
  <2>6. ASSUME NEW f \in Field, f \notin fields PROVE now'[f] = Current(f)
    BY <2>1, <2>2, <2>4, <2>6 DEF Current
  <2> QED BY <1>0, <2>1, <2>3, <2>4, <2>5, <2>6 DEF Shown
<1>7. CASE Read
  <2>1. /\ todo' = Tail(todo) /\ Head(todo).do = "read" /\ now' = [now EXCEPT ![arg] = Answer(arg)]
        /\ UNCHANGED <<manager_, device_, last_values_, q>>
    BY <1>7 DEF Read, Doing
  <2>2. arg \in Field /\ ToRead(todo, arg)
    BY <1>0, <1>1, <2>1, OrderedTail DEF arg
  <2>3. /\ Left(todo', "apply") /\ Left(todo, "apply")
        /\ Left(todo', "drop") <=> Left(todo, "drop")
    BY <1>1, <2>1
  <2>4. Settled /\ (device_ # None => device_ \in present) BY <1>3, <2>1, <2>3
  <2>5. \A f : Current(f)' = Current(f) BY <1>0, <2>1, CurrentStays
  <2>6. \A f \in Field : now'[f] = IF f = arg THEN Answer(arg) ELSE now[f]
    BY <2>1, <2>2, FieldReplaced, Zenon DEF Types
  <2>7. Answer(arg) = Current(arg)
    <3>1. CASE arg \in Supplied
      <4>1. supply[arg] \in BOOLEAN BY <3>1 DEF Types
      <4>2. up BY <2>4 DEF Settled
      <4>3. CASE supply[arg] = TRUE BY <3>1, <4>2, <4>3 DEF Answer, Current, Supplied
      <4>4. CASE supply[arg] = FALSE BY <3>1, <4>2, <4>4 DEF Answer, Current, Supplied
      <4> QED BY <4>1, <4>3, <4>4
    <3>2. CASE arg \notin Supplied
      <4>1. device_ # None BY <1>0, <2>2, <3>2 DEF Reads
      <4>2. up /\ device_ \in present BY <2>4, <4>1 DEF Settled
      <4> QED BY <3>2, <4>1, <4>2 DEF Answer, Current, Supplied
    <3> QED BY <3>1, <3>2
  <2>8. \A f \in Field : f # arg /\ ToRead(todo, f) => ToRead(todo', f)
    BY <1>1, <2>1 DEF arg
  <2>9. ASSUME NEW f \in Field
        PROVE  ToRead(todo', f) \/ ~NoneIn(q', News) \/ now'[f] = Current(f)'
    <3>1. CASE f = arg BY <2>5, <2>6, <2>7, <3>1
    <3>2. CASE f # arg BY <2>1, <2>3, <2>4, <2>5, <2>6, <2>8, <3>2 DEF Shown
    <3> QED BY <3>1, <3>2
  <2> QED BY <1>0, <2>1, <2>3, <2>4, <2>9 DEF Shown
<1>8. CASE ApplyChanged
  <2>1. /\ todo' = Tail(todo) /\ Head(todo).do = "apply" /\ last_values_' = now
        /\ UNCHANGED <<manager_, device_, q>>
    BY <1>8 DEF ApplyChanged, Doing
  <2>2. /\ Left(todo, "apply") /\ ~Left(todo', "apply")
        /\ Left(todo', "drop") <=> Left(todo, "drop")
    BY <1>1, <2>1
  <2>3. \A f : ToRead(Tail(todo), f) => Left(Tail(todo), "read") BY DEF Left, ToRead
  <2>4. \A f : ~ToRead(todo, f) BY <1>1, <2>1, <2>3
  <2>5. Settled /\ (device_ # None => device_ \in present) BY <1>3, <2>1, <2>2
  <2>6. \A f : Current(f)' = Current(f) BY <1>0, <2>1, CurrentStays
  <2>7. ~NoneIn(q, News) \/ \A f \in Field : now[f] = Current(f)
    BY <2>2, <2>4, <2>5 DEF Shown
  <2> QED BY <1>0, <2>1, <2>2, <2>5, <2>6, <2>7 DEF Shown
<1>9. CASE DropManager BY <1>9 DEF DropManager, Settled, Gone
<1> QED BY <1>4, <1>5, <1>6, <1>7, <1>8, <1>9 DEF Running

\* A handler that begins leads to the battery as it is.
LEMMA ShownHandler ==
  ASSUME Types, Lives, Defaults, Shown, Handler
  PROVE  Shown'
<1> SUFFICES ASSUME Settled' PROVE Shown' BY DEF Shown
<1>0. /\ Outside' <=> Head(q) \in Stops(Signal)
      /\ UNCHANGED <<up, present, reading, supply>>
      /\ q \in Seq(Signal) /\ q # <<>> /\ todo = <<>>
      /\ Tail(q) \in Seq(Signal) /\ Head(q) \in Signal
  BY LivesHandler DEF daemon
<1>1. /\ \A X : NoneIn(q, X) <=> NoneIn(Tail(q), X) /\ Head(q) \notin X
      /\ \A x : ~Left(<<>>, x)
      /\ Left(Update, "update") /\ ~Left(Update, "apply") /\ ~Left(Update, "drop")
  BY <1>0, QueueHandled, TodoEmpty, TodoUpdate
\* a signal that neither changes the proxies nor tells of a change
<1>2. ASSUME UNCHANGED <<manager_, device_, last_values_>>, q' = Tail(q),
             ~Left(todo', "drop"), ~Left(todo', "apply"),
             Head(q) \notin News, Head(q) \notin Stops(Signal), Head(q) \notin Removals({device_})
      PROVE  Shown'
  <2>1. Settled BY <1>0, <1>1, <1>2 DEF Settled, Gone
  <2>2. \A f : Current(f)' = Current(f) BY <1>0, <1>2, CurrentStays
  <2>3. NoneIn(q', News) <=> NoneIn(q, News) BY <1>1, <1>2
  <2> QED BY <1>0, <1>1, <1>2, <2>1, <2>2, <2>3 DEF Shown
<1>3. CASE OnDevices
  <2>1. listed \in Seq(Devices) BY <1>0 DEF listed, Signal
  <2>2. ~Left(todo', "drop") /\ ~Left(todo', "apply")
    BY <1>3, <2>1, TodoTries DEF OnDevices
  <2> QED BY <1>0, <1>2, <1>3, <2>2 DEF OnDevices, Handle, News, Stops, Removals
<1>4. CASE OnDeviceAdded
  <2>1. about \in Devices BY <1>0, <1>4 DEF OnDeviceAdded, Handle, about, Signal
  <2>2. <<about>> \in Seq(Devices) /\ DOMAIN <<about>> = {1} /\ <<about>>[1] = about
    BY <2>1
  <2>3. todo' = [i \in DOMAIN <<about>> |-> Step("try", <<about>>[i])]
    BY <1>4 DEF OnDeviceAdded
  <2>4. ~Left(todo', "drop") /\ ~Left(todo', "apply") BY <2>2, <2>3, TodoTries
  <2> QED BY <1>0, <1>2, <1>4, <2>4 DEF OnDeviceAdded, Handle, News, Stops, Removals
<1>5. CASE OnChanged
  <2>1. /\ todo' = Update /\ q' = Tail(q) /\ UNCHANGED <<manager_, device_>>
        /\ Head(q).on \in {"Changed", "ManagerChanged"}
    BY <1>5 DEF OnChanged, Handle
  <2>2. Head(q) \notin Stops(Signal) /\ Head(q) \notin Removals({device_})
    BY <2>1 DEF Stops, Removals
  <2>3. Settled BY <1>0, <1>1, <2>1, <2>2 DEF Settled, Gone
  <2> QED BY <1>0, <1>1, <2>1, <2>3 DEF Shown
<1>6. CASE OnDeviceRemoved
  <2>1. CASE about = device_
    <3>1. todo' = Update /\ device_' = None BY <1>6, <2>1 DEF OnDeviceRemoved
    <3> QED BY <1>1, <3>1 DEF Shown
  <2>2. CASE about # device_
    <3>1. /\ todo' = <<>> /\ q' = Tail(q) /\ Head(q).on = "DeviceRemoved"
          /\ UNCHANGED <<manager_, device_, last_values_>>
      BY <1>6, <2>2 DEF OnDeviceRemoved, Handle
    <3>2. /\ Head(q) \notin News /\ Head(q) \notin Stops(Signal)
          /\ Head(q) \notin Removals({device_})
      BY <2>2, <3>1 DEF News, Stops, Removals, about
    <3> QED BY <1>1, <1>2, <3>1, <3>2
  <2> QED BY <2>1, <2>2
<1>7. CASE OnRegistered
  <2>1. /\ UNCHANGED <<device_, last_values_, todo>> /\ Head(q).on = "Registered"
    BY <1>7 DEF OnRegistered, Handle
  <2>2. Outside BY <1>0, <2>1 DEF Outside, Absent, Starts
  <2>3. device_ = None /\ last_values_ = default_values_
    BY <1>0, <2>2 DEF Defaults
  <2> QED BY <1>0, <1>1, <2>1, <2>3 DEF Shown
<1>8. CASE OnUnregistered
  <2>1. Head(q) \in Stops(Signal) BY <1>0, <1>8 DEF OnUnregistered, Handle, Stops
  <2> DEFINE d == Step("drop", None)
  <2>2. d \in Steps /\ d.do = "drop" BY DEF Step, Steps
  <2> HIDE DEF d
  <2>3. todo' = Append(Update, d) BY <1>8, TodoUpdate DEF OnUnregistered, d
  <2>4. Left(todo', "drop") BY <2>2, <2>3, TodoUpdate, TodoAppended
  <2> QED BY <2>4 DEF Settled, Gone
<1> QED BY <1>3, <1>4, <1>5, <1>6, <1>7, <1>8 DEF Handler

\* A change that nobody is told of is one of what nobody shows.
LEMMA ShownDaemon ==
  ASSUME Types, Lives, Defaults, Shown, Daemon
  PROVE  Shown'
<1> SUFFICES ASSUME Settled' PROVE Shown' BY DEF Shown
<1>0. /\ UNCHANGED bridge /\ UNCHANGED <<manager_, device_, last_values_, todo>>
      /\ q \in Seq(Signal) /\ up \in BOOLEAN
  BY DEF Daemon, Start, Stop, AddDevice, RemoveDevice, ChangeDevice, ChangeSupply,
         Move, bridge, Types
<1>1. ~Gone /\ manager_ BY <1>0 DEF Settled, Gone
<1>2. ASSUME NEW on, NEW paths, Send(on, paths), Message(on, paths) \in Signal
      PROVE  /\ q' \in {q, Append(q, Message(on, paths))}
             /\ Heard(on, paths) => q' = Append(q, Message(on, paths))
  BY <1>2 DEF Send
<1>3. ASSUME NEW e \in Signal, q' = Append(q, e)
      PROVE  \A X : NoneIn(q', X) => NoneIn(q, X) /\ e \notin X
  BY <1>0, <1>3, QueueAppended
<1>4. Starts(Signal) \subseteq Signal /\ Stops(Signal) \subseteq Signal /\ News \subseteq Signal
  BY DEF Starts, Stops, News
<1>5. CASE Start
  <2>1. ~up /\ q' = Append(q, Message("Registered", <<>>))
    BY <1>2, <1>4, <1>5, Messages DEF Start, Heard, ToManager
  <2>2. NoneIn(q, Stops(Signal)) BY <1>3, <1>4, <2>1, Messages DEF Settled
  <2>3. NoneIn(q, Signal \ Stops(Signal)) BY <2>1, <2>2, BehindNone DEF Lives, Life
  <2>4. NoneIn(q, Signal) BY <2>2, <2>3 DEF NoneIn
  <2>5. Outside BY <1>0, <2>1, <2>4, QueueEmpty DEF Outside, Absent
  <2>6. todo = <<>> /\ device_ = None /\ last_values_ = default_values_
    BY <1>1, <2>5 DEF Defaults
  <2>7. \A x : ~Left(todo, x) BY <2>6, TodoEmpty
  <2> QED BY <1>0, <2>6, <2>7 DEF Shown
<1>6. CASE Stop BY <1>6 DEF Stop, Settled
<1>7. CASE AddDevice
  <2>1. PICK d \in Devices \ present :
          present' = present \cup {d} /\ Send("DeviceAdded", <<d>>)
    BY <1>7 DEF AddDevice
  <2>2. Message("DeviceAdded", <<d>>) \in Signal BY Messages DEF Naming
  <2>3. q' \in {q, Append(q, Message("DeviceAdded", <<d>>))} BY <1>2, <2>1, <2>2
  <2>4. up /\ UNCHANGED <<reading, supply>> BY <1>7 DEF AddDevice
  <2> QED BY <1>0, <2>1, <2>2, <2>3, <2>4, ShownSent
<1>8. CASE RemoveDevice
  <2>1. PICK d \in present : present' = present \ {d} /\ Send("DeviceRemoved", <<d>>)
    BY <1>8 DEF RemoveDevice
  <2> DEFINE e == Message("DeviceRemoved", <<d>>)
  <2>2. e \in Removals({d}) /\ e \in Signal BY Messages DEF Removals, Types
  <2>3. q' = Append(q, e) BY <1>1, <1>2, <2>1, <2>2 DEF Heard
  <2>4. up /\ UNCHANGED <<reading, supply>> BY <1>8 DEF RemoveDevice
  <2> HIDE DEF e
  <2>5. e \notin Removals({device_}) BY <1>0, <1>3, <2>2, <2>3 DEF Settled
  <2>6. device_ # d BY <2>2, <2>5
  <2> QED BY <1>0, <2>1, <2>2, <2>3, <2>4, <2>6, ShownSent
<1>9. CASE ChangeDevice
  <2>1. PICK d \in present \cap Batteries, r \in Readings :
          reading' = [reading EXCEPT ![d] = r] /\ Send("Changed", <<d>>)
    BY <1>9 DEF ChangeDevice
  <2> DEFINE e == Message("Changed", <<d>>)
  <2>2. e \in News /\ e \in Signal BY <1>4, Messages DEF Types
  <2>3. q' \in {q, Append(q, e)} /\ (d = device_ => q' = Append(q, e))
    BY <1>2, <2>1, <2>2 DEF Heard, ToManager
  <2>4. up /\ UNCHANGED <<present, supply>> BY <1>9 DEF ChangeDevice
  <2> HIDE DEF e
  <2>5. NoneIn(q', News) => d # device_ BY <1>3, <2>2, <2>3
  <2>6. d # device_ /\ device_ # None => reading'[device_] = reading[device_]
    BY <2>1 DEF Types
  <2> QED BY <1>0, <2>2, <2>3, <2>4, <2>5, <2>6, ShownSent
<1>10. CASE ChangeSupply
  <2> DEFINE e == Message("ManagerChanged", <<>>)
  <2>1. e \in News /\ e \in Signal BY <1>4, Messages
  <2>2. q' = Append(q, e) BY <1>1, <1>2, <1>10, <2>1 DEF ChangeSupply, Heard
  <2>3. up /\ UNCHANGED <<present, reading>> BY <1>10 DEF ChangeSupply
  <2> HIDE DEF e
  <2>4. ~NoneIn(q', News) BY <1>3, <2>1, <2>2
  <2> QED BY <1>0, <2>1, <2>2, <2>3, <2>4, ShownSent
<1> QED BY <1>5, <1>6, <1>7, <1>8, <1>9, <1>10 DEF Daemon

\* Every step leads to the battery as it is.
LEMMA ShownSteps ==
  ASSUME Types, Lives, Defaults, Shown, [Next]_vars
  PROVE  Shown'
<1>1. CASE EnumerateFails \/ UNCHANGED vars
  <2>1. UNCHANGED <<bridge, daemon, q>> BY <1>1 DEF EnumerateFails, vars
  <2>2. UNCHANGED <<manager_, device_, last_values_, now, todo, up, present, reading,
                    supply, q>>
    BY <2>1 DEF bridge, daemon
  <2>3. Settled' <=> Settled BY <2>2 DEF Settled, Gone
  <2>4. \A f : Current(f)' = Current(f) BY <2>2, CurrentStays
  <2> QED BY <2>2, <2>3, <2>4 DEF Shown
<1>2. CASE Enumerate
  <2>1. PICK e \in Signal : q' = Append(q, e) BY <1>2, EnumerateSends
  <2>2. up /\ UNCHANGED <<bridge, present, reading, supply>>
    BY <1>2 DEF Enumerate, daemon
  <2> QED BY <2>1, <2>2, ShownSent
<1>3. Running \/ Handler \/ Daemon \/ Enumerate \/ EnumerateFails \/ UNCHANGED vars
  BY Zenon DEF Next, Loop, Bus
<1> QED BY <1>1, <1>2, <1>3, ShownRunning, ShownHandler, ShownDaemon

----------------------------------------------------------------------------
(* What is found.                                                          *)

\* A step after which the daemon still waits to be noticed, a battery has been
\* tried, or there is a proxy leaves nothing to find.
LEMMA FoundRunning ==
  ASSUME Types, Lives, Defaults, Found, Running
  PROVE  Found'
<1> SUFFICES ASSUME up', ~lostBattery' PROVE Found' BY DEF Found
<1>0. /\ UNCHANGED <<up, present, lostBattery, calls>>
      /\ todo \in Seq(Steps) /\ Ordered(todo) /\ todo # <<>>
      /\ q \in Seq(Signal) /\ up /\ ~lostBattery /\ (Outside' <=> Outside)
  BY LivesRunning DEF daemon, Types
<1>1. \A d : ToTry(todo, d) <=>
        ToTry(Tail(todo), d) \/ (Head(todo).do = "try" /\ Head(todo).arg = d)
  BY <1>0, TodoTail
<1>2. Head(todo).do # "try" => \A d : ~ToTry(todo, d) BY <1>0, OrderedTail
<1>3. q' \in {q, DeviceLost(q), ManagerLost(q)}
  BY DEF Running, TryOther, TryBattery, StartUpdate, Read, ApplyChanged, DropManager
<1>4. Behind(q', Removals(Batteries), Starts(Signal))
  <2>1. CASE q' = q BY <1>0, <2>1 DEF Found
  <2>2. CASE q' # q
    <3>1. PICK kinds : "Registered" \notin kinds /\ q' = Without(q, kinds)
      BY <1>3, <2>2 DEF DeviceLost, ManagerLost, ToManager
    <3>2. \A e \in Starts(Signal) : e.on \notin kinds BY <3>1 DEF Starts
    <3> QED BY <1>0, <3>1, <3>2, BehindWithout DEF Found
  <2> QED BY <2>1, <2>2
<1>5. CASE TryOther
  <2>1. /\ todo' = Tail(todo) /\ Head(todo).do = "try" /\ ~IsBattery(arg)
        /\ UNCHANGED <<device_, q>>
    BY <1>5 DEF TryOther, Doing
  <2>2. \A b \in present \cap Batteries : arg # b BY <1>0, <2>1 DEF IsBattery
  <2>3. \A b \in present \cap Batteries : ToTry(todo, b) => ToTry(todo', b)
    BY <1>1, <2>1, <2>2 DEF arg
  <2> QED BY <1>0, <1>4, <2>1, <2>3 DEF Found
<1>6. CASE TryBattery
  <2>1. device_' # None BY <1>6, UPowerAssumption DEF TryBattery, IsBattery
  <2> QED BY <1>4, <2>1 DEF Found
<1>7. CASE StartUpdate \/ Read \/ ApplyChanged
  <2>1. Head(todo).do # "try" /\ UNCHANGED <<device_, q>>
    BY <1>7 DEF StartUpdate, Read, ApplyChanged, Doing
  <2> QED BY <1>0, <1>2, <1>4, <2>1 DEF Found
<1>8. CASE DropManager
  <2>1. Head(todo).do = "drop" BY <1>8 DEF DropManager, Doing
  <2>2. Left(todo, "drop") BY <1>0, <2>1, TodoTail
  <2>3. q' # <<>> /\ Head(q') \in Starts(Signal) BY <1>0, <2>2 DEF Defaults, Gone, Outside, Absent
  <2>4. q' \in Seq(Signal) BY TypesRunning DEF Types
  <2>5. ~NoneIn(q', Starts(Signal)) BY <2>3, <2>4, QueueHandled
  <2> QED BY <1>4, <2>5 DEF Found
<1> QED BY <1>5, <1>6, <1>7, <1>8 DEF Running

\* A handler that begins leads to a battery that is found.
LEMMA FoundHandler ==
  ASSUME Types, Lives, Defaults, Found, Handler
  PROVE  Found'
<1> SUFFICES ASSUME up', ~lostBattery' PROVE Found' BY DEF Found
<1>0. /\ UNCHANGED <<up, present, lostBattery>>
      /\ q \in Seq(Signal) /\ q # <<>> /\ todo = <<>>
      /\ Tail(q) \in Seq(Signal) /\ Head(q) \in Signal
  BY LivesHandler DEF daemon
<1>11. up /\ ~lostBattery BY <1>0 DEF Types
<1>1. /\ \A X : NoneIn(q, X) <=> NoneIn(Tail(q), X) /\ Head(q) \notin X
      /\ \A X, Y : Behind(q, X, Y) => /\ Behind(Tail(q), X, Y)
                                      /\ Head(q) \in X => ~NoneIn(Tail(q), Y)
      /\ \A x : ~ToTry(<<>>, x)
  BY <1>0, QueueHandled, BehindHandled, TodoEmpty
<1>2. q' \in {Tail(q), DeviceLost(Tail(q)), ManagerLost(Tail(q))}
  BY DEF Handler, OnDevices, OnDeviceAdded, OnChanged, OnDeviceRemoved,
         OnRegistered, OnUnregistered
<1>3. /\ Behind(q', Removals(Batteries), Starts(Signal))
      /\ NoneIn(q', Starts(Signal)) => NoneIn(Tail(q), Starts(Signal))
  <2>1. Behind(Tail(q), Removals(Batteries), Starts(Signal)) BY <1>1, <1>11 DEF Found
  <2>2. CASE q' = Tail(q) BY <2>1, <2>2
  <2>3. CASE q' # Tail(q)
    <3>1. PICK kinds : "Registered" \notin kinds /\ q' = Without(Tail(q), kinds)
      BY <1>2, <2>3 DEF DeviceLost, ManagerLost, ToManager
    <3>2. \A e \in Starts(Signal) : e.on \notin kinds BY <3>1 DEF Starts
    <3> QED BY <1>0, <2>1, <3>1, <3>2, BehindWithout, QueueWithout
  <2> QED BY <2>2, <2>3
\* a signal that names what is tried next
<1>4. ASSUME UNCHANGED <<device_, calls>>, q' = Tail(q), Head(q) \notin Starts(Signal),
             \A b \in Batteries : Head(q) \in Naming(b) => ToTry(todo', b)
      PROVE  Found'
  BY <1>0, <1>1, <1>3, <1>4, <1>11 DEF Found
<1>5. CASE OnDevices
  <2>1. listed \in Seq(Devices) BY <1>0 DEF listed, Signal
  <2>2. \A i \in DOMAIN listed : ToTry(todo', listed[i])
    BY <1>5, <2>1, TodoTries DEF OnDevices
  <2>3. /\ Head(q).on = "Devices" /\ UNCHANGED <<device_, calls>> /\ q' = Tail(q)
    BY <1>5 DEF OnDevices, Handle
  <2>4. \A b \in Batteries : Head(q) \in Naming(b) => ToTry(todo', b)
    BY <2>2, <2>3 DEF Naming, listed
  <2> QED BY <1>4, <2>3, <2>4 DEF Starts
<1>6. CASE OnDeviceAdded
  <2>1. /\ Head(q).on = "DeviceAdded" /\ UNCHANGED <<device_, calls>> /\ q' = Tail(q)
        /\ todo' = <<Step("try", about)>>
    BY <1>6 DEF OnDeviceAdded, Handle
  <2>2. about \in Devices BY <1>0, <2>1 DEF about, Signal
  <2>3. <<about>> \in Seq(Devices) /\ DOMAIN <<about>> = {1} /\ <<about>>[1] = about
    BY <2>2
  <2>4. todo' = [i \in DOMAIN <<about>> |-> Step("try", <<about>>[i])] BY <2>1
  <2>5. ToTry(todo', about) BY <2>3, <2>4, TodoTries
  <2>6. \A b \in Batteries : Head(q) \in Naming(b) => ToTry(todo', b)
    BY <2>1, <2>5 DEF Naming, about
  <2> QED BY <1>4, <2>1, <2>6 DEF Starts
<1>7. CASE OnChanged
  <2>1. /\ Head(q).on \in {"Changed", "ManagerChanged"} /\ q' = Tail(q)
        /\ UNCHANGED <<device_, calls>>
    BY <1>7 DEF OnChanged, Handle
  <2> QED BY <1>4, <2>1 DEF Starts, Naming
<1>8. CASE OnDeviceRemoved
  <2>1. Head(q).on = "DeviceRemoved" /\ about \in Devices /\ calls' = calls
    BY <1>0, <1>8 DEF OnDeviceRemoved, Handle, about, Signal
  <2>2. CASE about = device_
    <3>1. Head(q) \in Removals(Batteries)
      BY <1>0, <2>1, <2>2, UPowerAssumption DEF Removals, about, Types
    <3>2. ~NoneIn(q', Starts(Signal)) BY <1>1, <1>3, <1>11, <3>1 DEF Found
    <3> QED BY <1>3, <3>2 DEF Found
  <2>3. CASE about # device_
    <3>1. q' = Tail(q) /\ device_' = device_ BY <1>8, <2>3 DEF OnDeviceRemoved
    <3> QED BY <1>4, <2>1, <3>1 DEF Starts, Naming
  <2> QED BY <2>2, <2>3
<1>9. CASE OnRegistered
  <2>1. calls' > 0 BY <1>9 DEF OnRegistered, Types
  <2> QED BY <1>3, <2>1 DEF Found
<1>10. CASE OnUnregistered
  <2>1. Head(q) \in Stops(Signal) BY <1>0, <1>10 DEF OnUnregistered, Handle, Stops
  <2>2. ~NoneIn(q', Starts(Signal)) BY <1>1, <1>3, <1>11, <2>1 DEF Lives, Life
  <2> QED BY <1>3, <2>2 DEF Found
<1> QED BY <1>5, <1>6, <1>7, <1>8, <1>9, <1>10 DEF Handler

\* A battery is announced to whom knows the daemon; the others enumerate.
LEMMA FoundSent ==
  ASSUME Types, Lives, Defaults, Found, Daemon \/ Enumerate
  PROVE  Found'
<1> SUFFICES ASSUME up', ~lostBattery' PROVE Found' BY DEF Found
<1>0. /\ UNCHANGED bridge /\ UNCHANGED <<manager_, device_, todo>>
      /\ q \in Seq(Signal) /\ up \in BOOLEAN
  BY DEF Daemon, Start, Stop, AddDevice, RemoveDevice, ChangeDevice, ChangeSupply,
         Move, Enumerate, bridge, Types
\* a signal that does not tell of the end of a battery
<1>1. ASSUME NEW e \in Signal, e \notin Removals(Batteries), q' \in {q, Append(q, e)},
             up, ~lostBattery
      PROVE  /\ Behind(q', Removals(Batteries), Starts(Signal))
             /\ \A X : NoneIn(q', X) => NoneIn(q, X)
  <2>1. Behind(q, Removals(Batteries), Starts(Signal)) BY <1>1 DEF Found
  <2>2. Behind(Append(q, e), Removals(Batteries), Starts(Signal))
    BY <1>0, <1>1, <2>1, BehindAppended
  <2>3. \A X : NoneIn(Append(q, e), X) => NoneIn(q, X) BY <1>0, QueueAppended
  <2> QED BY <1>1, <2>1, <2>2, <2>3
<1>2. ASSUME NEW on, NEW paths, Send(on, paths)
      PROVE  /\ q' \in {q, Append(q, Message(on, paths))}
             /\ Heard(on, paths) => q' = Append(q, Message(on, paths))
  BY <1>2 DEF Send
<1>3. Starts(Signal) \subseteq Signal /\ Stops(Signal) \subseteq Signal /\ News \subseteq Signal
  BY DEF Starts, Stops, News
<1>4. ASSUME NEW e \in Signal, e \notin Removals(Batteries), q' \in {q, Append(q, e)},
             up, ~lostBattery, present' \subseteq present, calls' = calls
      PROVE  Found'
  BY <1>0, <1>1, <1>4 DEF Found
<1>5. CASE Start
  <2> DEFINE e == Message("Registered", <<>>)
  <2>1. ~up /\ e \in Starts(Signal) /\ e \in Signal /\ q' = Append(q, e)
    BY <1>2, <1>3, <1>5, Messages DEF Start, Heard, ToManager
  <2> HIDE DEF e
  <2>2. ~NoneIn(q', Starts(Signal)) BY <1>0, <2>1, QueueAppended
  <2>3. e \notin Removals(Batteries) BY <2>1 DEF Starts, Removals
  <2>4. Behind(q', Removals(Batteries), Starts(Signal)) BY <1>0, <2>1, <2>3, BehindAppended
  <2> QED BY <2>2, <2>4 DEF Found
<1>6. CASE Stop BY <1>6 DEF Stop
<1>7. CASE AddDevice
  <2>1. PICK d \in Devices \ present :
          present' = present \cup {d} /\ Send("DeviceAdded", <<d>>)
    BY <1>7 DEF AddDevice
  <2> DEFINE e == Message("DeviceAdded", <<d>>)
  <2>2. e \in Naming(d) /\ e \in Signal /\ e.on = "DeviceAdded"
    BY Messages DEF Naming
  <2>3. q' \in {q, Append(q, e)} /\ (manager_ => q' = Append(q, e))
    BY <1>2, <2>1 DEF Heard
  <2>4. up /\ ~lostBattery /\ calls' = calls BY <1>7 DEF AddDevice
  <2> HIDE DEF e
  <2>5. /\ Behind(q', Removals(Batteries), Starts(Signal))
        /\ \A X : NoneIn(q', X) => NoneIn(q, X)
    BY <1>1, <2>2, <2>3, <2>4 DEF Removals
  <2>6. NoneIn(q', Starts(Signal)) => q' = Append(q, e)
    <3>1. NoneIn(q', Starts(Signal)) => ~Outside
      BY <1>0, <2>4, <2>5, QueueHandled DEF Outside, Absent
    <3> QED BY <2>3, <3>1 DEF Defaults, Gone
  <2>7. ~NoneIn(Append(q, e), Naming(d)) BY <1>0, <2>2, QueueAppended
  <2> QED BY <1>0, <2>1, <2>4, <2>5, <2>6, <2>7 DEF Found
<1>8. CASE RemoveDevice
  <2>1. PICK d \in present :
          /\ present' = present \ {d} /\ lostBattery' = (lostBattery \/ d \in Batteries)
          /\ Send("DeviceRemoved", <<d>>)
    BY <1>8, Zenon DEF RemoveDevice
  <2> DEFINE e == Message("DeviceRemoved", <<d>>)
  <2>2. e \in Removals({d}) /\ e \in Signal BY Messages DEF Removals, Types
  <2>3. q' \in {q, Append(q, e)} BY <1>2, <2>1
  <2>4. ~lostBattery /\ d \notin Batteries BY <2>1
  <2> HIDE DEF e
  <2>5. up /\ calls' = calls /\ e \notin Removals(Batteries)
    BY <1>8, <2>2, <2>4 DEF RemoveDevice, Removals
  <2> QED BY <1>4, <2>1, <2>2, <2>3, <2>4, <2>5
<1>9. CASE ChangeDevice
  <2>1. PICK d \in present \cap Batteries : Send("Changed", <<d>>)
    BY <1>9 DEF ChangeDevice
  <2>2. Message("Changed", <<d>>) \in News BY Messages DEF Types
  <2>3. up /\ UNCHANGED <<present, lostBattery, calls>> BY <1>9 DEF ChangeDevice
  <2>4. q' \in {q, Append(q, Message("Changed", <<d>>))} BY <1>2, <2>1
  <2> QED BY <1>3, <1>4, <2>2, <2>3, <2>4 DEF News, Removals
<1>10. CASE ChangeSupply
  <2>1. Message("ManagerChanged", <<>>) \in News BY Messages
  <2>2. up /\ UNCHANGED <<present, lostBattery, calls>> BY <1>10 DEF ChangeSupply
  <2>3. q' \in {q, Append(q, Message("ManagerChanged", <<>>))}
    BY <1>2, <1>10 DEF ChangeSupply
  <2> QED BY <1>3, <1>4, <2>1, <2>2, <2>3 DEF News, Removals
<1>11. CASE Enumerate
  <2>1. PICK e \in Signal : /\ q' = Append(q, e) /\ e.on = "Devices"
                            /\ \A d \in present : e \in Naming(d)
    BY <1>11, EnumerateSends
  <2>2. up /\ UNCHANGED <<present, lostBattery>> BY <1>11 DEF Enumerate, daemon
  <2>3. Behind(q', Removals(Batteries), Starts(Signal))
    BY <1>1, <2>1, <2>2 DEF Removals
  <2>4. \A d \in present : ~NoneIn(q', Naming(d)) BY <1>0, <2>1, QueueAppended
  <2> QED BY <2>2, <2>3, <2>4 DEF Found
<1> QED BY <1>5, <1>6, <1>7, <1>8, <1>9, <1>10, <1>11 DEF Daemon

\* Every step leads to a battery that is found.
LEMMA FoundSteps ==
  ASSUME Types, Lives, Defaults, Found, [Next]_vars
  PROVE  Found'
<1>1. CASE EnumerateFails
  BY <1>1 DEF EnumerateFails, daemon, Found
<1>2. CASE UNCHANGED vars
  BY <1>2 DEF vars, bridge, daemon, Found
<1>3. Running \/ Handler \/ Daemon \/ Enumerate \/ EnumerateFails \/ UNCHANGED vars
  BY Zenon DEF Next, Loop, Bus
<1> QED BY <1>1, <1>2, <1>3, FoundRunning, FoundHandler, FoundSent

----------------------------------------------------------------------------
(* The battery is shown.                                                   *)

\* A bridge that starts calls for the devices, and shows the defaults.
LEMMA PowerInit == Init => PowerInv
<1> SUFFICES ASSUME Init PROVE PowerInv OBVIOUS
<1>1. /\ manager_ = TRUE /\ device_ = None /\ todo = <<>> /\ q = <<>> /\ calls = 1
      /\ last_values_ = default_values_ /\ now = default_values_
      /\ up \in BOOLEAN /\ present \in SUBSET Devices /\ lostBattery = FALSE
      /\ supply = [onBattery |-> FALSE, lowBattery |-> FALSE]
  BY Zenon DEF Init
<1>2. reading \in [Batteries -> Readings] BY DEF Init
<1>3. supply \in [Supplied -> BOOLEAN]
  <2> DEFINE none == [onBattery |-> FALSE, lowBattery |-> FALSE]
  <2>1. none = [f \in Supplied |-> none[f]] BY SMT DEF Supplied
  <2>2. \A f \in Supplied : none[f] = FALSE BY DEF Supplied
  <2> HIDE DEF none
  <2>3. none \in [Supplied -> BOOLEAN] BY <2>1, <2>2
  <2> QED BY <1>1, <2>3 DEF none
<1>4. /\ todo \in Seq(Steps) /\ Ordered(todo)
      /\ \A x : ~Left(todo, x) /\ ~ToRead(todo, x)
  BY <1>1, TodoEmpty
<1>5. q \in Seq(Signal) BY <1>1
<1>6. now = [f \in Field |-> now[f]] /\ last_values_ = [f \in Field |-> last_values_[f]]
  BY <1>1, StartValues, Zenon
<1>7. Types
  <2>1. Reads(todo) BY <1>4 DEF Reads
  <2> QED BY <1>1, <1>2, <1>3, <1>4, <1>5, <1>6, <2>1 DEF Types
<1>8. Len(q) = 0 BY <1>1
<1>9. Lives
  <2>1. \A X, Y : Behind(q, X, Y) /\ Paired(q, X, Y) BY <1>8 DEF Behind, Paired
  <2> QED BY <2>1 DEF Lives, Life
<1>10. ~Gone BY <1>1, <1>4 DEF Gone
<1>11. Defaults BY <1>1, <1>4, <1>10 DEF Defaults
<1>12. Shown BY <1>1, <1>4 DEF Shown
<1>13. Found
  <2>1. calls > 0 BY <1>1
  <2>2. Behind(q, Removals(Batteries), Starts(Signal)) BY <1>8 DEF Behind
  <2> QED BY <2>1, <2>2 DEF Found
<1> QED BY <1>7, <1>9, <1>11, <1>12, <1>13 DEF PowerInv

\* Values that agree field by field are those the daemon has.
LEMMA SuppliedValues ==
  ASSUME Types, NEW values,
         DOMAIN values \cup Supplied = Field,
         \A f \in Field : last_values_[f] = IF f \in Supplied THEN supply[f] ELSE values[f]
  PROVE  last_values_ = supplied(values)
<1>1. DOMAIN supply = Supplied BY DEF Types
<1>2. supplied(values) =
        [f \in Field |-> IF f \in Supplied THEN supply[f] ELSE values[f]]
  BY <1>1, Zenon DEF supplied
<1>3. last_values_ = [f \in Field |-> last_values_[f]] BY DEF Types
<1> QED BY <1>2, <1>3

\* At rest, nothing is left of the invariant but what is shown.
LEMMA PowerInvShown == PowerInv => PowerShown
<1> SUFFICES ASSUME PowerInv, Quiet PROVE PowerShown
  BY DEF PowerShown, BatteryShown, BatteryFound, DefaultsShown
<1>0. Types /\ Lives /\ Defaults /\ Shown /\ Found BY DEF PowerInv
<1>1. q = <<>> /\ todo = <<>> /\ ~(calls > 0) BY DEF Quiet
<1>2. /\ \A x : ~Left(todo, x) /\ ~ToTry(todo, x)
      /\ \A X : NoneIn(q, X)
  BY <1>1, TodoEmpty, QueueEmpty
<1>3. Outside <=> ~up BY <1>1 DEF Outside, Absent
<1>4. DefaultsShown BY <1>0, <1>1, <1>3 DEF DefaultsShown, Defaults
<1>5. BatteryFound BY <1>0, <1>1, <1>2 DEF BatteryFound, Found
<1>6. ASSUME up PROVE BatteryShown
  <2>1. ~Gone BY <1>0, <1>3, <1>6 DEF Defaults
  <2>2. Settled BY <1>2, <1>6, <2>1 DEF Settled
  <2>3. \/ device_ = None /\ last_values_ = default_values_
        \/ \A f \in Field : last_values_[f] = Current(f)
    BY <1>0, <1>2, <2>2 DEF Shown
  <2>4. CASE device_ = None /\ last_values_ = default_values_
    BY <2>4 DEF BatteryShown
  <2>5. CASE device_ = None /\ \A f \in Field : last_values_[f] = Current(f)
    <3>1. DOMAIN update_start = Field BY StartValues, Zenon
    <3>2. Field \cup Supplied = Field BY DEF Field
    <3>3. \A f \in Field : last_values_[f] =
            IF f \in Supplied THEN supply[f] ELSE update_start[f]
      BY <2>5 DEF Current
    <3>4. last_values_ = no_battery_values
      BY <1>0, <3>1, <3>2, <3>3, SuppliedValues DEF no_battery_values
    <3> QED BY <2>5, <3>4 DEF BatteryShown
  <2>6. CASE device_ # None /\ \A f \in Field : last_values_[f] = Current(f)
    <3>1. device_ \in present BY <1>0, <2>2, <2>6 DEF Shown
    <3>2. reading[device_] \in Reading BY <1>0, <2>6, UPowerAssumption DEF Types
    <3>3. DOMAIN reading[device_] \cup Supplied = Field BY <3>2 DEF Reading, Field
    <3>4. \A f \in Field : last_values_[f] =
            IF f \in Supplied THEN supply[f] ELSE reading[device_][f]
      BY <2>6 DEF Current
    <3>5. last_values_ = supplied(reading[device_])
      BY <1>0, <3>3, <3>4, SuppliedValues
    <3> QED BY <2>6, <3>1, <3>5 DEF BatteryShown
  <2> QED BY <2>3, <2>4, <2>5, <2>6
<1>7. ~up => BatteryShown BY DEF BatteryShown
<1> QED BY <1>4, <1>5, <1>6, <1>7 DEF PowerShown

\* For every set of devices and readings: when all is handled, a battery the
\* daemon has is found, unless it lost one, and is shown with none of its values
\* older than another; without the daemon the defaults are (72-77, 126-147).
THEOREM PowerShownHolds == Spec => []PowerShown
<1>1. PowerInv /\ [Next]_vars => PowerInv'
  BY TypesSteps, LivesSteps, ShownSteps, FoundSteps DEF PowerInv
<1> QED BY <1>1, PowerInit, PowerInvShown, PTL DEF Spec
============================================================================
