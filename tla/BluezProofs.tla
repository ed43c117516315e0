----------------------------- MODULE BluezProofs ----------------------------
(***************************************************************************)
(* Proofs about Bluez: when everything is handled, the default adapter and *)
(* the connections of its devices are shown as they are, and nothing is    *)
(* shown of a daemon that is gone.                                         *)
(***************************************************************************)
EXTENDS Bluez, SignalsProofs, FiniteSetTheorems

Fields == {"Enabled", "Connected", "Address"}

Message == [on : {"Registered", "Unregistered"}, path : {None}, val : {None}]
      \cup [on : {"DefaultAdapterChanged"}, path : Adapters, val : {None}]
      \cup [on : {"Powered"}, path : Adapters, val : {"0", "1"}]
      \cup [on : {"DeviceCreated", "DeviceRemoved"}, path : Devices, val : {None}]
      \cup [on : {"Connected"}, path : Devices, val : {"0", "1"}]

\* what they tell
NewDefaults == {m \in Message : m.on = "DefaultAdapterChanged"}
Defaults(a) == {m \in NewDefaults : m.path = a}
Powereds == {m \in Message : m.on = "Powered"}
PoweredIs(v) == {m \in Powereds : m.val = v}
News == {m \in Message : m.on \in {"DeviceCreated", "DeviceRemoved"}}
NewsOf(d) == {m \in News : m.path = d}
Created(d) == {m \in NewsOf(d) : m.on = "DeviceCreated"}
Links(d) == {m \in Message : m.on = "Connected" /\ m.path = d}
LinkIs(d, v) == {m \in Links(d) : m.val = v}

\* the steps that a handler has left
Steps == [do : {"default"}, arg : {None}]
    \cup [do : {"adapter", "listen", "list", "watch"}, arg : Adapters]
    \cup [do : {"add", "follow"}, arg : Devices]

Waits(s, do, a) == \E i \in 1..Len(s) : s[i] = Step(do, a)

----------------------------------------------------------------------------
(* The invariant.                                                          *)

Types == /\ manager_ \in BOOLEAN /\ adapter_ \in Adapters \cup {None}
         /\ hears \in SUBSET {"props", "devices"}
         /\ devices_ \in SUBSET Devices /\ connected_ \in SUBSET Devices
         /\ pub = [f \in Fields |-> pub[f]]
         /\ todo \in Seq(Steps)
         /\ up \in BOOLEAN /\ missed \in BOOLEAN
         /\ default \in Adapters \cup {None}
         /\ powered \in [Adapters -> BOOLEAN]
         /\ paired \in SUBSET Devices /\ linked \in SUBSET Devices
         /\ q \in Seq(Message)

\* A daemon that stopped has started again behind it; one that is not there
\* has stopped behind everything else it said.
Lives == /\ up => Behind(q, Stops(Message), Starts(Message))
         /\ ~up => Behind(q, Message \ Stops(Message), Stops(Message))

\* the daemon has said that it started, and is asked for everything again
Restarts == ~NoneIn(q, Starts(Message))

Managed == up /\ ~Restarts => manager_

\* the bridge has nothing left to do but to ask for the default adapter
Idle == todo = <<>> \/ todo = <<Step("default", None)>>

\* What was shown of a daemon that stopped was reset, or will be.
Gone == ~up /\ NoneIn(q, Stops(Message)) =>
          Idle /\ pub.Connected = "0" /\ pub.Address = defaults_.Address

\* A connection is shown only while the bridge believes that there is one.
Believed == pub.Connected = "1" => connected_ # {}

\* Of devices that come and go it hears only after it has connected to that.
Deaf == "devices" \notin hears => NoneIn(q, News)

\* The last default adapter on its way is the daemon's, and so is the one that
\* the handler turns to, unless there is one on its way.
LastDefault ==
  up /\ ~Restarts =>
    /\ LastIn(q, NewDefaults, Defaults(default))
    /\ \A a \in Adapters : Waits(todo, "adapter", a) => a = default \/ ~NoneIn(q, NewDefaults)

\* the bridge will turn to the default adapter, and read all there is of it
Turns == \/ Restarts
         \/ Waits(todo, "default", None)
         \/ ~NoneIn(q, NewDefaults)
         \/ Waits(todo, "adapter", default)

\* nothing was missed of an adapter that it has turned to
Follows == up /\ ~missed /\ default # None /\ ~Turns

\* It follows the adapter, and what is on its way about it ends with what the
\* adapter is now; when nothing is, that is shown.
Adapted ==
  Follows =>
    /\ adapter_ = default /\ pub.Address = default
    /\ "props" \in hears \/ Waits(todo, "listen", default)
    /\ "devices" \in hears \/ Waits(todo, "watch", default)
    /\ LastIn(q, Powereds, PoweredIs(Flag(powered[default])))
    /\ NoneIn(q, Powereds) => pub.Enabled = Flag(powered[default])

\* it follows the device d, and what is on its way about it ends with its link;
\* when nothing is, that is known, and shown if there is one
Linked(d) ==
  /\ d \in devices_ \/ Waits(todo, "follow", d)
  /\ LastIn(q, Links(d), LinkIs(d, Flag(d \in linked)))
  /\ NoneIn(q, Links(d)) => (d \in connected_ <=> d \in linked)
  /\ d \in connected_ => pub.Connected = "1"

\* The devices of the adapter are listed and read again, or followed; the last
\* that is on its way of one that came or went is that it came.
Known ==
  Follows =>
    \A d \in Here :
      /\ LastIn(q, NewsOf(d), Created(d))
      /\ \/ Waits(todo, "list", default)
         \/ Waits(todo, "add", d)
         \/ ~NoneIn(q, Created(d))
         \/ Linked(d)

BluetoothInv == /\ Types /\ Lives /\ Managed /\ Gone /\ Believed /\ Deaf
                /\ LastDefault /\ Adapted /\ Known

----------------------------------------------------------------------------
(* The signals.                                                            *)

\* What is in a signal.
LEMMA Contents ==
  ASSUME NEW m \in Message
  PROVE  /\ m.on \in {"Registered", "Unregistered", "DefaultAdapterChanged", "Powered",
                      "DeviceCreated", "DeviceRemoved", "Connected"}
         /\ m.on \in {"DefaultAdapterChanged", "Powered"} => m.path \in Adapters
         /\ m.on \in {"DeviceCreated", "DeviceRemoved", "Connected"} => m.path \in Devices
         /\ m.on \in {"Powered", "Connected"} => m.val \in {"0", "1"}
BY DEF Message

\* The signals that the daemon sends, as their receiver sees them.
LEMMA Sendings ==
  /\ \A on, p, v : /\ Signal(on, p, v).on = on /\ Signal(on, p, v).path = p
                   /\ Signal(on, p, v).val = v
  /\ Signal("Registered", None, None) \in Message
  /\ Signal("Unregistered", None, None) \in Message
  /\ \A a \in Adapters : /\ Signal("DefaultAdapterChanged", a, None) \in Message
                         /\ \A yes : Signal("Powered", a, Flag(yes)) \in Message
  /\ \A d \in Devices : /\ Signal("DeviceCreated", d, None) \in Message
                        /\ Signal("DeviceRemoved", d, None) \in Message
                        /\ \A yes : Signal("Connected", d, Flag(yes)) \in Message
<1>1. \A on, p, v : /\ Signal(on, p, v).on = on /\ Signal(on, p, v).path = p
                    /\ Signal(on, p, v).val = v
  BY DEF Signal
<1>2. Signal("Registered", None, None) \in Message BY DEF Signal, Message
<1>3. Signal("Unregistered", None, None) \in Message BY DEF Signal, Message
<1>4. \A yes : Flag(yes) \in {"0", "1"} BY DEF Flag
<1>5. ASSUME NEW a \in Adapters
      PROVE  /\ Signal("DefaultAdapterChanged", a, None) \in Message
             /\ \A v \in {"0", "1"} : Signal("Powered", a, v) \in Message
  BY DEF Signal, Message
<1>6. ASSUME NEW d \in Devices
      PROVE  /\ Signal("DeviceCreated", d, None) \in Message
             /\ Signal("DeviceRemoved", d, None) \in Message
             /\ \A v \in {"0", "1"} : Signal("Connected", d, v) \in Message
  BY DEF Signal, Message
<1>7. \A a \in Adapters : \A yes : Signal("Powered", a, Flag(yes)) \in Message BY <1>4, <1>5
<1>8. \A d \in Devices : \A yes : Signal("Connected", d, Flag(yes)) \in Message BY <1>4, <1>6
<1> QED BY <1>1, <1>2, <1>3, <1>5, <1>6, <1>7, <1>8

\* A signal is in the sets that its kind says, and in no other.
LEMMA Kinds ==
  ASSUME NEW e \in Message
  PROVE  /\ e \in Starts(Message) <=> e.on = "Registered"
         /\ e \in Stops(Message) <=> e.on = "Unregistered"
         /\ e \in NewDefaults <=> e.on = "DefaultAdapterChanged"
         /\ e \in Powereds <=> e.on = "Powered"
         /\ e \in News <=> e.on \in {"DeviceCreated", "DeviceRemoved"}
         /\ \A a : e \in Defaults(a) <=> e.on = "DefaultAdapterChanged" /\ e.path = a
         /\ \A v : e \in PoweredIs(v) <=> e.on = "Powered" /\ e.val = v
         /\ \A d : e \in NewsOf(d) <=> e.on \in {"DeviceCreated", "DeviceRemoved"} /\ e.path = d
         /\ \A d : e \in Created(d) <=> e.on = "DeviceCreated" /\ e.path = d
         /\ \A d : e \in Links(d) <=> e.on = "Connected" /\ e.path = d
         /\ \A d, v : e \in LinkIs(d, v) <=> e.on = "Connected" /\ e.path = d /\ e.val = v
BY DEF Starts, Stops, NewDefaults, Powereds, News, Defaults, PoweredIs, NewsOf, Created,
       Links, LinkIs

\* w is what is left of the signals s without those in L that it lost, or all
Leaves(w, s, L) ==
  /\ w \in Seq(Message)
  /\ \A X : NoneIn(s, X) => NoneIn(w, X)
  /\ \A X : (\A e \in X : e \notin L) =>
       /\ NoneIn(w, X) <=> NoneIn(s, X)
       /\ \A Y : LastIn(s, X, Y) => LastIn(w, X, Y)
  /\ \A X, Y : (\A e \in Y : e \notin L) /\ Behind(s, X, Y) => Behind(w, X, Y)

\* What is left without the signals in L.
LEMMA Selected ==
  ASSUME NEW s \in Seq(Message), NEW L, NEW keep,
         \A i \in 1..Len(s) : i \in keep <=> s[i] \notin L
  PROVE  Leaves(SelectAt(s, keep), s, L) /\ NoneIn(SelectAt(s, keep), L)
<1> DEFINE w == SelectAt(s, keep)
<1>1. w = SelectAt(s, keep) OBVIOUS
<1> HIDE DEF w
<1>2. /\ w \in Seq(Message) /\ NoneIn(w, L)
      /\ \A X : NoneIn(s, X) => NoneIn(w, X)
      /\ \A X : (\A e \in X : e \notin L) =>
           /\ NoneIn(w, X) => NoneIn(s, X)
           /\ \A Y : LastIn(s, X, Y) => LastIn(w, X, Y)
      /\ \A X, Y : (\A e \in Y : e \notin L) /\ Behind(s, X, Y) => Behind(w, X, Y)
  BY <1>1, QueueSelected
<1>3. Leaves(w, s, L) BY <1>2 DEF Leaves
<1> QED BY <1>2, <1>3 DEF w

\* What is left when a proxy is gone.
LEMMA ProxyLost ==
  ASSUME NEW s \in Seq(Message)
  PROVE  /\ \A L : Leaves(s, s, L)
         /\ /\ Leaves(Without(s, OfAdapter), s, Powereds \cup News)
            /\ NoneIn(Without(s, OfAdapter), Powereds \cup News)
         /\ /\ Leaves(Without(s, {"DefaultAdapterChanged"}), s, NewDefaults)
            /\ NoneIn(Without(s, {"DefaultAdapterChanged"}), NewDefaults)
         /\ \A d : Leaves(Unheard(s, d), s, Links(d)) /\ NoneIn(Unheard(s, d), Links(d))
<1>0. \A i \in 1..Len(s) : s[i] \in Message OBVIOUS
<1>1. \A L : Leaves(s, s, L) BY DEF Leaves
<1>2. /\ Leaves(Without(s, OfAdapter), s, Powereds \cup News)
      /\ NoneIn(Without(s, OfAdapter), Powereds \cup News)
  <2> DEFINE keep == {i \in 1..Len(s) : s[i].on \notin OfAdapter}
  <2>1. \A i \in 1..Len(s) : i \in keep <=> s[i] \notin Powereds \cup News
    BY <1>0, Kinds DEF OfAdapter
  <2>2. Without(s, OfAdapter) = SelectAt(s, keep) BY DEF Without
  <2> HIDE DEF keep
  <2> QED BY <2>1, <2>2, Selected
<1>3. /\ Leaves(Without(s, {"DefaultAdapterChanged"}), s, NewDefaults)
      /\ NoneIn(Without(s, {"DefaultAdapterChanged"}), NewDefaults)
  <2> DEFINE keep == {i \in 1..Len(s) : s[i].on \notin {"DefaultAdapterChanged"}}
  <2>1. \A i \in 1..Len(s) : i \in keep <=> s[i] \notin NewDefaults BY <1>0, Kinds
  <2>2. Without(s, {"DefaultAdapterChanged"}) = SelectAt(s, keep) BY DEF Without
  <2> HIDE DEF keep
  <2> QED BY <2>1, <2>2, Selected
<1>4. ASSUME NEW d PROVE Leaves(Unheard(s, d), s, Links(d)) /\ NoneIn(Unheard(s, d), Links(d))
  <2> DEFINE keep == {i \in 1..Len(s) : ~(s[i].on = "Connected" /\ s[i].path = d)}
  <2>1. \A i \in 1..Len(s) : i \in keep <=> s[i] \notin Links(d) BY <1>0, Kinds
  <2>2. Unheard(s, d) = SelectAt(s, keep) BY DEF Unheard
  <2> HIDE DEF keep
  <2> QED BY <2>1, <2>2, Selected
<1> QED BY <1>1, <1>2, <1>3, <1>4

----------------------------------------------------------------------------
(* What is left of a handler.                                              *)

\* What a step says.
LEMMA StepContents ==
  ASSUME NEW e \in Steps
  PROVE  /\ e.do \in {"default", "adapter", "listen", "list", "watch", "add", "follow"}
         /\ e.do = "default" => e.arg = None
         /\ e.do \in {"adapter", "listen", "list", "watch"} => e.arg \in Adapters
         /\ e.do \in {"add", "follow"} => e.arg \in Devices
         /\ e = Step(e.do, e.arg)
BY DEF Steps, Step

\* The steps that handlers are made of.
LEMMA StepTypes ==
  /\ \A do, a : Step(do, a).do = do /\ Step(do, a).arg = a
  /\ \A do, a, z, b : Step(do, a) = Step(z, b) <=> do = z /\ a = b
  /\ Step("default", None) \in Steps
  /\ \A a \in Adapters : \A do \in {"adapter", "listen", "list", "watch"} : Step(do, a) \in Steps
  /\ \A d \in Devices : \A do \in {"add", "follow"} : Step(do, d) \in Steps
BY DEF Step, Steps

\* The first step is taken off, and no other.
LEMMA StepsTail ==
  ASSUME NEW s \in Seq(Steps), s # <<>>
  PROVE  /\ Tail(s) \in Seq(Steps) /\ Head(s) \in Steps
         /\ \A do, a : Waits(s, do, a) <=> Waits(Tail(s), do, a) \/ Head(s) = Step(do, a)
<1> DEFINE r == Tail(s)
           e == Head(s)
<1>1. /\ r \in Seq(Steps) /\ e = s[1] /\ e \in Steps /\ 1 \in 1..Len(s)
      /\ \A i \in 1..Len(r) : i + 1 \in 1..Len(s) /\ r[i] = s[i + 1]
      /\ \A i \in 1..Len(s) : i = 1 \/ (i - 1 \in 1..Len(r) /\ r[i - 1] = s[i])
  BY Tailed
<1> HIDE DEF r, e
<1>2. \A do, a : Waits(s, do, a) <=> Waits(r, do, a) \/ e = Step(do, a) BY <1>1 DEF Waits
<1> QED BY <1>1, <1>2 DEF r, e

\* An empty list.
LEMMA StepsNone == <<>> \in Seq(Steps) /\ \A do, a : ~Waits(<<>>, do, a)
<1>1. Len(<<>>) = 0 /\ <<>> \in Seq(Steps) OBVIOUS
<1> QED BY <1>1 DEF Waits

\* A list before another one.
LEMMA StepsBefore ==
  ASSUME NEW s \in Seq(Steps), NEW r \in Seq(Steps)
  PROVE  /\ s \o r \in Seq(Steps)
         /\ \A do, a : Waits(s \o r, do, a) <=> Waits(s, do, a) \/ Waits(r, do, a)
<1> DEFINE u == s \o r
           n == Len(s)
           m == Len(r)
<1>1. /\ u \in Seq(Steps) /\ Len(u) = n + m /\ n \in Nat /\ m \in Nat
      /\ \A i \in 1..n : u[i] = s[i]
      /\ \A i \in 1..m : u[n + i] = r[i]
  OBVIOUS
<1>2. /\ \A i \in 1..n : i \in 1..Len(u)
      /\ \A i \in 1..m : n + i \in 1..Len(u)
      /\ \A i \in 1..Len(u) : i \in 1..n \/ (i - n \in 1..m /\ n + (i - n) = i)
  BY <1>1
<1> HIDE DEF u
<1>3. ASSUME NEW do, NEW a PROVE Waits(u, do, a) <=> Waits(s, do, a) \/ Waits(r, do, a)
  <2>1. ASSUME Waits(u, do, a) PROVE Waits(s, do, a) \/ Waits(r, do, a)
    <3>1. PICK i \in 1..Len(u) : u[i] = Step(do, a) BY <2>1 DEF Waits
    <3>2. CASE i \in 1..n BY <1>1, <3>1, <3>2 DEF Waits
    <3>3. CASE i - n \in 1..m /\ n + (i - n) = i
      <4>1. r[i - n] = u[i] BY <1>1, <3>3
      <4> QED BY <3>1, <3>3, <4>1 DEF Waits
    <3> QED BY <1>2, <3>2, <3>3
  <2>2. ASSUME Waits(s, do, a) PROVE Waits(u, do, a) BY <1>1, <1>2, <2>2 DEF Waits
  <2>3. ASSUME Waits(r, do, a) PROVE Waits(u, do, a) BY <1>1, <1>2, <2>3 DEF Waits
  <2> QED BY <2>1, <2>2, <2>3
<1> QED BY <1>1, <1>3 DEF u

\* A list of one step, and of three.
LEMMA StepsOne ==
  ASSUME NEW e \in Steps
  PROVE  /\ <<e>> \in Seq(Steps)
         /\ \A do, a : Waits(<<e>>, do, a) <=> e = Step(do, a)
<1> DEFINE s == <<e>>
<1>1. s \in Seq(Steps) /\ Len(s) = 1 /\ s[1] = e OBVIOUS
<1> HIDE DEF s
<1>2. 1 \in 1..Len(s) /\ \A i \in 1..Len(s) : i = 1 /\ s[i] = e BY <1>1
<1>3. \A do, a : Waits(s, do, a) <=> e = Step(do, a) BY <1>2 DEF Waits
<1> QED BY <1>1, <1>3 DEF s

\* A list of three steps.
LEMMA StepsThree ==
  ASSUME NEW e \in Steps, NEW f \in Steps, NEW g \in Steps
  PROVE  /\ <<e, f, g>> \in Seq(Steps)
         /\ \A do, a : Waits(<<e, f, g>>, do, a) <=>
              e = Step(do, a) \/ f = Step(do, a) \/ g = Step(do, a)
<1> DEFINE s == <<e, f, g>>
<1>1. s \in Seq(Steps) /\ Len(s) = 3 /\ s[1] = e /\ s[2] = f /\ s[3] = g OBVIOUS
<1> HIDE DEF s
<1>2. /\ 1 \in 1..Len(s) /\ 2 \in 1..Len(s) /\ 3 \in 1..Len(s)
      /\ \A i \in 1..Len(s) : i = 1 \/ i = 2 \/ i = 3
  BY <1>1
<1>3. \A do, a : Waits(s, do, a) <=> e = Step(do, a) \/ f = Step(do, a) \/ g = Step(do, a)
  BY <1>1, <1>2 DEF Waits
<1> QED BY <1>1, <1>3 DEF s

\* The elements of a finite set, one after another.
LEMMA SetToSeqAll ==
  ASSUME NEW S, IsFiniteSet(S)
  PROVE  /\ Cardinality(S) \in Nat
         /\ SetToSeq(S) \in [1..Cardinality(S) -> S]
         /\ \A x \in S : \E i \in 1..Cardinality(S) : SetToSeq(S)[i] = x
<1> DEFINE n == Cardinality(S)
<1>1. n \in Nat /\ ExistsBijection(1..n, S) BY FS_CardinalityType
<1>2. PICK g \in Bijection(1..n, S) : TRUE BY <1>1 DEF ExistsBijection
<1>3. g \in [1..n -> S] /\ IsInjective(g) BY <1>2 DEF Bijection, Injection
<1>4. SetToSeq(S) \in [1..n -> S] /\ IsInjective(SetToSeq(S)) BY <1>3 DEF SetToSeq
<1>5. SetToSeq(S) \in Injection(1..n, S) BY <1>4 DEF Injection
<1>6. Cardinality(1..n) = n BY <1>1, FS_Interval
<1>7. SetToSeq(S) \in Surjection(1..n, S) BY <1>1, <1>5, <1>6, FS_Injection
<1> QED BY <1>1, <1>4, <1>7 DEF Surjection

\* The devices of an adapter, to be added one after another.
LEMMA StepsAdd ==
  ASSUME NEW ds \in SUBSET Devices
  PROVE  LET u == [i \in 1..Cardinality(ds) |-> Step("add", SetToSeq(ds)[i])]
         IN  /\ u \in Seq(Steps)
             /\ \A do, a : Waits(u, do, a) <=> do = "add" /\ a \in ds
<1> DEFINE n == Cardinality(ds)
           l == SetToSeq(ds)
           u == [i \in 1..n |-> Step("add", l[i])]
<1>1. IsFiniteSet(ds) BY BluezAssumption, FS_Subset
<1>2. n \in Nat /\ l \in [1..n -> ds] /\ \A d \in ds : \E i \in 1..n : l[i] = d
  BY <1>1, SetToSeqAll
<1> HIDE DEF n, l
<1>3. \A i \in 1..n : l[i] \in ds BY <1>2
<1>4. \A i \in 1..n : Step("add", l[i]) \in Steps BY <1>3, StepTypes
<1>5. u \in Seq(Steps) /\ Len(u) = n /\ \A i \in 1..n : u[i] = Step("add", l[i])
  BY <1>2, <1>4
<1> HIDE DEF u
<1>6. ASSUME NEW do, NEW a PROVE Waits(u, do, a) <=> do = "add" /\ a \in ds
  <2>1. ASSUME Waits(u, do, a) PROVE do = "add" /\ a \in ds
    <3>1. PICK i \in 1..Len(u) : u[i] = Step(do, a) BY <2>1 DEF Waits
    <3>2. Step("add", l[i]) = Step(do, a) BY <1>5, <3>1
    <3>3. do = "add" /\ a = l[i] BY <3>2, StepTypes
    <3> QED BY <1>3, <1>5, <3>3
  <2>2. ASSUME do = "add", a \in ds PROVE Waits(u, do, a)
    <3>1. PICK i \in 1..n : l[i] = a BY <1>2, <2>2
    <3> QED BY <1>5, <2>2, <3>1 DEF Waits
  <2> QED BY <2>1, <2>2
<1> QED BY <1>5, <1>6 DEF u, n, l

----------------------------------------------------------------------------
(* What is shown.                                                          *)

\* What the two values of a flag are.
LEMMA Flags == /\ \A yes : Flag(yes) \in {"0", "1"}
               /\ Flag(TRUE) = "1" /\ Flag(FALSE) = "0"
               /\ \A yes \in BOOLEAN : Flag(yes) = "1" <=> yes
BY DEF Flag

\* The properties are set from the values of their sources, and stay without.
LEMMA PropertiesSet ==
  ASSUME NEW values, NEW p, p = [f \in Fields |-> p[f]]
  PROVE  LET r == setProperties(values, p)
         IN  /\ r = [f \in Fields |-> r[f]]
             /\ r.Enabled = IF "Powered" \in DOMAIN values THEN values["Powered"] ELSE p.Enabled
             /\ r.Connected = IF "Connected" \in DOMAIN values THEN values["Connected"]
                              ELSE p.Connected
             /\ r.Address = IF "Address" \in DOMAIN values THEN values["Address"] ELSE p.Address
<1> DEFINE r == setProperties(values, p)
<1>1. DOMAIN p = Fields BY Zenon
<1>2. r = [n \in Fields |-> IF setters_for_props_[n] \in DOMAIN values
                            THEN values[setters_for_props_[n]] ELSE p[n]]
  BY <1>1 DEF setProperties
<1>3. /\ setters_for_props_["Enabled"] = "Powered"
      /\ setters_for_props_["Connected"] = "Connected"
      /\ setters_for_props_["Address"] = "Address"
  BY DEF setters_for_props_
<1> HIDE DEF r
<1>4. r = [f \in Fields |-> r[f]] BY <1>2, Zenon
<1>5. "Enabled" \in Fields /\ "Connected" \in Fields /\ "Address" \in Fields BY DEF Fields
<1> QED BY <1>2, <1>3, <1>4, <1>5 DEF r

\* updateProperty("Connected", v) changes that property and no other.
LEMMA ConnectedUpdated ==
  ASSUME NEW v, NEW p, p = [f \in Fields |-> p[f]]
  PROVE  LET r == updateProperty("Connected", v, p)
         IN  /\ r = [f \in Fields |-> r[f]] /\ r.Connected = v
             /\ r.Enabled = p.Enabled /\ r.Address = p.Address
<1> DEFINE values == [n \in {"Connected"} |-> v]
<1>1. /\ DOMAIN values = {"Connected"} /\ values["Connected"] = v OBVIOUS
<1> HIDE DEF values
<1>2. updateProperty("Connected", v, p) = setProperties(values, p)
  BY DEF updateProperty, values
<1>3. "Powered" \notin {"Connected"} /\ "Address" \notin {"Connected"} OBVIOUS
<1> QED BY <1>1, <1>2, <1>3, PropertiesSet

\* updateProperty("Powered", v) sets "Enabled", whose source has that name.
LEMMA PoweredUpdated ==
  ASSUME NEW v, NEW p, p = [f \in Fields |-> p[f]]
  PROVE  LET r == updateProperty("Powered", v, p)
         IN  /\ r = [f \in Fields |-> r[f]] /\ r.Enabled = v
             /\ r.Connected = p.Connected /\ r.Address = p.Address
<1> DEFINE values == [n \in {"Powered"} |-> v]
<1>1. /\ DOMAIN values = {"Powered"} /\ values["Powered"] = v OBVIOUS
<1> HIDE DEF values
<1>2. updateProperty("Powered", v, p) = setProperties(values, p)
  BY DEF updateProperty, values
<1>3. "Connected" \notin {"Powered"} /\ "Address" \notin {"Powered"} OBVIOUS
<1> QED BY <1>1, <1>2, <1>3, PropertiesSet

\* What an adapter says of itself leaves the connections alone.
LEMMA AdapterRead ==
  ASSUME NEW v, NEW a, NEW p, p = [f \in Fields |-> p[f]]
  PROVE  LET r == setProperties([Powered |-> v, Address |-> a], p)
         IN  /\ r = [f \in Fields |-> r[f]] /\ r.Enabled = v /\ r.Address = a
             /\ r.Connected = p.Connected
<1> DEFINE values == [Powered |-> v, Address |-> a]
<1>1. /\ DOMAIN values = {"Powered", "Address"}
      /\ values["Powered"] = v /\ values["Address"] = a
  OBVIOUS
<1> HIDE DEF values
<1>2. "Connected" \notin {"Powered", "Address"} OBVIOUS
<1> QED BY <1>1, <1>2, PropertiesSet DEF values

\* Of the defaults, "Enabled" has no source of its name.
LEMMA DefaultsSet ==
  ASSUME NEW p, p = [f \in Fields |-> p[f]]
  PROVE  LET r == setProperties(defaults_, p)
         IN  /\ r = [f \in Fields |-> r[f]] /\ r.Connected = "0"
             /\ r.Address = defaults_.Address
<1>1. /\ DOMAIN defaults_ = {"Enabled", "Connected", "Address"}
      /\ defaults_["Connected"] = "0" /\ defaults_["Address"] = defaults_.Address
  BY DEF defaults_
<1> QED BY <1>1, PropertiesSet

----------------------------------------------------------------------------
(* What the loop and the daemon leave as it is.                            *)

\* What the loop does to the types is what it does to a few variables.
LEMMA TypesLoop ==
  ASSUME Types, UNCHANGED <<daemon, missed>>, q' \in Seq(Message),
         manager_' \in BOOLEAN, adapter_' \in Adapters \cup {None},
         hears' \in SUBSET {"props", "devices"},
         devices_' \in SUBSET Devices, connected_' \in SUBSET Devices,
         pub' = [f \in Fields |-> pub'[f]], todo' \in Seq(Steps)
  PROVE  Types'
<1>1. UNCHANGED <<up, default, powered, paired, linked, missed>> BY DEF daemon
<1> QED BY <1>1 DEF Types

\* What the daemon does to the types is what it does to its own variables.
LEMMA TypesDaemon ==
  ASSUME Types, UNCHANGED bridge, q' \in Seq(Message), missed' \in BOOLEAN,
         up' \in BOOLEAN, default' \in Adapters \cup {None},
         powered' \in [Adapters -> BOOLEAN],
         paired' \in SUBSET Devices, linked' \in SUBSET Devices
  PROVE  Types'
<1>1. UNCHANGED <<manager_, adapter_, hears, devices_, connected_, pub, todo>> BY DEF bridge
<1> QED BY <1>1 DEF Types

\* The sets of signals that are not lost with a device.
LEMMA NotLost ==
  /\ \A d : \A e \in Links(d) : e \in Message /\ e.on = "Connected" /\ e.path = d
  /\ \A e \in Starts(Message) : e.on = "Registered"
  /\ \A e \in Stops(Message) : e.on = "Unregistered"
  /\ \A e \in NewDefaults : e.on = "DefaultAdapterChanged"
  /\ \A e \in Powereds : e.on = "Powered"
  /\ \A e \in News : e.on \in {"DeviceCreated", "DeviceRemoved"}
  /\ \A d : \A e \in NewsOf(d) : e.on \in {"DeviceCreated", "DeviceRemoved"}
  /\ \A d : \A e \in Created(d) : e.on = "DeviceCreated"
BY DEF Links, Starts, Stops, NewDefaults, Powereds, News, NewsOf, Created

\* Without the signals of a device, everything else is as it was.
LEMMA DeviceLost ==
  ASSUME NEW w, NEW s, NEW d, Leaves(w, s, Links(d))
  PROVE  /\ w \in Seq(Message)
         /\ NoneIn(w, Starts(Message)) <=> NoneIn(s, Starts(Message))
         /\ NoneIn(w, Stops(Message)) <=> NoneIn(s, Stops(Message))
         /\ NoneIn(w, NewDefaults) <=> NoneIn(s, NewDefaults)
         /\ NoneIn(w, Powereds) <=> NoneIn(s, Powereds)
         /\ NoneIn(w, News) <=> NoneIn(s, News)
         /\ \A c : NoneIn(w, Created(c)) <=> NoneIn(s, Created(c))
         /\ \A c : c # d => (NoneIn(w, Links(c)) <=> NoneIn(s, Links(c)))
         /\ \A Y : LastIn(s, NewDefaults, Y) => LastIn(w, NewDefaults, Y)
         /\ \A Y : LastIn(s, Powereds, Y) => LastIn(w, Powereds, Y)
         /\ \A c, Y : LastIn(s, NewsOf(c), Y) => LastIn(w, NewsOf(c), Y)
         /\ \A c, Y : c # d /\ LastIn(s, Links(c), Y) => LastIn(w, Links(c), Y)
         /\ \A X : Behind(s, X, Starts(Message)) => Behind(w, X, Starts(Message))
         /\ \A X : Behind(s, X, Stops(Message)) => Behind(w, X, Stops(Message))
<1> DEFINE L == Links(d)
<1>1. /\ w \in Seq(Message)
      /\ \A X : (\A e \in X : e \notin L) =>
           /\ NoneIn(w, X) <=> NoneIn(s, X)
           /\ \A Y : LastIn(s, X, Y) => LastIn(w, X, Y)
      /\ \A X, Y : (\A e \in Y : e \notin L) /\ Behind(s, X, Y) => Behind(w, X, Y)
  BY DEF Leaves
<1>2. /\ \A e \in L : e.on = "Connected" /\ e.path = d
      /\ \A c : \A e \in Links(c) : e.path = c
  BY NotLost
<1> HIDE DEF L
<1>3. /\ \A e \in Starts(Message) : e \notin L
      /\ \A e \in Stops(Message) : e \notin L
      /\ \A e \in NewDefaults : e \notin L
      /\ \A e \in Powereds : e \notin L
      /\ \A e \in News : e \notin L
      /\ \A c : \A e \in NewsOf(c) : e \notin L
      /\ \A c : \A e \in Created(c) : e \notin L
      /\ \A c : c # d => \A e \in Links(c) : e \notin L
  BY <1>2, NotLost
<1>4. /\ NoneIn(w, Starts(Message)) <=> NoneIn(s, Starts(Message))
      /\ NoneIn(w, Stops(Message)) <=> NoneIn(s, Stops(Message))
      /\ NoneIn(w, NewDefaults) <=> NoneIn(s, NewDefaults)
      /\ NoneIn(w, Powereds) <=> NoneIn(s, Powereds)
      /\ NoneIn(w, News) <=> NoneIn(s, News)
  BY <1>1, <1>3
<1>5. /\ \A Y : LastIn(s, NewDefaults, Y) => LastIn(w, NewDefaults, Y)
      /\ \A Y : LastIn(s, Powereds, Y) => LastIn(w, Powereds, Y)
  BY <1>1, <1>3
<1>6. ASSUME NEW c
      PROVE  /\ NoneIn(w, Created(c)) <=> NoneIn(s, Created(c))
             /\ \A Y : LastIn(s, NewsOf(c), Y) => LastIn(w, NewsOf(c), Y)
  <2> DEFINE X == Created(c)
             Z == NewsOf(c)
  <2>1. (\A e \in X : e \notin L) /\ (\A e \in Z : e \notin L) BY <1>3
  <2> HIDE DEF X, Z
  <2>2. /\ NoneIn(w, X) <=> NoneIn(s, X)
        /\ \A Y : LastIn(s, Z, Y) => LastIn(w, Z, Y)
    BY <1>1, <2>1
  <2> QED BY <2>2 DEF X, Z
<1>7. ASSUME NEW c, c # d
      PROVE  /\ NoneIn(w, Links(c)) <=> NoneIn(s, Links(c))
             /\ \A Y : LastIn(s, Links(c), Y) => LastIn(w, Links(c), Y)
  <2> DEFINE X == Links(c)
  <2>1. \A e \in X : e \notin L BY <1>3, <1>7
  <2> HIDE DEF X
  <2>2. /\ NoneIn(w, X) <=> NoneIn(s, X)
        /\ \A Y : LastIn(s, X, Y) => LastIn(w, X, Y)
    BY <1>1, <2>1
  <2> QED BY <2>2 DEF X
<1>8. /\ \A X : Behind(s, X, Starts(Message)) => Behind(w, X, Starts(Message))
      /\ \A X : Behind(s, X, Stops(Message)) => Behind(w, X, Stops(Message))
  BY <1>1, <1>3
<1> QED BY <1>1, <1>4, <1>5, <1>6, <1>7, <1>8

\* A step that follows an adapter, of which it loses no signal, or a device.
LEMMA FollowerStays ==
  ASSUME BluetoothInv, todo # <<>>,
         Head(todo).do \in {"listen", "list", "watch", "add", "follow"},
         NEW d, Leaves(q', q, Links(d)),
         UNCHANGED <<manager_, adapter_, daemon, missed>>,
         UNCHANGED <<pub.Enabled, pub.Address>>,
         hears \subseteq hears',
         Head(todo).do = "listen" => "props" \in hears',
         Head(todo).do = "watch" => "devices" \in hears',
         \A do, a : Waits(Tail(todo), do, a) => Waits(todo', do, a),
         \A do, a : Waits(todo', do, a) => Waits(Tail(todo), do, a) \/ do \in {"add", "follow"}
  PROVE  /\ Lives' /\ Managed' /\ Gone' /\ Deaf' /\ LastDefault' /\ Adapted'
         /\ Follows' <=> Follows
         /\ up \/ ~NoneIn(q, Stops(Message))
<1>0. UNCHANGED <<up, default, powered, paired, linked, missed, manager_, adapter_>> BY DEF daemon
<1>1. /\ q \in Seq(Message) /\ up \in BOOLEAN /\ todo \in Seq(Steps)
      /\ default \in Adapters \cup {None}
  BY DEF BluetoothInv, Types
<1>2. /\ NoneIn(q', Starts(Message)) <=> NoneIn(q, Starts(Message))
      /\ NoneIn(q', Stops(Message)) <=> NoneIn(q, Stops(Message))
      /\ NoneIn(q', NewDefaults) <=> NoneIn(q, NewDefaults)
      /\ NoneIn(q', Powereds) <=> NoneIn(q, Powereds)
      /\ NoneIn(q', News) <=> NoneIn(q, News)
      /\ \A Y : LastIn(q, NewDefaults, Y) => LastIn(q', NewDefaults, Y)
      /\ \A Y : LastIn(q, Powereds, Y) => LastIn(q', Powereds, Y)
      /\ \A X : Behind(q, X, Starts(Message)) => Behind(q', X, Starts(Message))
      /\ \A X : Behind(q, X, Stops(Message)) => Behind(q', X, Stops(Message))
  BY DeviceLost
<1>3. /\ Head(todo) = Step(Head(todo).do, Head(todo).arg)
      /\ \A do, a : Waits(todo, do, a) <=> Waits(Tail(todo), do, a) \/ Head(todo) = Step(do, a)
  BY <1>1, StepsTail, StepContents
<1>4. /\ \A do, a : Waits(todo, do, a) /\ do # Head(todo).do => Waits(todo', do, a)
      /\ \A do, a : Waits(todo', do, a) => Waits(todo, do, a) \/ do \in {"add", "follow"}
  BY <1>3, StepTypes
<1>5. Lives' BY <1>0, <1>2 DEF BluetoothInv, Lives
<1>6. Restarts' <=> Restarts BY <1>2 DEF Restarts
<1>7. Managed' BY <1>0, <1>6 DEF BluetoothInv, Managed
<1>8. todo # <<Step("default", None)>>
  <2> DEFINE e == Step("default", None)
  <2>1. e.do = "default" BY StepTypes
  <2> HIDE DEF e
  <2>2. todo # <<e>> BY <2>1
  <2> QED BY <2>2 DEF e
<1>9. up \/ ~NoneIn(q, Stops(Message)) BY <1>8 DEF BluetoothInv, Gone, Idle
<1>10. Gone' BY <1>0, <1>2, <1>9 DEF Gone
<1>11. Deaf' BY <1>2 DEF BluetoothInv, Deaf
<1>12. LastDefault'
  <2> SUFFICES ASSUME up, ~Restarts
               PROVE  /\ LastIn(q', NewDefaults, Defaults(default))
                      /\ \A a \in Adapters : Waits(todo', "adapter", a) =>
                           a = default \/ ~NoneIn(q', NewDefaults)
    BY <1>0, <1>6 DEF LastDefault
  <2>1. /\ LastIn(q, NewDefaults, Defaults(default))
        /\ \A a \in Adapters : Waits(todo, "adapter", a) =>
             a = default \/ ~NoneIn(q, NewDefaults)
    BY DEF BluetoothInv, LastDefault
  <2>2. \A a : Waits(todo', "adapter", a) => Waits(todo, "adapter", a) BY <1>4
  <2> QED BY <1>2, <2>1, <2>2
<1>13. Turns' <=> Turns
  <2>1. /\ Waits(todo', "default", None) <=> Waits(todo, "default", None)
        /\ Waits(todo', "adapter", default) <=> Waits(todo, "adapter", default)
    BY <1>4
  <2> QED BY <1>0, <1>2, <1>6, <2>1 DEF Turns
<1>14. Follows' <=> Follows BY <1>0, <1>13 DEF Follows
<1>15. Adapted'
  <2> SUFFICES ASSUME Follows
               PROVE  /\ adapter_ = default /\ pub.Address = default
                      /\ "props" \in hears' \/ Waits(todo', "listen", default)
                      /\ "devices" \in hears' \/ Waits(todo', "watch", default)
                      /\ LastIn(q', Powereds, PoweredIs(Flag(powered[default])))
                      /\ NoneIn(q', Powereds) => pub.Enabled = Flag(powered[default])
    BY <1>0, <1>14 DEF Adapted
  <2>1. /\ adapter_ = default /\ pub.Address = default
        /\ "props" \in hears \/ Waits(todo, "listen", default)
        /\ "devices" \in hears \/ Waits(todo, "watch", default)
        /\ LastIn(q, Powereds, PoweredIs(Flag(powered[default])))
        /\ NoneIn(q, Powereds) => pub.Enabled = Flag(powered[default])
    BY DEF BluetoothInv, Adapted
  <2> QED BY <1>2, <1>4, <2>1
<1> QED BY <1>5, <1>7, <1>9, <1>10, <1>11, <1>12, <1>14, <1>15

----------------------------------------------------------------------------
(* The steps of a handler.                                                 *)

\* A step that leaves the devices alone.
LEMMA KnownStays ==
  ASSUME BluetoothInv, Follows' => Follows,
         UNCHANGED <<daemon, devices_, connected_, q>>, UNCHANGED pub.Connected,
         \A a : Waits(todo, "list", a) => Waits(todo', "list", a),
         \A d : /\ Waits(todo, "add", d) => Waits(todo', "add", d)
                /\ Waits(todo, "follow", d) => Waits(todo', "follow", d)
  PROVE  Known'
<1>0. UNCHANGED <<up, default, powered, paired, linked>> BY DEF daemon
<1>1. Here' = Here BY <1>0 DEF Here
<1> SUFFICES ASSUME Follows, NEW d \in Here
             PROVE  /\ LastIn(q, NewsOf(d), Created(d))
                    /\ \/ Waits(todo', "list", default)
                       \/ Waits(todo', "add", d)
                       \/ ~NoneIn(q, Created(d))
                       \/ Linked(d)'
  BY <1>0, <1>1 DEF Known
<1>2. /\ LastIn(q, NewsOf(d), Created(d))
      /\ \/ Waits(todo, "list", default)
         \/ Waits(todo, "add", d)
         \/ ~NoneIn(q, Created(d))
         \/ Linked(d)
  BY DEF BluetoothInv, Known
<1>3. Linked(d) => Linked(d)' BY <1>0 DEF Linked
<1> QED BY <1>2, <1>3

\* The default adapter is asked for.
LEMMA GetDefaultRun == ASSUME BluetoothInv, GetDefault PROVE BluetoothInv'
<1>1. /\ todo # <<>> /\ Head(todo).do = "default"
      /\ todo' = IF up /\ default # None THEN <<Step("adapter", default)>> ELSE <<>>
      /\ UNCHANGED <<manager_, adapter_, hears, devices_, connected_, pub, q, daemon, missed>>
  BY DEF GetDefault, Doing
<1>2. UNCHANGED <<up, default, powered, paired, linked>> BY <1>1 DEF daemon
<1>3. default \in Adapters \cup {None} /\ q \in Seq(Message) BY DEF BluetoothInv, Types
<1>4. /\ todo' \in Seq(Steps)
      /\ up /\ default # None => Waits(todo', "adapter", default)
      /\ \A a : Waits(todo', "adapter", a) => a = default
  <2>1. CASE up /\ default # None
    <3> DEFINE e == Step("adapter", default)
    <3>1. /\ e \in Steps /\ \A do, a : e = Step(do, a) <=> do = "adapter" /\ a = default
      BY <1>3, <2>1, StepTypes
    <3> HIDE DEF e
    <3>2. todo' = <<e>> BY <1>1, <2>1 DEF e
    <3> QED BY <3>1, <3>2, StepsOne
  <2>2. CASE ~(up /\ default # None)
    <3>1. todo' = <<>> BY <1>1, <2>2
    <3> QED BY <2>2, <3>1, StepsNone
  <2> QED BY <2>1, <2>2
<1>5. Types'
  <2>1. /\ manager_' \in BOOLEAN /\ adapter_' \in Adapters \cup {None}
        /\ hears' \in SUBSET {"props", "devices"}
        /\ devices_' \in SUBSET Devices /\ connected_' \in SUBSET Devices
        /\ pub' = [f \in Fields |-> pub'[f]]
    BY <1>1 DEF BluetoothInv, Types
  <2> QED BY <1>1, <1>3, <1>4, <2>1, TypesLoop DEF BluetoothInv
<1>6. Lives' /\ Managed' /\ Believed' /\ Deaf'
  BY <1>1, <1>2 DEF BluetoothInv, Lives, Managed, Restarts, Believed, Deaf
<1>7. Gone'
  <2>1. ~up => todo' = <<>> BY <1>1
  <2> QED BY <1>1, <1>2, <2>1 DEF BluetoothInv, Gone, Idle
<1>8. LastDefault' BY <1>1, <1>2, <1>4 DEF BluetoothInv, LastDefault, Restarts
<1>9. ~Follows' BY <1>1, <1>2, <1>4 DEF Follows, Turns
<1>10. Adapted' /\ Known' BY <1>9 DEF Adapted, Known
<1> QED BY <1>5, <1>6, <1>7, <1>8, <1>10 DEF BluetoothInv

\* The bridge turns to an adapter and reads its properties.
LEMMA NewAdapterRun == ASSUME BluetoothInv, NewAdapter PROVE BluetoothInv'
<1> DEFINE a0 == Head(todo).arg
           L == Powereds \cup News
           e1 == Step("listen", a0)
           e2 == Step("list", a0)
           e3 == Step("watch", a0)
<1>1. /\ todo # <<>> /\ Head(todo).do = "adapter"
      /\ adapter_' = a0 /\ hears' = {}
      /\ q' = Without(q, OfAdapter)
      /\ pub' = IF up THEN setProperties([Powered |-> Flag(powered[a0]), Address |-> a0], pub)
                ELSE pub
      /\ todo' = <<e1, e2, e3>>
      /\ UNCHANGED <<manager_, devices_, connected_, daemon, missed>>
  BY DEF NewAdapter, Doing, arg
<1>2. UNCHANGED <<up, default, powered, paired, linked>> BY <1>1 DEF daemon
<1>3. /\ q \in Seq(Message) /\ todo \in Seq(Steps) /\ pub = [f \in Fields |-> pub[f]]
      /\ up \in BOOLEAN
  BY DEF BluetoothInv, Types
<1>4. /\ Head(todo) \in Steps /\ a0 \in Adapters /\ Head(todo) = Step("adapter", a0)
      /\ Waits(todo, "adapter", a0)
  BY <1>1, <1>3, StepsTail, StepContents
<1>5. /\ e1 \in Steps /\ e2 \in Steps /\ e3 \in Steps
      /\ \A do, a : e1 = Step(do, a) <=> do = "listen" /\ a = a0
      /\ \A do, a : e2 = Step(do, a) <=> do = "list" /\ a = a0
      /\ \A do, a : e3 = Step(do, a) <=> do = "watch" /\ a = a0
  BY <1>4, StepTypes
<1> HIDE DEF e1, e2, e3
<1>6. /\ todo' \in Seq(Steps)
      /\ Waits(todo', "listen", a0) /\ Waits(todo', "list", a0) /\ Waits(todo', "watch", a0)
      /\ \A do, a : Waits(todo', do, a) => do \in {"listen", "list", "watch"}
  BY <1>1, <1>5, StepsThree
<1>7. /\ Leaves(q', q, L) /\ NoneIn(q', L) BY <1>1, <1>3, ProxyLost
<1>8. /\ q' \in Seq(Message)
      /\ \A X : (\A e \in X : e \notin L) =>
           /\ NoneIn(q', X) <=> NoneIn(q, X)
           /\ \A Y : LastIn(q, X, Y) => LastIn(q', X, Y)
      /\ \A X, Y : (\A e \in Y : e \notin L) /\ Behind(q, X, Y) => Behind(q', X, Y)
  BY <1>7 DEF Leaves
<1>9. NoneIn(q', Powereds) /\ NoneIn(q', News) BY <1>7 DEF NoneIn
<1>10. /\ \A e \in Starts(Message) : e \notin L
       /\ \A e \in Stops(Message) : e \notin L
       /\ \A e \in NewDefaults : e \notin L
  BY NotLost
<1> HIDE DEF a0, L
<1>11. /\ NoneIn(q', Starts(Message)) <=> NoneIn(q, Starts(Message))
       /\ NoneIn(q', Stops(Message)) <=> NoneIn(q, Stops(Message))
       /\ NoneIn(q', NewDefaults) <=> NoneIn(q, NewDefaults)
       /\ \A Y : LastIn(q, NewDefaults, Y) => LastIn(q', NewDefaults, Y)
       /\ \A X : Behind(q, X, Starts(Message)) => Behind(q', X, Starts(Message))
       /\ \A X : Behind(q, X, Stops(Message)) => Behind(q', X, Stops(Message))
  BY <1>8, <1>10
<1>12. /\ pub' = [f \in Fields |-> pub'[f]] /\ pub'.Connected = pub.Connected
       /\ up => pub'.Address = a0 /\ pub'.Enabled = Flag(powered[a0])
  <2>1. CASE up
    <3> DEFINE v == Flag(powered[a0])
    <3>1. pub' = setProperties([Powered |-> v, Address |-> a0], pub) BY <1>1, <2>1
    <3> HIDE DEF v
    <3>2. /\ pub' = [f \in Fields |-> pub'[f]] /\ pub'.Enabled = v /\ pub'.Address = a0
          /\ pub'.Connected = pub.Connected
      BY <1>3, <3>1, AdapterRead
    <3> QED BY <3>2 DEF v
  <2>2. CASE ~up
    <3>1. pub' = pub BY <1>1, <2>2
    <3> QED BY <1>3, <2>2, <3>1
  <2> QED BY <2>1, <2>2
<1>13. Types'
  <2>1. /\ manager_' \in BOOLEAN /\ adapter_' \in Adapters \cup {None}
        /\ hears' \in SUBSET {"props", "devices"}
        /\ devices_' \in SUBSET Devices /\ connected_' \in SUBSET Devices
    BY <1>1, <1>4 DEF BluetoothInv, Types
  <2> QED BY <1>1, <1>6, <1>8, <1>12, <2>1, TypesLoop DEF BluetoothInv
<1>14. Lives' BY <1>2, <1>11 DEF BluetoothInv, Lives
<1>15. Restarts' <=> Restarts BY <1>11 DEF Restarts
<1>16. Managed' BY <1>1, <1>2, <1>15 DEF BluetoothInv, Managed
<1>17. Gone'
  <2>1. todo # <<Step("default", None)>>
    <3> DEFINE e == Step("default", None)
    <3>1. e.do = "default" BY StepTypes
    <3> HIDE DEF e
    <3>2. todo # <<e>> BY <1>1, <3>1
    <3> QED BY <3>2 DEF e
  <2> QED BY <1>1, <1>2, <1>11, <2>1 DEF BluetoothInv, Gone, Idle
<1>18. Believed' BY <1>1, <1>12 DEF BluetoothInv, Believed
<1>19. Deaf' BY <1>9 DEF Deaf
<1>20. LastDefault'
  <2>1. \A a : ~Waits(todo', "adapter", a) BY <1>6
  <2> QED BY <1>2, <1>11, <1>15, <2>1 DEF BluetoothInv, LastDefault
<1>21. Follows' => up /\ a0 = default
  <2> SUFFICES ASSUME Follows' PROVE up /\ a0 = default OBVIOUS
  <2>1. up /\ ~Restarts /\ NoneIn(q, NewDefaults) BY <1>2, <1>11, <1>15 DEF Follows, Turns
  <2> QED BY <1>4, <2>1 DEF BluetoothInv, LastDefault
<1>22. Adapted' BY <1>1, <1>2, <1>6, <1>9, <1>12, <1>21, QueueNone DEF Adapted
<1>23. Known'
  <2> SUFFICES ASSUME Follows', NEW d
               PROVE  LastIn(q', NewsOf(d), Created(d)) /\ Waits(todo', "list", default)
    BY <1>2 DEF Known
  <2>1. NoneIn(q', NewsOf(d)) BY <1>9 DEF NoneIn, NewsOf
  <2> QED BY <1>6, <1>21, <2>1, QueueNone
<1> QED BY <1>13, <1>14, <1>16, <1>17, <1>18, <1>19, <1>20, <1>22, <1>23 DEF BluetoothInv

\* The bridge connects to the properties, ...
LEMMA ListenRun == ASSUME BluetoothInv, Listen PROVE BluetoothInv'
<1>1. /\ todo # <<>> /\ Head(todo).do = "listen"
      /\ hears' = hears \cup {"props"} /\ todo' = Tail(todo)
      /\ UNCHANGED <<manager_, adapter_, devices_, connected_, pub, q, daemon, missed>>
  BY DEF Listen, Doing
<1>2. q \in Seq(Message) /\ todo \in Seq(Steps) BY DEF BluetoothInv, Types
<1>3. /\ todo' \in Seq(Steps) /\ Head(todo) \in Steps
      /\ Head(todo) = Step("listen", Head(todo).arg)
      /\ \A do, a : Waits(todo, do, a) <=> Waits(todo', do, a) \/ Head(todo) = Step(do, a)
  BY <1>1, <1>2, StepsTail, StepContents
<1>4. \A do, a : Waits(todo, do, a) /\ do # "listen" => Waits(todo', do, a)
  BY <1>3, StepTypes
<1>5. Leaves(q', q, Links(None)) BY <1>1, <1>2, ProxyLost
<1>6. /\ Lives' /\ Managed' /\ Gone' /\ Deaf' /\ LastDefault' /\ Adapted'
      /\ Follows' <=> Follows
  BY <1>1, <1>5, FollowerStays
<1>7. Types'
  <2>1. /\ manager_' \in BOOLEAN /\ adapter_' \in Adapters \cup {None}
        /\ hears' \in SUBSET {"props", "devices"}
        /\ devices_' \in SUBSET Devices /\ connected_' \in SUBSET Devices
        /\ pub' = [f \in Fields |-> pub'[f]]
    BY <1>1 DEF BluetoothInv, Types
  <2> QED BY <1>1, <1>2, <1>3, <2>1, TypesLoop DEF BluetoothInv
<1>8. Believed' BY <1>1 DEF BluetoothInv, Believed
<1>9. Known' BY <1>1, <1>4, <1>6, KnownStays
<1> QED BY <1>6, <1>7, <1>8, <1>9 DEF BluetoothInv

\* ... and to what tells of devices that come and go.
LEMMA WatchRun == ASSUME BluetoothInv, Watch PROVE BluetoothInv'
<1>1. /\ todo # <<>> /\ Head(todo).do = "watch"
      /\ hears' = hears \cup {"devices"} /\ todo' = Tail(todo)
      /\ UNCHANGED <<manager_, adapter_, devices_, connected_, pub, q, daemon, missed>>
  BY DEF Watch, Doing
<1>2. q \in Seq(Message) /\ todo \in Seq(Steps) BY DEF BluetoothInv, Types
<1>3. /\ todo' \in Seq(Steps) /\ Head(todo) \in Steps
      /\ Head(todo) = Step("watch", Head(todo).arg)
      /\ \A do, a : Waits(todo, do, a) <=> Waits(todo', do, a) \/ Head(todo) = Step(do, a)
  BY <1>1, <1>2, StepsTail, StepContents
<1>4. \A do, a : Waits(todo, do, a) /\ do # "watch" => Waits(todo', do, a)
  BY <1>3, StepTypes
<1>5. Leaves(q', q, Links(None)) BY <1>1, <1>2, ProxyLost
<1>6. /\ Lives' /\ Managed' /\ Gone' /\ Deaf' /\ LastDefault' /\ Adapted'
      /\ Follows' <=> Follows
  BY <1>1, <1>5, FollowerStays
<1>7. Types'
  <2>1. /\ manager_' \in BOOLEAN /\ adapter_' \in Adapters \cup {None}
        /\ hears' \in SUBSET {"props", "devices"}
        /\ devices_' \in SUBSET Devices /\ connected_' \in SUBSET Devices
        /\ pub' = [f \in Fields |-> pub'[f]]
    BY <1>1 DEF BluetoothInv, Types
  <2> QED BY <1>1, <1>2, <1>3, <2>1, TypesLoop DEF BluetoothInv
<1>8. Believed' BY <1>1 DEF BluetoothInv, Believed
<1>9. Known' BY <1>1, <1>4, <1>6, KnownStays
<1> QED BY <1>6, <1>7, <1>8, <1>9 DEF BluetoothInv

\* The devices of an adapter are listed, to be added.
LEMMA ListDevicesRun == ASSUME BluetoothInv, ListDevices PROVE BluetoothInv'
<1> DEFINE a0 == Head(todo).arg
           those == {d \in paired : AdapterOf[d] = a0}
           adds == [i \in 1..Cardinality(those) |-> Step("add", SetToSeq(those)[i])]
<1>1. /\ todo # <<>> /\ Head(todo).do = "list"
      /\ todo' = IF up THEN adds \o Tail(todo) ELSE Tail(todo)
      /\ UNCHANGED <<manager_, adapter_, hears, devices_, connected_, pub, q, daemon, missed>>
  BY DEF ListDevices, Doing, arg
<1>2. /\ q \in Seq(Message) /\ todo \in Seq(Steps) /\ up \in BOOLEAN
      /\ paired \in SUBSET Devices
  BY DEF BluetoothInv, Types
<1>3. /\ Tail(todo) \in Seq(Steps) /\ Head(todo) \in Steps
      /\ Head(todo) = Step("list", a0)
      /\ \A do, a : Waits(todo, do, a) <=> Waits(Tail(todo), do, a) \/ Head(todo) = Step(do, a)
  BY <1>1, <1>2, StepsTail, StepContents
<1>4. /\ adds \in Seq(Steps)
      /\ \A do, a : Waits(adds, do, a) <=> do = "add" /\ a \in those
  <2> DEFINE ds == those
  <2>1. ds \in SUBSET Devices BY <1>2
  <2> HIDE DEF ds
  <2>2. LET u == [i \in 1..Cardinality(ds) |-> Step("add", SetToSeq(ds)[i])]
        IN  /\ u \in Seq(Steps)
            /\ \A do, a : Waits(u, do, a) <=> do = "add" /\ a \in ds
    BY <2>1, StepsAdd
  <2> QED BY <2>2 DEF ds
<1> HIDE DEF adds
<1>5. /\ todo' \in Seq(Steps)
      /\ \A do, a : Waits(Tail(todo), do, a) => Waits(todo', do, a)
      /\ \A do, a : Waits(todo', do, a) => Waits(Tail(todo), do, a) \/ do \in {"add", "follow"}
      /\ up => \A d \in those : Waits(todo', "add", d)
  <2>1. CASE up
    <3> DEFINE r == Tail(todo)
    <3>1. r \in Seq(Steps) /\ todo' = adds \o r BY <1>1, <1>3, <2>1
    <3> HIDE DEF r
    <3>2. /\ todo' \in Seq(Steps)
          /\ \A do, a : Waits(todo', do, a) <=> Waits(adds, do, a) \/ Waits(r, do, a)
      BY <1>4, <3>1, StepsBefore
    <3>3. /\ \A do, a : Waits(r, do, a) => Waits(todo', do, a)
          /\ \A do, a : Waits(todo', do, a) => Waits(r, do, a) \/ do = "add"
          /\ \A d \in those : Waits(todo', "add", d)
      BY <1>4, <3>2
    <3> QED BY <3>2, <3>3 DEF r
  <2>2. CASE ~up
    <3>1. todo' = Tail(todo) BY <1>1, <2>2
    <3> QED BY <1>3, <2>2, <3>1
  <2> QED BY <2>1, <2>2
<1>6. \A do, a : Waits(todo, do, a) /\ ~(do = "list" /\ a = a0) => Waits(todo', do, a)
  BY <1>3, <1>5, StepTypes
<1>7. Leaves(q', q, Links(None)) BY <1>1, <1>2, ProxyLost
<1>8. /\ Lives' /\ Managed' /\ Gone' /\ Deaf' /\ LastDefault' /\ Adapted'
      /\ Follows' <=> Follows
  BY <1>1, <1>5, <1>7, FollowerStays
<1>9. Types'
  <2>1. /\ manager_' \in BOOLEAN /\ adapter_' \in Adapters \cup {None}
        /\ hears' \in SUBSET {"props", "devices"}
        /\ devices_' \in SUBSET Devices /\ connected_' \in SUBSET Devices
        /\ pub' = [f \in Fields |-> pub'[f]]
    BY <1>1 DEF BluetoothInv, Types
  <2> QED BY <1>1, <1>2, <1>5, <2>1, TypesLoop DEF BluetoothInv
<1>10. Believed' BY <1>1 DEF BluetoothInv, Believed
<1>11. Known'
  <2>0. UNCHANGED <<up, default, powered, paired, linked>> BY <1>1 DEF daemon
  <2>1. Here' = Here BY <2>0 DEF Here
  <2> SUFFICES ASSUME Follows, NEW d \in Here
               PROVE  /\ LastIn(q, NewsOf(d), Created(d))
                      /\ \/ Waits(todo', "list", default)
                         \/ Waits(todo', "add", d)
                         \/ ~NoneIn(q, Created(d))
                         \/ Linked(d)'
    BY <1>1, <1>8, <2>0, <2>1 DEF Known
  <2>2. /\ LastIn(q, NewsOf(d), Created(d))
        /\ \/ Waits(todo, "list", default)
           \/ Waits(todo, "add", d)
           \/ ~NoneIn(q, Created(d))
           \/ Linked(d)
    BY DEF BluetoothInv, Known
  <2>3. a0 = default => Waits(todo', "add", d)
    <3>1. up /\ d \in paired /\ AdapterOf[d] = default BY DEF Follows, Here
    <3> QED BY <1>5, <3>1
  <2>4. Linked(d) => Linked(d)' BY <1>1, <1>6, <2>0 DEF Linked
  <2> QED BY <1>6, <2>2, <2>3, <2>4
<1> QED BY <1>8, <1>9, <1>10, <1>11 DEF BluetoothInv

\* What is known of the other devices when one of them is added, removed, or
\* changes.
LEMMA LinkedStays ==
  ASSUME BluetoothInv, NEW c, Linked(c), UNCHANGED daemon,
         c \in devices_ => c \in devices_',
         Waits(todo, "follow", c) => Waits(todo', "follow", c),
         NoneIn(q', Links(c)) <=> NoneIn(q, Links(c)),
         \A Y : LastIn(q, Links(c), Y) => LastIn(q', Links(c), Y),
         c \in connected_' <=> c \in connected_,
         pub'.Connected = pub.Connected \/ (connected_' # {} => pub'.Connected = "1")
  PROVE  Linked(c)'
<1>0. UNCHANGED linked BY DEF daemon
<1>1. /\ c \in devices_ \/ Waits(todo, "follow", c)
      /\ LastIn(q, Links(c), LinkIs(c, Flag(c \in linked)))
      /\ NoneIn(q, Links(c)) => (c \in connected_ <=> c \in linked)
      /\ c \in connected_ => pub.Connected = "1"
  BY DEF Linked
<1>2. c \in connected_' => pub'.Connected = "1" BY <1>1
<1>3. LastIn(q', Links(c), LinkIs(c, Flag(c \in linked))) BY <1>1
<1>4. NoneIn(q', Links(c)) => (c \in connected_' <=> c \in linked) BY <1>1
<1>5. c \in devices_' \/ Waits(todo', "follow", c) BY <1>1
<1> QED BY <1>0, <1>2, <1>3, <1>4, <1>5 DEF Linked

\* A device is removed, if it was there, and its state is read again.
LEMMA AddDeviceRun == ASSUME BluetoothInv, AddDevice PROVE BluetoothInv'
<1> DEFINE d0 == Head(todo).arg
           known == up /\ d0 \in paired
           now == IF known /\ d0 \in linked THEN connected_ \cup {d0} ELSE connected_ \ {d0}
           e == Step("follow", d0)
<1>1. /\ todo # <<>> /\ Head(todo).do = "add"
      /\ devices_' = devices_ \ {d0} /\ q' = Unheard(q, d0) /\ connected_' = now
      /\ pub' = IF known \/ d0 \in connected_
                THEN updateProperty("Connected", Flag(now # {}), pub) ELSE pub
      /\ todo' = <<e>> \o Tail(todo)
      /\ UNCHANGED <<manager_, adapter_, hears, daemon, missed>>
  BY DEF AddDevice, Doing, arg
<1>2. UNCHANGED <<up, default, powered, paired, linked>> BY <1>1 DEF daemon
<1>3. /\ q \in Seq(Message) /\ todo \in Seq(Steps) /\ pub = [f \in Fields |-> pub[f]]
      /\ connected_ \in SUBSET Devices /\ devices_ \in SUBSET Devices
      /\ paired \in SUBSET Devices
  BY DEF BluetoothInv, Types
<1>4. /\ Tail(todo) \in Seq(Steps) /\ Head(todo) \in Steps /\ d0 \in Devices
      /\ Head(todo) = Step("add", d0)
      /\ \A do, a : Waits(todo, do, a) <=> Waits(Tail(todo), do, a) \/ Head(todo) = Step(do, a)
  BY <1>1, <1>3, StepsTail, StepContents
<1>5. /\ e \in Steps /\ \A do, a : e = Step(do, a) <=> do = "follow" /\ a = d0
  BY <1>4, StepTypes
<1>6. /\ Leaves(q', q, Links(d0)) /\ NoneIn(q', Links(d0)) BY <1>1, <1>3, ProxyLost
<1> HIDE DEF e
<1>7. /\ todo' \in Seq(Steps)
      /\ \A do, a : Waits(todo', do, a) <=> (do = "follow" /\ a = d0) \/ Waits(Tail(todo), do, a)
  <2> DEFINE s == <<e>>
             r == Tail(todo)
  <2>1. s \in Seq(Steps) /\ \A do, a : Waits(s, do, a) <=> do = "follow" /\ a = d0
    BY <1>5, StepsOne
  <2>2. todo' = s \o r /\ r \in Seq(Steps) BY <1>1, <1>4
  <2> HIDE DEF s, r
  <2>3. /\ todo' \in Seq(Steps)
        /\ \A do, a : Waits(todo', do, a) <=> (do = "follow" /\ a = d0) \/ Waits(r, do, a)
    BY <2>1, <2>2, StepsBefore
  <2> QED BY <2>3 DEF r
<1>8. \A do, a : Waits(todo, do, a) /\ ~(do = "add" /\ a = d0) => Waits(todo', do, a)
  BY <1>4, <1>7, StepTypes
<1> HIDE DEF known, now
<1>9. /\ pub' = [f \in Fields |-> pub'[f]]
      /\ UNCHANGED <<pub.Enabled, pub.Address>>
      /\ pub'.Connected = "1" => now # {}
      /\ pub'.Connected = pub.Connected \/ (now # {} => pub'.Connected = "1")
      /\ known /\ now # {} => pub'.Connected = "1"
  <2>1. CASE known \/ d0 \in connected_
    <3> DEFINE yes == now # {}
               v == Flag(yes)
               r == updateProperty("Connected", v, pub)
    <3>1. pub' = r BY <1>1, <2>1
    <3>2. yes \in BOOLEAN OBVIOUS
    <3>3. v = "1" <=> yes BY <3>2, Flags
    <3> HIDE DEF v
    <3>4. /\ r = [f \in Fields |-> r[f]] /\ r.Connected = v
          /\ r.Enabled = pub.Enabled /\ r.Address = pub.Address
      BY <1>3, ConnectedUpdated
    <3> HIDE DEF r
    <3>5. /\ pub' = [f \in Fields |-> pub'[f]]
          /\ pub'.Enabled = pub.Enabled /\ pub'.Address = pub.Address
          /\ pub'.Connected = "1" <=> yes
      BY <3>1, <3>3, <3>4
    <3> QED BY <3>5
  <2>2. CASE ~(known \/ d0 \in connected_)
    <3>1. pub' = pub /\ now = connected_ BY <1>1, <2>2 DEF now
    <3> QED BY <1>3, <2>2, <3>1 DEF BluetoothInv, Believed
  <2> QED BY <2>1, <2>2
<1>10. /\ Lives' /\ Managed' /\ Gone' /\ Deaf' /\ LastDefault' /\ Adapted'
       /\ Follows' <=> Follows
  <2> DEFINE r == Tail(todo)
  <2>1. /\ \A do, a : Waits(r, do, a) => Waits(todo', do, a)
        /\ \A do, a : Waits(todo', do, a) => Waits(r, do, a) \/ do \in {"add", "follow"}
    BY <1>7
  <2> QED BY <1>1, <1>6, <1>9, <2>1, FollowerStays
<1>11. Types'
  <2>1. /\ manager_' \in BOOLEAN /\ adapter_' \in Adapters \cup {None}
        /\ hears' \in SUBSET {"props", "devices"} /\ devices_' \in SUBSET Devices
    BY <1>1 DEF BluetoothInv, Types
  <2>2. connected_' \in SUBSET Devices BY <1>1, <1>3, <1>4 DEF now
  <2>3. q' \in Seq(Message) BY <1>6, DeviceLost
  <2> QED BY <1>1, <1>7, <1>9, <2>1, <2>2, <2>3, TypesLoop DEF BluetoothInv
<1>12. Believed' BY <1>1, <1>9 DEF Believed
<1>13. Known'
  <2>1. Here' = Here BY <1>2 DEF Here
  <2> SUFFICES ASSUME Follows, NEW d \in Here
               PROVE  /\ LastIn(q', NewsOf(d), Created(d))
                      /\ \/ Waits(todo', "list", default)
                         \/ Waits(todo', "add", d)
                         \/ ~NoneIn(q', Created(d))
                         \/ Linked(d)'
    BY <1>2, <1>10, <2>1 DEF Known
  <2>2. /\ LastIn(q, NewsOf(d), Created(d))
        /\ \/ Waits(todo, "list", default)
           \/ Waits(todo, "add", d)
           \/ ~NoneIn(q, Created(d))
           \/ Linked(d)
    BY DEF BluetoothInv, Known
  <2>3. /\ LastIn(q', NewsOf(d), Created(d))
        /\ NoneIn(q', Created(d)) <=> NoneIn(q, Created(d))
        /\ d # d0 => /\ NoneIn(q', Links(d)) <=> NoneIn(q, Links(d))
                     /\ \A Y : LastIn(q, Links(d), Y) => LastIn(q', Links(d), Y)
    BY <1>6, <2>2, DeviceLost
  <2>4. CASE d = d0
    <3>1. known BY <2>4 DEF known, Follows, Here
    <3>2. d \in now <=> d \in linked BY <2>4, <3>1 DEF now
    <3>3. d \in now => pub'.Connected = "1" BY <1>9, <3>1
    <3>4. Waits(todo', "follow", d) BY <1>7, <2>4
    <3>5. NoneIn(q', Links(d)) BY <1>6, <2>4
    <3>6. LastIn(q', Links(d), LinkIs(d, Flag(d \in linked))) BY <3>5, QueueNone
    <3>7. Linked(d)' BY <1>1, <1>2, <3>2, <3>3, <3>4, <3>6 DEF Linked
    <3> QED BY <2>3, <3>7
  <2>5. CASE d # d0
    <3>1. /\ d \in devices_ => d \in devices_'
          /\ d \in connected_' <=> d \in connected_
      BY <1>1, <2>5 DEF now
    <3>2. Waits(todo, "follow", d) => Waits(todo', "follow", d) BY <1>8
    <3>3. Linked(d) => Linked(d)' BY <1>1, <1>9, <2>3, <2>5, <3>1, <3>2, LinkedStays
    <3> QED BY <1>8, <2>2, <2>3, <2>5, <3>3
  <2> QED BY <2>4, <2>5
<1> QED BY <1>10, <1>11, <1>12, <1>13 DEF BluetoothInv

\* The bridge connects to a device.
LEMMA FollowRun == ASSUME BluetoothInv, Follow PROVE BluetoothInv'
<1> DEFINE d0 == Head(todo).arg
<1>1. /\ todo # <<>> /\ Head(todo).do = "follow"
      /\ devices_' = devices_ \cup {d0} /\ todo' = Tail(todo)
      /\ UNCHANGED <<manager_, adapter_, hears, connected_, pub, q, daemon, missed>>
  BY DEF Follow, Doing, arg
<1>2. q \in Seq(Message) /\ todo \in Seq(Steps) BY DEF BluetoothInv, Types
<1>3. /\ todo' \in Seq(Steps) /\ Head(todo) \in Steps /\ d0 \in Devices
      /\ Head(todo) = Step("follow", d0)
      /\ \A do, a : Waits(todo, do, a) <=> Waits(todo', do, a) \/ Head(todo) = Step(do, a)
  BY <1>1, <1>2, StepsTail, StepContents
<1>4. \A do, a : Waits(todo, do, a) /\ ~(do = "follow" /\ a = d0) => Waits(todo', do, a)
  BY <1>3, StepTypes
<1>5. Leaves(q', q, Links(None)) BY <1>1, <1>2, ProxyLost
<1>6. /\ Lives' /\ Managed' /\ Gone' /\ Deaf' /\ LastDefault' /\ Adapted'
      /\ Follows' <=> Follows
  BY <1>1, <1>5, FollowerStays
<1>7. Types'
  <2>1. /\ manager_' \in BOOLEAN /\ adapter_' \in Adapters \cup {None}
        /\ hears' \in SUBSET {"props", "devices"}
        /\ devices_' \in SUBSET Devices /\ connected_' \in SUBSET Devices
        /\ pub' = [f \in Fields |-> pub'[f]]
    BY <1>1, <1>3 DEF BluetoothInv, Types
  <2> QED BY <1>1, <1>2, <1>3, <2>1, TypesLoop DEF BluetoothInv
<1>8. Believed' BY <1>1 DEF BluetoothInv, Believed
<1>9. Known'
  <2>0. UNCHANGED <<up, default, powered, paired, linked>> BY <1>1 DEF daemon
  <2>1. Here' = Here BY <2>0 DEF Here
  <2> SUFFICES ASSUME Follows, NEW d \in Here
               PROVE  /\ LastIn(q, NewsOf(d), Created(d))
                      /\ \/ Waits(todo', "list", default)
                         \/ Waits(todo', "add", d)
                         \/ ~NoneIn(q, Created(d))
                         \/ Linked(d)'
    BY <1>1, <1>6, <2>0, <2>1 DEF Known
  <2>2. /\ LastIn(q, NewsOf(d), Created(d))
        /\ \/ Waits(todo, "list", default)
           \/ Waits(todo, "add", d)
           \/ ~NoneIn(q, Created(d))
           \/ Linked(d)
    BY DEF BluetoothInv, Known
  <2>3. d \in devices_ \/ Waits(todo, "follow", d) => d \in devices_' \/ Waits(todo', "follow", d)
    BY <1>1, <1>4
  <2>4. Linked(d) => Linked(d)' BY <1>1, <2>0, <2>3 DEF Linked
  <2> QED BY <1>4, <2>2, <2>4
<1> QED BY <1>6, <1>7, <1>8, <1>9 DEF BluetoothInv

----------------------------------------------------------------------------
(* The handlers.                                                           *)

\* What the bridge has still to hear of a device, when a signal is handled and
\* those of the device d are lost.
LEMMA NewsHandled ==
  ASSUME BluetoothInv, q # <<>>, NEW d, Leaves(q', Tail(q), Links(d)), NEW c
  PROVE  /\ LastIn(q, NewsOf(c), Created(c)) =>
              /\ LastIn(q', NewsOf(c), Created(c))
              /\ Head(q) \in NewsOf(c) /\ Head(q) \notin Created(c) => ~NoneIn(q', Created(c))
         /\ Head(q) \notin Created(c) => (NoneIn(q', Created(c)) <=> NoneIn(q, Created(c)))
         /\ c # d /\ Head(q) \notin Links(c) =>
              /\ NoneIn(q', Links(c)) <=> NoneIn(q, Links(c))
              /\ \A Y : LastIn(q, Links(c), Y) => LastIn(q', Links(c), Y)
<1> DEFINE t == Tail(q)
           e == Head(q)
           N == NewsOf(c)
           C == Created(c)
           L == Links(c)
<1>1. q \in Seq(Message) BY DEF BluetoothInv, Types
<1>2. /\ t \in Seq(Message)
      /\ \A X : NoneIn(q, X) <=> NoneIn(t, X) /\ e \notin X
      /\ \A X, Y : LastIn(q, X, Y) => /\ LastIn(t, X, Y)
                                      /\ NoneIn(t, X) /\ e \in X => e \in Y
  BY <1>1, QueueHandled
<1>3. /\ NoneIn(q', C) <=> NoneIn(t, C)
      /\ \A Y : LastIn(t, N, Y) => LastIn(q', N, Y)
      /\ c # d => /\ NoneIn(q', L) <=> NoneIn(t, L)
                  /\ \A Y : LastIn(t, L, Y) => LastIn(q', L, Y)
  BY DeviceLost
<1> HIDE DEF t, e, N, C, L
<1>4. LastIn(q, N, C) /\ e \in N /\ e \notin C => ~NoneIn(t, C) BY <1>2, LastFound
<1>5. /\ LastIn(q, N, C) => /\ LastIn(q', N, C)
                            /\ e \in N /\ e \notin C => ~NoneIn(q', C)
      /\ e \notin C => (NoneIn(q', C) <=> NoneIn(q, C))
      /\ c # d /\ e \notin L => /\ NoneIn(q', L) <=> NoneIn(q, L)
                                /\ \A Y : LastIn(q, L, Y) => LastIn(q', L, Y)
  BY <1>2, <1>3, <1>4
<1> QED BY <1>5 DEF e, N, C, L

\* What a signal of an adapter or a device leaves as it is.
LEMMA HandledStays ==
  ASSUME BluetoothInv, todo = <<>>, q # <<>>,
         Head(q).on \in {"Powered", "DeviceCreated", "DeviceRemoved", "Connected"},
         NEW d, Leaves(q', Tail(q), Links(d)),
         UNCHANGED <<manager_, adapter_, hears, daemon, missed>>, UNCHANGED pub.Address,
         pub'.Enabled = IF Head(q).on = "Powered" THEN Head(q).val ELSE pub.Enabled,
         \A do, a : Waits(todo', do, a) => do = "add"
  PROVE  /\ Lives' /\ Managed' /\ Gone' /\ Deaf' /\ LastDefault' /\ Adapted'
         /\ Follows' <=> Follows
<1> DEFINE t == Tail(q)
           e == Head(q)
<1>0. UNCHANGED <<up, default, powered, paired, linked, missed, manager_, adapter_, hears>>
  BY DEF daemon
<1>1. q \in Seq(Message) /\ up \in BOOLEAN BY DEF BluetoothInv, Types
<1>2. /\ t \in Seq(Message) /\ e \in Message
      /\ \A X : NoneIn(q, X) <=> NoneIn(t, X) /\ e \notin X
      /\ \A X, Y : LastIn(q, X, Y) => /\ LastIn(t, X, Y)
                                      /\ NoneIn(t, X) /\ e \in X => e \in Y
  BY <1>1, QueueHandled
<1>3. \A X, Y : Behind(q, X, Y) => Behind(t, X, Y) /\ (e \in X => ~NoneIn(t, Y))
  BY <1>1, BehindHandled
<1>4. /\ NoneIn(q', Starts(Message)) <=> NoneIn(t, Starts(Message))
      /\ NoneIn(q', Stops(Message)) <=> NoneIn(t, Stops(Message))
      /\ NoneIn(q', NewDefaults) <=> NoneIn(t, NewDefaults)
      /\ NoneIn(q', Powereds) <=> NoneIn(t, Powereds)
      /\ NoneIn(q', News) <=> NoneIn(t, News)
      /\ \A Y : LastIn(t, NewDefaults, Y) => LastIn(q', NewDefaults, Y)
      /\ \A Y : LastIn(t, Powereds, Y) => LastIn(q', Powereds, Y)
      /\ \A X : Behind(t, X, Starts(Message)) => Behind(q', X, Starts(Message))
      /\ \A X : Behind(t, X, Stops(Message)) => Behind(q', X, Stops(Message))
  BY DeviceLost
<1>5. /\ e \notin Starts(Message) /\ e \notin Stops(Message) /\ e \notin NewDefaults
      /\ e \in Powereds <=> e.on = "Powered"
      /\ \A v : e \in PoweredIs(v) <=> e.on = "Powered" /\ e.val = v
  BY <1>2, Kinds
<1> HIDE DEF t
<1>6. /\ NoneIn(q', Starts(Message)) <=> NoneIn(q, Starts(Message))
      /\ NoneIn(q', NewDefaults) <=> NoneIn(q, NewDefaults)
      /\ NoneIn(q, News) => NoneIn(q', News)
  BY <1>2, <1>4, <1>5
<1>7. Lives' BY <1>0, <1>3, <1>4 DEF BluetoothInv, Lives
<1>8. Restarts' <=> Restarts BY <1>6 DEF Restarts
<1>9. Managed' BY <1>0, <1>8 DEF BluetoothInv, Managed
<1>10. Gone'
  <2>1. e \in Message \ Stops(Message) BY <1>2, <1>5
  <2>2. ~up => ~NoneIn(t, Stops(Message)) BY <1>3, <2>1 DEF BluetoothInv, Lives
  <2> QED BY <1>0, <1>4, <2>2 DEF Gone
<1>11. Deaf' BY <1>0, <1>6 DEF BluetoothInv, Deaf
<1>12. LastDefault'
  <2>1. \A a : ~Waits(todo', "adapter", a) OBVIOUS
  <2> QED BY <1>0, <1>2, <1>4, <1>8, <2>1 DEF BluetoothInv, LastDefault
<1>13. \A do, a : ~Waits(todo, do, a) BY StepsNone
<1>14. Turns' <=> Turns
  <2>1. ~Waits(todo', "default", None) /\ ~Waits(todo', "adapter", default) OBVIOUS
  <2> QED BY <1>0, <1>6, <1>8, <1>13, <2>1 DEF Turns
<1>15. Follows' <=> Follows BY <1>0, <1>14 DEF Follows
<1>16. Adapted'
  <2> SUFFICES ASSUME Follows
               PROVE  /\ adapter_ = default /\ pub.Address = default
                      /\ "props" \in hears \/ Waits(todo', "listen", default)
                      /\ "devices" \in hears \/ Waits(todo', "watch", default)
                      /\ LastIn(q', Powereds, PoweredIs(Flag(powered[default])))
                      /\ NoneIn(q', Powereds) => pub'.Enabled = Flag(powered[default])
    BY <1>0, <1>15 DEF Adapted
  <2> DEFINE v == Flag(powered[default])
  <2>1. /\ adapter_ = default /\ pub.Address = default
        /\ "props" \in hears /\ "devices" \in hears
        /\ LastIn(q, Powereds, PoweredIs(v))
        /\ NoneIn(q, Powereds) => pub.Enabled = v
    BY <1>13 DEF BluetoothInv, Adapted
  <2> HIDE DEF v
  <2>2. LastIn(q', Powereds, PoweredIs(v)) BY <1>2, <1>4, <2>1
  <2>3. NoneIn(q', Powereds) => pub'.Enabled = v
    <3>1. CASE e.on = "Powered" BY <1>2, <1>4, <1>5, <2>1, <3>1
    <3>2. CASE e.on # "Powered" BY <1>2, <1>4, <1>5, <2>1, <3>2
    <3> QED BY <3>1, <3>2
  <2> QED BY <2>1, <2>2, <2>3 DEF v
<1> QED BY <1>7, <1>9, <1>10, <1>11, <1>12, <1>15, <1>16

\* What a signal about the daemon or its default adapter leaves in the queue.
LEMMA HeardOfDaemon ==
  ASSUME BluetoothInv, q # <<>>, Leaves(q', Tail(q), NewDefaults), UNCHANGED <<daemon, hears>>
  PROVE  /\ q' \in Seq(Message) /\ Lives' /\ Deaf'
         /\ up /\ Head(q) \in Stops(Message) => Restarts'
         /\ ~up /\ Head(q) \notin Stops(Message) => ~NoneIn(q', Stops(Message))
<1> DEFINE t == Tail(q)
           e == Head(q)
           L == NewDefaults
<1>0. up' = up BY DEF daemon
<1>1. q \in Seq(Message) BY DEF BluetoothInv, Types
<1>2. /\ e \in Message /\ \A X : NoneIn(q, X) <=> NoneIn(t, X) /\ e \notin X
  BY <1>1, QueueHandled
<1>3. \A X, Y : Behind(q, X, Y) => Behind(t, X, Y) /\ (e \in X => ~NoneIn(t, Y))
  BY <1>1, BehindHandled
<1>4. /\ q' \in Seq(Message)
      /\ \A X : NoneIn(t, X) => NoneIn(q', X)
      /\ \A X : (\A z \in X : z \notin L) => (NoneIn(q', X) <=> NoneIn(t, X))
      /\ \A X, Y : (\A z \in Y : z \notin L) /\ Behind(t, X, Y) => Behind(q', X, Y)
  BY DEF Leaves
<1>5. (\A z \in Starts(Message) : z \notin L) /\ (\A z \in Stops(Message) : z \notin L)
  BY NotLost
<1> HIDE DEF t, L
<1>6. /\ NoneIn(q', Starts(Message)) <=> NoneIn(t, Starts(Message))
      /\ NoneIn(q', Stops(Message)) <=> NoneIn(t, Stops(Message))
      /\ \A X : Behind(q, X, Starts(Message)) => Behind(q', X, Starts(Message))
      /\ \A X : Behind(q, X, Stops(Message)) => Behind(q', X, Stops(Message))
  BY <1>3, <1>4, <1>5
<1>7. Lives' BY <1>0, <1>6 DEF BluetoothInv, Lives
<1>8. Deaf' BY <1>2, <1>4 DEF BluetoothInv, Deaf
<1>9. up /\ e \in Stops(Message) => Restarts'
  BY <1>3, <1>6 DEF BluetoothInv, Lives, Restarts
<1>10. ~up /\ e \notin Stops(Message) => ~NoneIn(q', Stops(Message))
  <2>1. e \notin Stops(Message) => e \in Message \ Stops(Message) BY <1>2
  <2> QED BY <1>3, <1>6, <2>1 DEF BluetoothInv, Lives
<1> QED BY <1>4, <1>7, <1>8, <1>9, <1>10

\* The daemon is there: it is asked for its default adapter.
LEMMA OnRegisteredRun == ASSUME BluetoothInv, OnRegistered PROVE BluetoothInv'
<1> DEFINE s == Step("default", None)
<1>1. /\ todo = <<>> /\ q # <<>> /\ Head(q).on = "Registered"
      /\ manager_' = TRUE /\ todo' = <<s>>
      /\ q' = Without(Tail(q), {"DefaultAdapterChanged"})
      /\ UNCHANGED <<adapter_, hears, devices_, connected_, pub, daemon, missed>>
  BY DEF OnRegistered, Handle
<1>2. UNCHANGED <<up, default, powered, paired, linked>> BY <1>1 DEF daemon
<1>3. q \in Seq(Message) /\ up \in BOOLEAN BY DEF BluetoothInv, Types
<1>4. Tail(q) \in Seq(Message) /\ Head(q) \in Message BY <1>1, <1>3, QueueHandled
<1>5. Leaves(q', Tail(q), NewDefaults) /\ NoneIn(q', NewDefaults) BY <1>1, <1>4, ProxyLost
<1>6. Head(q) \notin Stops(Message) BY <1>1, <1>4, Kinds
<1>7. /\ q' \in Seq(Message) /\ Lives' /\ Deaf'
      /\ ~up => ~NoneIn(q', Stops(Message))
  BY <1>1, <1>5, <1>6, HeardOfDaemon
<1>8. s \in Steps /\ \A do, a : s = Step(do, a) <=> do = "default" /\ a = None
  BY StepTypes
<1> HIDE DEF s
<1>9. /\ todo' \in Seq(Steps) /\ Waits(todo', "default", None)
      /\ \A a : ~Waits(todo', "adapter", a)
  BY <1>1, <1>8, StepsOne
<1>10. Types'
  <2>1. /\ manager_' \in BOOLEAN /\ adapter_' \in Adapters \cup {None}
        /\ hears' \in SUBSET {"props", "devices"}
        /\ devices_' \in SUBSET Devices /\ connected_' \in SUBSET Devices
        /\ pub' = [f \in Fields |-> pub'[f]]
    BY <1>1 DEF BluetoothInv, Types
  <2> QED BY <1>1, <1>7, <1>9, <2>1, TypesLoop DEF BluetoothInv
<1>11. Managed' BY <1>1 DEF Managed
<1>12. Gone' BY <1>2, <1>7 DEF Gone
<1>13. Believed' BY <1>1 DEF BluetoothInv, Believed
<1>14. LastDefault'
  <2>1. \A Y : LastIn(q', NewDefaults, Y) BY <1>5, QueueNone
  <2> QED BY <1>9, <2>1 DEF LastDefault
<1>15. ~Follows' BY <1>9 DEF Follows, Turns
<1>16. Adapted' /\ Known' BY <1>15 DEF Adapted, Known
<1> QED BY <1>7, <1>10, <1>11, <1>12, <1>13, <1>14, <1>16 DEF BluetoothInv

\* The daemon is gone: what is shown of it is reset.
LEMMA OnUnregisteredRun == ASSUME BluetoothInv, OnUnregistered PROVE BluetoothInv'
<1> DEFINE r == setProperties(defaults_, pub)
<1>1. /\ todo = <<>> /\ q # <<>> /\ Head(q).on = "Unregistered"
      /\ manager_' = FALSE /\ pub' = r
      /\ q' = Without(Tail(q), {"DefaultAdapterChanged"})
      /\ UNCHANGED <<adapter_, hears, devices_, connected_, todo, daemon, missed>>
  BY DEF OnUnregistered, Handle
<1>2. UNCHANGED <<up, default, powered, paired, linked>> BY <1>1 DEF daemon
<1>3. q \in Seq(Message) /\ up \in BOOLEAN /\ pub = [f \in Fields |-> pub[f]]
  BY DEF BluetoothInv, Types
<1>4. Tail(q) \in Seq(Message) /\ Head(q) \in Message BY <1>1, <1>3, QueueHandled
<1>5. Leaves(q', Tail(q), NewDefaults) /\ NoneIn(q', NewDefaults) BY <1>1, <1>4, ProxyLost
<1>6. Head(q) \in Stops(Message) BY <1>1, <1>4, Kinds
<1>7. q' \in Seq(Message) /\ Lives' /\ Deaf' /\ (up => Restarts')
  BY <1>1, <1>5, <1>6, HeardOfDaemon
<1>8. r = [f \in Fields |-> r[f]] /\ r.Connected = "0" /\ r.Address = defaults_.Address
  BY <1>3, DefaultsSet
<1> HIDE DEF r
<1>9. /\ pub' = [f \in Fields |-> pub'[f]]
      /\ pub'.Connected = "0" /\ pub'.Address = defaults_.Address
  BY <1>1, <1>8
<1>10. Types'
  <2>1. /\ manager_' \in BOOLEAN /\ adapter_' \in Adapters \cup {None}
        /\ hears' \in SUBSET {"props", "devices"} /\ todo' \in Seq(Steps)
        /\ devices_' \in SUBSET Devices /\ connected_' \in SUBSET Devices
    BY <1>1 DEF BluetoothInv, Types
  <2> QED BY <1>1, <1>7, <1>9, <2>1, TypesLoop DEF BluetoothInv
<1>11. Managed' BY <1>2, <1>7 DEF Managed
<1>12. Gone' BY <1>1, <1>9 DEF Gone, Idle
<1>13. Believed' BY <1>9 DEF Believed
<1>14. LastDefault' BY <1>2, <1>7 DEF LastDefault
<1>15. ~Follows' BY <1>2, <1>7 DEF Follows, Turns
<1>16. Adapted' /\ Known' BY <1>15 DEF Adapted, Known
<1> QED BY <1>7, <1>10, <1>11, <1>12, <1>13, <1>14, <1>16 DEF BluetoothInv

\* The default adapter has changed: the bridge turns to it.
LEMMA OnDefaultAdapterChangedRun ==
  ASSUME BluetoothInv, OnDefaultAdapterChanged PROVE BluetoothInv'
<1> DEFINE t == Tail(q)
           e == Head(q)
           s == Step("adapter", e.path)
<1>1. /\ todo = <<>> /\ q # <<>> /\ e.on = "DefaultAdapterChanged"
      /\ todo' = <<s>> /\ q' = t
      /\ UNCHANGED <<manager_, adapter_, hears, devices_, connected_, pub, daemon, missed>>
  BY DEF OnDefaultAdapterChanged, Handle, path
<1>2. UNCHANGED <<up, default, powered, paired, linked>> BY <1>1 DEF daemon
<1>3. q \in Seq(Message) /\ up \in BOOLEAN BY DEF BluetoothInv, Types
<1>4. /\ t \in Seq(Message) /\ e \in Message
      /\ \A X : NoneIn(q, X) <=> NoneIn(t, X) /\ e \notin X
      /\ \A X, Y : LastIn(q, X, Y) => /\ LastIn(t, X, Y)
                                      /\ NoneIn(t, X) /\ e \in X => e \in Y
  BY <1>1, <1>3, QueueHandled
<1>5. Leaves(q', Tail(q), NewDefaults) BY <1>1, <1>4, ProxyLost
<1>6. /\ e \notin Stops(Message) /\ e \notin Starts(Message) /\ e \in NewDefaults
      /\ \A a : e \in Defaults(a) <=> e.path = a
      /\ e.path \in Adapters
  BY <1>1, <1>4, Kinds, Contents
<1>7. /\ q' \in Seq(Message) /\ Lives' /\ Deaf'
      /\ ~up => ~NoneIn(q', Stops(Message))
  BY <1>1, <1>5, <1>6, HeardOfDaemon
<1>8. s \in Steps /\ \A do, a : s = Step(do, a) <=> do = "adapter" /\ a = e.path
  BY <1>6, StepTypes
<1> HIDE DEF s, t
<1>9. /\ todo' \in Seq(Steps)
      /\ \A do, a : Waits(todo', do, a) <=> do = "adapter" /\ a = e.path
  BY <1>1, <1>8, StepsOne
<1>10. Types'
  <2>1. /\ manager_' \in BOOLEAN /\ adapter_' \in Adapters \cup {None}
        /\ hears' \in SUBSET {"props", "devices"}
        /\ devices_' \in SUBSET Devices /\ connected_' \in SUBSET Devices
        /\ pub' = [f \in Fields |-> pub'[f]]
    BY <1>1 DEF BluetoothInv, Types
  <2> QED BY <1>1, <1>7, <1>9, <2>1, TypesLoop DEF BluetoothInv
<1>11. Restarts' <=> Restarts BY <1>1, <1>4, <1>6 DEF Restarts
<1>12. Managed' BY <1>1, <1>2, <1>11 DEF BluetoothInv, Managed
<1>13. Gone' BY <1>2, <1>7 DEF Gone
<1>14. Believed' BY <1>1 DEF BluetoothInv, Believed
<1>15. up /\ ~Restarts => /\ LastIn(q', NewDefaults, Defaults(default))
                          /\ e.path = default \/ ~NoneIn(q', NewDefaults)
  BY <1>1, <1>4, <1>6 DEF BluetoothInv, LastDefault
<1>16. LastDefault' BY <1>2, <1>9, <1>11, <1>15 DEF LastDefault
<1>17. ~Follows'
  <2>1. up /\ ~Restarts => ~NoneIn(q', NewDefaults) \/ Waits(todo', "adapter", default)
    BY <1>9, <1>15
  <2> QED BY <1>2, <1>11, <2>1 DEF Follows, Turns
<1>18. Adapted' /\ Known' BY <1>17 DEF Adapted, Known
<1> QED BY <1>7, <1>10, <1>12, <1>13, <1>14, <1>16, <1>18 DEF BluetoothInv

\* The adapter was powered or is not any more.
LEMMA OnPoweredRun == ASSUME BluetoothInv, OnPowered PROVE BluetoothInv'
<1> DEFINE e == Head(q)
           r == updateProperty("Powered", e.val, pub)
<1>1. /\ todo = <<>> /\ q # <<>> /\ e.on = "Powered" /\ pub' = r /\ q' = Tail(q)
      /\ UNCHANGED <<manager_, adapter_, hears, devices_, connected_, todo, daemon, missed>>
  BY DEF OnPowered, Handle, val
<1>2. UNCHANGED <<up, default, powered, paired, linked>> BY <1>1 DEF daemon
<1>3. q \in Seq(Message) /\ pub = [f \in Fields |-> pub[f]] BY DEF BluetoothInv, Types
<1>4. Tail(q) \in Seq(Message) /\ e \in Message BY <1>1, <1>3, QueueHandled
<1>5. Leaves(q', Tail(q), Links(None)) BY <1>1, <1>4, ProxyLost
<1>6. \A c : e \notin Created(c) /\ e \notin Links(c) BY <1>1, <1>4, Kinds
<1>7. /\ r = [f \in Fields |-> r[f]] /\ r.Enabled = e.val
      /\ r.Connected = pub.Connected /\ r.Address = pub.Address
  BY <1>3, PoweredUpdated
<1> HIDE DEF r
<1>8. /\ pub' = [f \in Fields |-> pub'[f]] /\ pub'.Enabled = e.val
      /\ pub'.Connected = pub.Connected /\ pub'.Address = pub.Address
  BY <1>1, <1>7
<1>9. \A do, a : ~Waits(todo, do, a) BY <1>1, StepsNone
<1>10. /\ Lives' /\ Managed' /\ Gone' /\ Deaf' /\ LastDefault' /\ Adapted'
       /\ Follows' <=> Follows
  BY <1>1, <1>5, <1>8, <1>9, HandledStays
<1>11. Types'
  <2>1. /\ manager_' \in BOOLEAN /\ adapter_' \in Adapters \cup {None}
        /\ hears' \in SUBSET {"props", "devices"} /\ todo' \in Seq(Steps)
        /\ devices_' \in SUBSET Devices /\ connected_' \in SUBSET Devices
    BY <1>1 DEF BluetoothInv, Types
  <2> QED BY <1>1, <1>4, <1>8, <2>1, TypesLoop DEF BluetoothInv
<1>12. Believed' BY <1>1, <1>8 DEF BluetoothInv, Believed
<1>13. Known'
  <2>1. Here' = Here BY <1>2 DEF Here
  <2> SUFFICES ASSUME Follows, NEW c \in Here
               PROVE  /\ LastIn(q', NewsOf(c), Created(c))
                      /\ ~NoneIn(q', Created(c)) \/ Linked(c)'
    BY <1>2, <1>10, <2>1 DEF Known
  <2>2. LastIn(q, NewsOf(c), Created(c)) /\ (~NoneIn(q, Created(c)) \/ Linked(c))
    BY <1>9 DEF BluetoothInv, Known
  <2>3. c # None BY BluezAssumption DEF BluetoothInv, Types, Here
  <2>4. /\ LastIn(q', NewsOf(c), Created(c))
        /\ NoneIn(q', Created(c)) <=> NoneIn(q, Created(c))
        /\ NoneIn(q', Links(c)) <=> NoneIn(q, Links(c))
        /\ \A Y : LastIn(q, Links(c), Y) => LastIn(q', Links(c), Y)
    BY <1>1, <1>5, <1>6, <2>2, <2>3, NewsHandled
  <2>5. Linked(c) => Linked(c)' BY <1>1, <1>8, <2>4, LinkedStays
  <2> QED BY <2>2, <2>4, <2>5
<1> QED BY <1>10, <1>11, <1>12, <1>13 DEF BluetoothInv

\* There is a new device, which is to be added.
LEMMA OnDeviceCreatedRun == ASSUME BluetoothInv, OnDeviceCreated PROVE BluetoothInv'
<1> DEFINE e == Head(q)
           s == Step("add", e.path)
<1>1. /\ todo = <<>> /\ q # <<>> /\ e.on = "DeviceCreated" /\ todo' = <<s>> /\ q' = Tail(q)
      /\ UNCHANGED <<manager_, adapter_, hears, devices_, connected_, pub, daemon, missed>>
  BY DEF OnDeviceCreated, Handle, path
<1>2. UNCHANGED <<up, default, powered, paired, linked>> BY <1>1 DEF daemon
<1>3. q \in Seq(Message) BY DEF BluetoothInv, Types
<1>4. Tail(q) \in Seq(Message) /\ e \in Message BY <1>1, <1>3, QueueHandled
<1>5. Leaves(q', Tail(q), Links(None)) BY <1>1, <1>4, ProxyLost
<1>6. /\ \A c : e \in Created(c) <=> e.path = c
      /\ \A c : e \notin Links(c)
      /\ e.path \in Devices
  BY <1>1, <1>4, Kinds, Contents
<1>7. s \in Steps /\ \A do, a : s = Step(do, a) <=> do = "add" /\ a = e.path
  BY <1>6, StepTypes
<1> HIDE DEF s
<1>8. /\ todo' \in Seq(Steps)
      /\ \A do, a : Waits(todo', do, a) <=> do = "add" /\ a = e.path
  BY <1>1, <1>7, StepsOne
<1>9. \A do, a : ~Waits(todo, do, a) BY <1>1, StepsNone
<1>10. /\ Lives' /\ Managed' /\ Gone' /\ Deaf' /\ LastDefault' /\ Adapted'
       /\ Follows' <=> Follows
  <2>1. \A do, a : Waits(todo', do, a) => do = "add" BY <1>8
  <2> QED BY <1>1, <1>5, <2>1, HandledStays
<1>11. Types'
  <2>1. /\ manager_' \in BOOLEAN /\ adapter_' \in Adapters \cup {None}
        /\ hears' \in SUBSET {"props", "devices"}
        /\ devices_' \in SUBSET Devices /\ connected_' \in SUBSET Devices
        /\ pub' = [f \in Fields |-> pub'[f]]
    BY <1>1 DEF BluetoothInv, Types
  <2> QED BY <1>1, <1>4, <1>8, <2>1, TypesLoop DEF BluetoothInv
<1>12. Believed' BY <1>1 DEF BluetoothInv, Believed
<1>13. Known'
  <2>1. Here' = Here BY <1>2 DEF Here
  <2> SUFFICES ASSUME Follows, NEW c \in Here
               PROVE  /\ LastIn(q', NewsOf(c), Created(c))
                      /\ Waits(todo', "add", c) \/ ~NoneIn(q', Created(c)) \/ Linked(c)'
    BY <1>2, <1>10, <2>1 DEF Known
  <2>2. LastIn(q, NewsOf(c), Created(c)) /\ (~NoneIn(q, Created(c)) \/ Linked(c))
    BY <1>9 DEF BluetoothInv, Known
  <2>3. c # None BY BluezAssumption DEF BluetoothInv, Types, Here
  <2>4. /\ LastIn(q', NewsOf(c), Created(c))
        /\ e.path # c => (NoneIn(q', Created(c)) <=> NoneIn(q, Created(c)))
        /\ NoneIn(q', Links(c)) <=> NoneIn(q, Links(c))
        /\ \A Y : LastIn(q, Links(c), Y) => LastIn(q', Links(c), Y)
    BY <1>1, <1>5, <1>6, <2>2, <2>3, NewsHandled
  <2>5. Linked(c) => Linked(c)' BY <1>1, <1>9, <2>4, LinkedStays
  <2> QED BY <1>8, <2>2, <2>4, <2>5
<1> QED BY <1>10, <1>11, <1>12, <1>13 DEF BluetoothInv

\* A device is gone, and everything that was known of it.
LEMMA OnDeviceRemovedRun == ASSUME BluetoothInv, OnDeviceRemoved PROVE BluetoothInv'
<1> DEFINE e == Head(q)
           d0 == e.path
           now == connected_ \ {d0}
<1>1. /\ todo = <<>> /\ q # <<>> /\ e.on = "DeviceRemoved"
      /\ devices_' = devices_ \ {d0} /\ connected_' = now
      /\ pub' = IF d0 \in connected_ THEN updateProperty("Connected", Flag(now # {}), pub)
                ELSE pub
      /\ q' = Unheard(Tail(q), d0)
      /\ UNCHANGED <<manager_, adapter_, hears, todo, daemon, missed>>
  BY DEF OnDeviceRemoved, Handle, path
<1>2. UNCHANGED <<up, default, powered, paired, linked>> BY <1>1 DEF daemon
<1>3. /\ q \in Seq(Message) /\ pub = [f \in Fields |-> pub[f]]
      /\ connected_ \in SUBSET Devices /\ devices_ \in SUBSET Devices
  BY DEF BluetoothInv, Types
<1>4. Tail(q) \in Seq(Message) /\ e \in Message BY <1>1, <1>3, QueueHandled
<1>5. Leaves(q', Tail(q), Links(d0)) BY <1>1, <1>4, ProxyLost
<1>6. /\ \A c : e \notin Created(c) /\ e \notin Links(c)
      /\ \A c : e \in NewsOf(c) <=> d0 = c
  BY <1>1, <1>4, Kinds
<1> HIDE DEF now
<1>7. /\ pub' = [f \in Fields |-> pub'[f]]
      /\ UNCHANGED <<pub.Enabled, pub.Address>>
      /\ pub'.Connected = "1" => now # {}
      /\ pub'.Connected = pub.Connected \/ (now # {} => pub'.Connected = "1")
  <2>1. CASE d0 \in connected_
    <3> DEFINE yes == now # {}
               v == Flag(yes)
               r == updateProperty("Connected", v, pub)
    <3>1. pub' = r BY <1>1, <2>1
    <3>2. yes \in BOOLEAN OBVIOUS
    <3>3. v = "1" <=> yes BY <3>2, Flags
    <3> HIDE DEF v
    <3>4. /\ r = [f \in Fields |-> r[f]] /\ r.Connected = v
          /\ r.Enabled = pub.Enabled /\ r.Address = pub.Address
      BY <1>3, ConnectedUpdated
    <3> HIDE DEF r
    <3>5. /\ pub' = [f \in Fields |-> pub'[f]]
          /\ pub'.Enabled = pub.Enabled /\ pub'.Address = pub.Address
          /\ pub'.Connected = "1" <=> yes
      BY <3>1, <3>3, <3>4
    <3> QED BY <3>5
  <2>2. CASE d0 \notin connected_
    <3>1. pub' = pub /\ now = connected_ BY <1>1, <2>2 DEF now
    <3> QED BY <1>3, <3>1 DEF BluetoothInv, Believed
  <2> QED BY <2>1, <2>2
<1>8. \A do, a : ~Waits(todo, do, a) BY <1>1, StepsNone
<1>9. /\ Lives' /\ Managed' /\ Gone' /\ Deaf' /\ LastDefault' /\ Adapted'
      /\ Follows' <=> Follows
  <2>1. e.on # "Powered" BY <1>1
  <2> QED BY <1>1, <1>5, <1>7, <1>8, <2>1, HandledStays
<1>10. Types'
  <2>1. /\ manager_' \in BOOLEAN /\ adapter_' \in Adapters \cup {None}
        /\ hears' \in SUBSET {"props", "devices"} /\ todo' \in Seq(Steps)
    BY <1>1 DEF BluetoothInv, Types
  <2>2. connected_' \in SUBSET Devices /\ devices_' \in SUBSET Devices BY <1>1, <1>3 DEF now
  <2>3. q' \in Seq(Message) BY <1>5, DeviceLost
  <2> QED BY <1>1, <1>7, <2>1, <2>2, <2>3, TypesLoop DEF BluetoothInv
<1>11. Believed' BY <1>1, <1>7 DEF Believed
<1>12. Known'
  <2>1. Here' = Here BY <1>2 DEF Here
  <2> SUFFICES ASSUME Follows, NEW c \in Here
               PROVE  /\ LastIn(q', NewsOf(c), Created(c))
                      /\ ~NoneIn(q', Created(c)) \/ Linked(c)'
    BY <1>2, <1>9, <2>1 DEF Known
  <2>2. LastIn(q, NewsOf(c), Created(c)) /\ (~NoneIn(q, Created(c)) \/ Linked(c))
    BY <1>8 DEF BluetoothInv, Known
  <2>3. /\ LastIn(q', NewsOf(c), Created(c))
        /\ d0 = c => ~NoneIn(q', Created(c))
        /\ NoneIn(q', Created(c)) <=> NoneIn(q, Created(c))
        /\ d0 # c => /\ NoneIn(q', Links(c)) <=> NoneIn(q, Links(c))
                     /\ \A Y : LastIn(q, Links(c), Y) => LastIn(q', Links(c), Y)
    BY <1>1, <1>5, <1>6, <2>2, NewsHandled
  <2>4. CASE d0 # c
    <3>1. /\ c \in devices_ => c \in devices_'
          /\ c \in connected_' <=> c \in connected_
      BY <1>1, <2>4 DEF now
    <3>2. Linked(c) => Linked(c)' BY <1>1, <1>7, <2>3, <2>4, <3>1, LinkedStays
    <3> QED BY <2>2, <2>3, <3>2
  <2> QED BY <2>3, <2>4
<1> QED BY <1>9, <1>10, <1>11, <1>12 DEF BluetoothInv

\* A device was connected or disconnected.
LEMMA OnConnectedRun == ASSUME BluetoothInv, OnConnected PROVE BluetoothInv'
<1> DEFINE e == Head(q)
           d0 == e.path
           now == IF e.val = "1" THEN connected_ \cup {d0} ELSE connected_ \ {d0}
<1>1. /\ todo = <<>> /\ q # <<>> /\ e.on = "Connected"
      /\ connected_' = now /\ q' = Tail(q)
      /\ pub' = updateProperty("Connected", Flag(now # {}), pub)
      /\ UNCHANGED <<manager_, adapter_, hears, devices_, todo, daemon, missed>>
  BY DEF OnConnected, Handle, path, val
<1>2. UNCHANGED <<up, default, powered, paired, linked>> BY <1>1 DEF daemon
<1>3. /\ q \in Seq(Message) /\ pub = [f \in Fields |-> pub[f]] /\ connected_ \in SUBSET Devices
  BY DEF BluetoothInv, Types
<1>4. /\ Tail(q) \in Seq(Message) /\ e \in Message
      /\ \A X, Y : LastIn(q, X, Y) => /\ LastIn(Tail(q), X, Y)
                                      /\ NoneIn(Tail(q), X) /\ e \in X => e \in Y
  BY <1>1, <1>3, QueueHandled
<1>5. Leaves(q', Tail(q), Links(None)) BY <1>1, <1>4, ProxyLost
<1>6. /\ \A c : e \notin Created(c)
      /\ \A c : e \in Links(c) <=> d0 = c
      /\ \A c, v : e \in LinkIs(c, v) <=> d0 = c /\ e.val = v
      /\ d0 \in Devices
  BY <1>1, <1>4, Kinds, Contents
<1> HIDE DEF now
<1>7. /\ pub' = [f \in Fields |-> pub'[f]]
      /\ UNCHANGED <<pub.Enabled, pub.Address>>
      /\ pub'.Connected = "1" <=> now # {}
  <2> DEFINE yes == now # {}
             v == Flag(yes)
             r == updateProperty("Connected", v, pub)
  <2>1. pub' = r BY <1>1
  <2>2. yes \in BOOLEAN OBVIOUS
  <2>3. v = "1" <=> yes BY <2>2, Flags
  <2> HIDE DEF v
  <2>4. /\ r = [f \in Fields |-> r[f]] /\ r.Connected = v
        /\ r.Enabled = pub.Enabled /\ r.Address = pub.Address
    BY <1>3, ConnectedUpdated
  <2> HIDE DEF r
  <2>5. /\ pub' = [f \in Fields |-> pub'[f]]
        /\ pub'.Enabled = pub.Enabled /\ pub'.Address = pub.Address
        /\ pub'.Connected = "1" <=> yes
    BY <2>1, <2>3, <2>4
  <2> QED BY <2>5
<1>8. \A do, a : ~Waits(todo, do, a) BY <1>1, StepsNone
<1>9. /\ Lives' /\ Managed' /\ Gone' /\ Deaf' /\ LastDefault' /\ Adapted'
      /\ Follows' <=> Follows
  <2>1. e.on # "Powered" BY <1>1
  <2> QED BY <1>1, <1>5, <1>7, <1>8, <2>1, HandledStays
<1>10. Types'
  <2>1. /\ manager_' \in BOOLEAN /\ adapter_' \in Adapters \cup {None}
        /\ hears' \in SUBSET {"props", "devices"} /\ todo' \in Seq(Steps)
        /\ devices_' \in SUBSET Devices
    BY <1>1 DEF BluetoothInv, Types
  <2>2. connected_' \in SUBSET Devices BY <1>1, <1>3, <1>6 DEF now
  <2> QED BY <1>1, <1>4, <1>7, <2>1, <2>2, TypesLoop DEF BluetoothInv
<1>11. Believed' BY <1>1, <1>7 DEF Believed
<1>12. Known'
  <2>1. Here' = Here BY <1>2 DEF Here
  <2> SUFFICES ASSUME Follows, NEW c \in Here
               PROVE  /\ LastIn(q', NewsOf(c), Created(c))
                      /\ ~NoneIn(q', Created(c)) \/ Linked(c)'
    BY <1>2, <1>9, <2>1 DEF Known
  <2>2. LastIn(q, NewsOf(c), Created(c)) /\ (~NoneIn(q, Created(c)) \/ Linked(c))
    BY <1>8 DEF BluetoothInv, Known
  <2>3. c # None BY BluezAssumption DEF BluetoothInv, Types, Here
  <2>4. /\ LastIn(q', NewsOf(c), Created(c))
        /\ NoneIn(q', Created(c)) <=> NoneIn(q, Created(c))
        /\ d0 # c => /\ NoneIn(q', Links(c)) <=> NoneIn(q, Links(c))
                     /\ \A Y : LastIn(q, Links(c), Y) => LastIn(q', Links(c), Y)
    BY <1>1, <1>5, <1>6, <2>2, <2>3, NewsHandled
  <2>5. CASE d0 # c
    <3>1. c \in connected_' <=> c \in connected_ BY <1>1, <2>5 DEF now
    <3>2. Linked(c) => Linked(c)' BY <1>1, <1>7, <2>4, <2>5, <3>1, LinkedStays
    <3> QED BY <2>2, <2>4, <3>2
  <2>6. CASE d0 = c
    <3> SUFFICES ASSUME Linked(c) PROVE Linked(c)' BY <2>2, <2>4
    <3> DEFINE v == Flag(c \in linked)
    <3>1. (c \in devices_ \/ Waits(todo, "follow", c)) /\ LastIn(q, Links(c), LinkIs(c, v))
      BY DEF Linked
    <3>2. v = "1" <=> c \in linked BY DEF Flag
    <3> HIDE DEF v
    <3>3. /\ LastIn(q', Links(c), LinkIs(c, v))
          /\ NoneIn(q', Links(c)) => e.val = v
      BY <1>1, <1>4, <1>6, <2>6, <3>1
    <3>4. c \in connected_' <=> e.val = "1" BY <1>1, <2>6 DEF now
    <3>5. NoneIn(q', Links(c)) => (c \in connected_' <=> c \in linked) BY <3>2, <3>3, <3>4
    <3>6. c \in connected_' => pub'.Connected = "1" BY <1>1, <1>7
    <3> QED BY <1>1, <1>2, <3>1, <3>3, <3>5, <3>6 DEF Linked, v
  <2> QED BY <2>5, <2>6
<1> QED BY <1>9, <1>10, <1>11, <1>12 DEF BluetoothInv

----------------------------------------------------------------------------
(* The daemon.                                                             *)

\* What a change of the daemon puts on its way.
LEMMA Sent ==
  ASSUME BluetoothInv, NEW x \in Message, Send(x)
  PROVE  /\ q' \in Seq(Message) /\ missed' \in BOOLEAN
         /\ missed \/ Missing(x) => missed'
         /\ \A X : NoneIn(q', X) => NoneIn(q, X)
         /\ \A X : x \notin X => (NoneIn(q', X) <=> NoneIn(q, X))
         /\ \A X, Y : x \notin X /\ LastIn(q, X, Y) => LastIn(q', X, Y)
         /\ \A X, Y : x \notin X /\ Behind(q, X, Y) => Behind(q', X, Y)
         /\ Subscribed(manager_, adapter_, hears, devices_, x) =>
              /\ \A X : x \in X => ~NoneIn(q', X)
              /\ \A X, Y : x \in X /\ x \in Y => LastIn(q', X, Y)
              /\ \A X, Y : x \notin X /\ x \in Y => Behind(q', X, Y)
         /\ ~Subscribed(manager_, adapter_, hears, devices_, x) => q' = q
<1> DEFINE sub == Subscribed(manager_, adapter_, hears, devices_, x)
           t == Append(q, x)
<1>1. q \in Seq(Message) /\ missed \in BOOLEAN BY DEF BluetoothInv, Types
<1>2. q' = (IF sub THEN t ELSE q) /\ missed' = (missed \/ Missing(x)) BY DEF Send
<1>3. /\ t \in Seq(Message)
      /\ \A X : NoneIn(t, X) <=> NoneIn(q, X) /\ x \notin X
      /\ \A X, Y : x \in X /\ x \in Y => LastIn(t, X, Y)
      /\ \A X, Y : x \notin X /\ LastIn(q, X, Y) => LastIn(t, X, Y)
  BY <1>1, QueueAppended
<1>4. /\ \A X, Y : x \notin X /\ x \in Y => Behind(t, X, Y)
      /\ \A X, Y : x \notin X /\ Behind(q, X, Y) => Behind(t, X, Y)
  BY <1>1, BehindAppended
<1> HIDE DEF t, sub
<1>5. /\ missed' \in BOOLEAN /\ (missed \/ Missing(x) => missed') BY <1>2
<1>6. CASE sub
  <2>1. q' = t BY <1>2, <1>6
  <2> QED BY <1>3, <1>4, <1>5, <1>6, <2>1 DEF sub
<1>7. CASE ~sub
  <2>1. q' = q BY <1>2, <1>7
  <2> QED BY <1>1, <1>5, <1>7, <2>1 DEF sub
<1> QED BY <1>6, <1>7

\* The daemon starts.
LEMMA StartStep == ASSUME BluetoothInv, Start PROVE BluetoothInv'
<1> DEFINE x == Signal("Registered", None, None)
<1>1. /\ UNCHANGED bridge /\ up' = TRUE /\ default' \in Adapters \cup {None}
      /\ Send(x) /\ UNCHANGED <<powered, paired, linked>>
  BY DEF Start, Move
<1>2. UNCHANGED <<manager_, adapter_, hears, devices_, connected_, pub, todo>>
  BY <1>1 DEF bridge
<1>3. x \in Message /\ x.on = "Registered" BY Sendings
<1> HIDE DEF x
<1>4. x \in Starts(Message) /\ x \notin Stops(Message) /\ x \notin News BY <1>3, Kinds
<1>5. Subscribed(manager_, adapter_, hears, devices_, x) BY <1>3 DEF Subscribed
<1>6. /\ q' \in Seq(Message) /\ missed' \in BOOLEAN
      /\ \A X : x \notin X => (NoneIn(q', X) <=> NoneIn(q, X))
      /\ \A X : x \in X => ~NoneIn(q', X)
      /\ \A X, Y : x \notin X /\ x \in Y => Behind(q', X, Y)
  BY <1>1, <1>3, <1>5, Sent
<1>7. Restarts' BY <1>4, <1>6 DEF Restarts
<1>8. Types'
  <2>1. /\ up' \in BOOLEAN /\ powered' \in [Adapters -> BOOLEAN]
        /\ paired' \in SUBSET Devices /\ linked' \in SUBSET Devices
    BY <1>1 DEF BluetoothInv, Types
  <2> QED BY <1>1, <1>6, <2>1, TypesDaemon DEF BluetoothInv
<1>9. Lives' BY <1>1, <1>4, <1>6 DEF Lives
<1>10. Managed' BY <1>7 DEF Managed
<1>11. Gone' BY <1>1 DEF Gone
<1>12. Believed' BY <1>2 DEF BluetoothInv, Believed
<1>13. Deaf' BY <1>2, <1>4, <1>6 DEF BluetoothInv, Deaf
<1>14. LastDefault' BY <1>7 DEF LastDefault
<1>15. ~Follows' BY <1>7 DEF Follows, Turns
<1>16. Adapted' /\ Known' BY <1>15 DEF Adapted, Known
<1> QED BY <1>8, <1>9, <1>10, <1>11, <1>12, <1>13, <1>14, <1>16 DEF BluetoothInv

\* The daemon stops.
LEMMA StopStep == ASSUME BluetoothInv, Stop PROVE BluetoothInv'
<1> DEFINE x == Signal("Unregistered", None, None)
<1>1. /\ UNCHANGED bridge /\ up' = FALSE /\ linked' = {}
      /\ Send(x) /\ UNCHANGED <<default, powered, paired>>
  BY DEF Stop, Move
<1>2. UNCHANGED <<manager_, adapter_, hears, devices_, connected_, pub, todo>>
  BY <1>1 DEF bridge
<1>3. x \in Message /\ x.on = "Unregistered" BY Sendings
<1> HIDE DEF x
<1>4. x \in Stops(Message) /\ x \notin Message \ Stops(Message) /\ x \notin News
  BY <1>3, Kinds
<1>5. Subscribed(manager_, adapter_, hears, devices_, x) BY <1>3 DEF Subscribed
<1>6. /\ q' \in Seq(Message) /\ missed' \in BOOLEAN
      /\ \A X : x \notin X => (NoneIn(q', X) <=> NoneIn(q, X))
      /\ \A X : x \in X => ~NoneIn(q', X)
      /\ \A X, Y : x \notin X /\ x \in Y => Behind(q', X, Y)
  BY <1>1, <1>3, <1>5, Sent
<1>7. Types'
  <2>1. /\ up' \in BOOLEAN /\ powered' \in [Adapters -> BOOLEAN]
        /\ default' \in Adapters \cup {None}
        /\ paired' \in SUBSET Devices /\ linked' \in SUBSET Devices
    BY <1>1 DEF BluetoothInv, Types
  <2> QED BY <1>1, <1>6, <2>1, TypesDaemon DEF BluetoothInv
<1>8. Lives'
  <2>1. Behind(q', Message \ Stops(Message), Stops(Message)) BY <1>4, <1>6
  <2> QED BY <1>1, <2>1 DEF Lives
<1>9. Managed' /\ LastDefault' BY <1>1 DEF Managed, LastDefault
<1>10. Gone' BY <1>4, <1>6 DEF Gone
<1>11. Believed' BY <1>2 DEF BluetoothInv, Believed
<1>12. Deaf' BY <1>2, <1>4, <1>6 DEF BluetoothInv, Deaf
<1>13. ~Follows' BY <1>1 DEF Follows
<1>14. Adapted' /\ Known' BY <1>13 DEF Adapted, Known
<1> QED BY <1>7, <1>8, <1>9, <1>10, <1>11, <1>12, <1>14 DEF BluetoothInv

\* Another adapter is the default one.
LEMMA ChangeDefaultStep == ASSUME BluetoothInv, ChangeDefault PROVE BluetoothInv'
<1> DEFINE x == Signal("DefaultAdapterChanged", default', None)
<1>1. /\ UNCHANGED bridge /\ up /\ default' \in Adapters
      /\ Send(x) /\ UNCHANGED <<up, powered, paired, linked>>
  BY DEF ChangeDefault, Move
<1>2. UNCHANGED <<manager_, adapter_, hears, devices_, connected_, pub, todo>>
  BY <1>1 DEF bridge
<1>3. x \in Message /\ x.on = "DefaultAdapterChanged" /\ x.path = default' BY <1>1, Sendings
<1> HIDE DEF x
<1>4. /\ x \notin Stops(Message) /\ x \notin Starts(Message) /\ x \notin News
      /\ x \in NewDefaults
  BY <1>3, Kinds
<1>5. x \in Defaults(default')
  <2>1. \A a : x \in Defaults(a) <=> x.on = "DefaultAdapterChanged" /\ x.path = a
    BY <1>3, Kinds
  <2> QED BY <1>3, <2>1
<1>6. Subscribed(manager_, adapter_, hears, devices_, x) <=> manager_
  BY <1>3 DEF Subscribed
<1>7. /\ q' \in Seq(Message) /\ missed' \in BOOLEAN
      /\ \A X : x \notin X => (NoneIn(q', X) <=> NoneIn(q, X))
      /\ \A X, Y : x \notin X /\ Behind(q, X, Y) => Behind(q', X, Y)
      /\ manager_ => /\ \A X : x \in X => ~NoneIn(q', X)
                     /\ \A X, Y : x \in X /\ x \in Y => LastIn(q', X, Y)
  BY <1>1, <1>3, <1>6, Sent
<1>8. Restarts' <=> Restarts BY <1>4, <1>7 DEF Restarts
<1>9. Types'
  <2>1. /\ up' \in BOOLEAN /\ powered' \in [Adapters -> BOOLEAN]
        /\ default' \in Adapters \cup {None}
        /\ paired' \in SUBSET Devices /\ linked' \in SUBSET Devices
    BY <1>1 DEF BluetoothInv, Types
  <2> QED BY <1>1, <1>7, <2>1, TypesDaemon DEF BluetoothInv
<1>10. Lives' BY <1>1, <1>4, <1>7 DEF BluetoothInv, Lives
<1>11. Managed' BY <1>1, <1>2, <1>8 DEF BluetoothInv, Managed
<1>12. Gone' BY <1>1 DEF Gone
<1>13. Believed' BY <1>2 DEF BluetoothInv, Believed
<1>14. Deaf' BY <1>2, <1>4, <1>7 DEF BluetoothInv, Deaf
<1>15. ~Restarts => LastIn(q', NewDefaults, Defaults(default')) /\ ~NoneIn(q', NewDefaults)
  <2>1. ~Restarts => manager_ BY <1>1 DEF BluetoothInv, Managed
  <2> QED BY <1>4, <1>5, <1>7, <2>1
<1>16. LastDefault' BY <1>8, <1>15 DEF LastDefault
<1>17. ~Follows' BY <1>8, <1>15 DEF Follows, Turns
<1>18. Adapted' /\ Known' BY <1>17 DEF Adapted, Known
<1> QED BY <1>9, <1>10, <1>11, <1>12, <1>13, <1>14, <1>16, <1>18 DEF BluetoothInv

\* What a change of an adapter or a device leaves as it is.
LEMMA DaemonStays ==
  ASSUME BluetoothInv, UNCHANGED bridge, up, UNCHANGED <<up, default>>,
         NEW x \in Message, Send(x),
         x.on \in {"Powered", "DeviceCreated", "DeviceRemoved", "Connected"},
         powered' \in [Adapters -> BOOLEAN],
         paired' \in SUBSET Devices, linked' \in SUBSET Devices
  PROVE  /\ Types' /\ Lives' /\ Managed' /\ Gone' /\ Believed' /\ Deaf' /\ LastDefault'
         /\ Follows' => Follows /\ ~missed' /\ ~Missing(x)
<1>1. UNCHANGED <<manager_, adapter_, hears, devices_, connected_, pub, todo>>
  BY DEF bridge
<1>2. /\ q' \in Seq(Message) /\ missed' \in BOOLEAN
      /\ missed \/ Missing(x) => missed'
      /\ \A X : x \notin X => (NoneIn(q', X) <=> NoneIn(q, X))
      /\ \A X, Y : x \notin X /\ LastIn(q, X, Y) => LastIn(q', X, Y)
      /\ \A X, Y : x \notin X /\ Behind(q, X, Y) => Behind(q', X, Y)
      /\ ~Subscribed(manager_, adapter_, hears, devices_, x) => q' = q
  BY Sent
<1>3. /\ x \notin Stops(Message) /\ x \notin Starts(Message) /\ x \notin NewDefaults
      /\ x \in News => x.on \in {"DeviceCreated", "DeviceRemoved"}
  BY Kinds
<1>4. Restarts' <=> Restarts BY <1>2, <1>3 DEF Restarts
<1>5. Types'
  <2>1. up' \in BOOLEAN /\ default' \in Adapters \cup {None} BY DEF BluetoothInv, Types
  <2> QED BY <1>2, <2>1, TypesDaemon DEF BluetoothInv
<1>6. Lives' BY <1>2, <1>3 DEF BluetoothInv, Lives
<1>7. Managed' BY <1>1, <1>4 DEF BluetoothInv, Managed
<1>8. Gone' BY DEF Gone
<1>9. Believed' BY <1>1 DEF BluetoothInv, Believed
<1>10. Deaf'
  <2>1. CASE x \in News
    <3>1. "devices" \notin hears => ~Subscribed(manager_, adapter_, hears, devices_, x)
      BY <1>3, <2>1 DEF Subscribed
    <3> QED BY <1>1, <1>2, <3>1 DEF BluetoothInv, Deaf
  <2>2. CASE x \notin News BY <1>1, <1>2, <2>2 DEF BluetoothInv, Deaf
  <2> QED BY <2>1, <2>2
<1>11. LastDefault' BY <1>1, <1>2, <1>3, <1>4 DEF BluetoothInv, LastDefault
<1>12. Turns' <=> Turns BY <1>1, <1>2, <1>3, <1>4 DEF Turns
<1>13. Follows' => Follows /\ ~missed' /\ ~Missing(x) BY <1>2, <1>12 DEF Follows
<1> QED BY <1>5, <1>6, <1>7, <1>8, <1>9, <1>10, <1>11, <1>13

\* What is shown of the adapter stays, when something else changes.
LEMMA AdaptedStays ==
  ASSUME BluetoothInv, UNCHANGED bridge, UNCHANGED <<default, powered>>,
         NEW x \in Message, Send(x), x.on # "Powered", Follows' => Follows
  PROVE  Adapted'
<1>1. UNCHANGED <<manager_, adapter_, hears, devices_, connected_, pub, todo>>
  BY DEF bridge
<1>2. /\ \A X : x \notin X => (NoneIn(q', X) <=> NoneIn(q, X))
      /\ \A X, Y : x \notin X /\ LastIn(q, X, Y) => LastIn(q', X, Y)
  BY Sent
<1>3. x \notin Powereds BY Kinds
<1> QED BY <1>1, <1>2, <1>3 DEF BluetoothInv, Adapted

\* So does what is known of a device.
LEMMA DeviceStays ==
  ASSUME BluetoothInv, UNCHANGED bridge, UNCHANGED default, Follows, NEW c \in Here,
         NEW x \in Message, Send(x), x \notin NewsOf(c), x \notin Links(c),
         c \in linked' <=> c \in linked
  PROVE  /\ LastIn(q', NewsOf(c), Created(c))
         /\ \/ Waits(todo', "list", default)
            \/ Waits(todo', "add", c)
            \/ ~NoneIn(q', Created(c))
            \/ Linked(c)'
<1>1. UNCHANGED <<manager_, adapter_, hears, devices_, connected_, pub, todo>>
  BY DEF bridge
<1>2. /\ \A X : x \notin X => (NoneIn(q', X) <=> NoneIn(q, X))
      /\ \A X, Y : x \notin X /\ LastIn(q, X, Y) => LastIn(q', X, Y)
  BY Sent
<1>3. x \notin Created(c) BY DEF Created
<1>4. /\ LastIn(q, NewsOf(c), Created(c))
      /\ \/ Waits(todo, "list", default)
         \/ Waits(todo, "add", c)
         \/ ~NoneIn(q, Created(c))
         \/ Linked(c)
  BY DEF BluetoothInv, Known
<1>5. Linked(c) => Linked(c)'
  <2> DEFINE v == Flag(c \in linked)
             L == LinkIs(c, v)
  <2>1. v' = v BY DEF Flag
  <2>2. L' = L BY <2>1
  <2> HIDE DEF v, L
  <2>3. Linked(c) <=> /\ c \in devices_ \/ Waits(todo, "follow", c)
                      /\ LastIn(q, Links(c), L)
                      /\ NoneIn(q, Links(c)) => (c \in connected_ <=> c \in linked)
                      /\ c \in connected_ => pub.Connected = "1"
    BY DEF Linked, L, v
  <2>4. Linked(c)' <=> /\ c \in devices_' \/ Waits(todo', "follow", c)
                       /\ LastIn(q', Links(c), L')
                       /\ NoneIn(q', Links(c)) => (c \in connected_' <=> c \in linked')
                       /\ c \in connected_' => pub'.Connected = "1"
    BY DEF Linked, L, v
  <2> QED BY <1>1, <1>2, <2>2, <2>3, <2>4
<1> QED BY <1>1, <1>2, <1>3, <1>4, <1>5

\* The adapter is powered, or is not any more.
LEMMA SetPoweredStep == ASSUME BluetoothInv, SetPowered PROVE BluetoothInv'
<1> DEFINE v == Flag(~powered[default])
           x == Signal("Powered", default, v)
<1>1. /\ UNCHANGED bridge /\ up /\ default # None
      /\ powered' = [powered EXCEPT ![default] = ~@]
      /\ Send(x) /\ UNCHANGED <<up, default, paired, linked>>
  BY DEF SetPowered, Move
<1>2. UNCHANGED <<manager_, adapter_, hears, devices_, connected_, pub, todo>>
  BY <1>1 DEF bridge
<1>3. /\ powered \in [Adapters -> BOOLEAN] /\ default \in Adapters
      /\ paired \in SUBSET Devices /\ linked \in SUBSET Devices
  BY <1>1 DEF BluetoothInv, Types
<1>4. powered' \in [Adapters -> BOOLEAN] /\ powered'[default] = ~powered[default]
  BY <1>1, <1>3
<1>5. x \in Message /\ x.on = "Powered" /\ x.path = default /\ x.val = v BY <1>3, Sendings
<1>6. v = Flag(powered'[default]) BY <1>4
<1> HIDE DEF x, v
<1>7. /\ x \in Powereds /\ x \in PoweredIs(v)
      /\ \A c : x \notin NewsOf(c) /\ x \notin Links(c)
  BY <1>5, Kinds
<1>8. /\ Types' /\ Lives' /\ Managed' /\ Gone' /\ Believed' /\ Deaf' /\ LastDefault'
      /\ Follows' => Follows /\ ~missed' /\ ~Missing(x)
  BY <1>1, <1>3, <1>4, <1>5, DaemonStays
<1>9. Adapted'
  <2> SUFFICES ASSUME Follows, ~Missing(x)
               PROVE  /\ adapter_ = default /\ pub.Address = default
                      /\ "props" \in hears \/ Waits(todo, "listen", default)
                      /\ "devices" \in hears \/ Waits(todo, "watch", default)
                      /\ LastIn(q', Powereds, PoweredIs(v))
                      /\ ~NoneIn(q', Powereds)
    BY <1>1, <1>2, <1>6, <1>8 DEF Adapted
  <2>1. /\ adapter_ = default /\ pub.Address = default
        /\ "props" \in hears \/ Waits(todo, "listen", default)
        /\ "devices" \in hears \/ Waits(todo, "watch", default)
    BY DEF BluetoothInv, Adapted
  <2>2. ~Waits(todo, "listen", default) BY <1>5 DEF Missing, Pending, Waits
  <2>3. Subscribed(manager_, adapter_, hears, devices_, x) BY <1>5, <2>1, <2>2 DEF Subscribed
  <2>4. LastIn(q', Powereds, PoweredIs(v)) /\ ~NoneIn(q', Powereds)
    BY <1>1, <1>5, <1>7, <2>3, Sent
  <2> QED BY <2>1, <2>4
<1>10. Known'
  <2>1. Here' = Here BY <1>1 DEF Here
  <2> SUFFICES ASSUME Follows, NEW c \in Here
               PROVE  /\ LastIn(q', NewsOf(c), Created(c))
                      /\ \/ Waits(todo', "list", default)
                         \/ Waits(todo', "add", c)
                         \/ ~NoneIn(q', Created(c))
                         \/ Linked(c)'
    BY <1>1, <1>8, <2>1 DEF Known
  <2> QED BY <1>1, <1>5, <1>7, DeviceStays
<1> QED BY <1>8, <1>9, <1>10 DEF BluetoothInv

\* A device is paired with the adapter.
LEMMA PairStep == ASSUME BluetoothInv, Pair PROVE BluetoothInv'
<1>1. PICK d \in Devices \ paired :
        /\ AdapterOf[d] = default
        /\ paired' = paired \cup {d}
        /\ Send(Signal("DeviceCreated", d, None))
  BY DEF Pair
<1> DEFINE x == Signal("DeviceCreated", d, None)
<1>2. /\ UNCHANGED bridge /\ up /\ default # None
      /\ Send(x) /\ UNCHANGED <<up, default, powered, linked>>
  BY <1>1 DEF Pair, Move
<1>3. UNCHANGED <<manager_, adapter_, hears, devices_, connected_, pub, todo>>
  BY <1>2 DEF bridge
<1>4. /\ powered' \in [Adapters -> BOOLEAN]
      /\ paired' \in SUBSET Devices /\ linked' \in SUBSET Devices
      /\ q \in Seq(Message)
  BY <1>1, <1>2 DEF BluetoothInv, Types
<1>5. x \in Message /\ x.on = "DeviceCreated" /\ x.path = d BY Sendings
<1> HIDE DEF x
<1>6. /\ x \in News /\ x \in NewsOf(d) /\ x \in Created(d)
      /\ \A c : x \notin Links(c)
      /\ \A c : x \in NewsOf(c) => c = d
  BY <1>5, Kinds
<1>7. /\ Types' /\ Lives' /\ Managed' /\ Gone' /\ Believed' /\ Deaf' /\ LastDefault'
      /\ Follows' => Follows /\ ~missed' /\ ~Missing(x)
  BY <1>2, <1>4, <1>5, DaemonStays
<1>8. Adapted' BY <1>2, <1>5, <1>7, AdaptedStays
<1>9. Known'
  <2> SUFFICES ASSUME Follows, ~Missing(x), NEW c \in Here'
               PROVE  /\ LastIn(q', NewsOf(c), Created(c))
                      /\ \/ Waits(todo', "list", default)
                         \/ Waits(todo', "add", c)
                         \/ ~NoneIn(q', Created(c))
                         \/ Linked(c)'
    BY <1>2, <1>7 DEF Known
  <2>1. CASE c # d
    <3>1. c \in Here BY <1>1, <1>2, <2>1 DEF Here
    <3>2. x \notin NewsOf(c) /\ x \notin Links(c) BY <1>6, <2>1
    <3> QED BY <1>2, <1>5, <3>1, <3>2, DeviceStays
  <2>2. CASE c = d
    <3>1. adapter_ = default /\ ("devices" \in hears \/ Waits(todo, "watch", default))
      BY DEF BluetoothInv, Adapted
    <3>2. Source(x) = default BY <1>1, <1>5 DEF Source
    <3>3. Subscribed(manager_, adapter_, hears, devices_, x) <=> "devices" \in hears
      BY <1>5, <3>1, <3>2 DEF Subscribed
    <3>4. CASE "devices" \in hears
      <4>1. LastIn(q', NewsOf(d), Created(d)) /\ ~NoneIn(q', Created(d))
        BY <1>2, <1>5, <1>6, <3>3, <3>4, Sent
      <4> QED BY <2>2, <4>1
    <3>5. CASE "devices" \notin hears
      <4>1. Waits(todo, "watch", default) BY <3>1, <3>5
      <4>2. Waits(todo, "list", default) BY <1>5, <3>2, <4>1 DEF Missing, Pending, Waits
      <4>3. q' = q /\ NoneIn(q, News) BY <1>2, <1>5, <3>3, <3>5, Sent DEF BluetoothInv, Deaf
      <4>4. NoneIn(q', NewsOf(c)) BY <4>3 DEF NoneIn, NewsOf
      <4>5. LastIn(q', NewsOf(c), Created(c)) BY <4>4, QueueNone
      <4> QED BY <1>3, <4>2, <4>5
    <3> QED BY <3>4, <3>5
  <2> QED BY <2>1, <2>2
<1> QED BY <1>7, <1>8, <1>9 DEF BluetoothInv

\* A device is paired no more.
LEMMA UnpairStep == ASSUME BluetoothInv, Unpair PROVE BluetoothInv'
<1>1. PICK d \in paired : /\ paired' = paired \ {d}
                          /\ linked' = linked \ {d}
                          /\ Send(Signal("DeviceRemoved", d, None))
  BY DEF Unpair
<1> DEFINE x == Signal("DeviceRemoved", d, None)
<1>2. UNCHANGED bridge /\ up /\ Send(x) /\ UNCHANGED <<up, default, powered>>
  BY <1>1 DEF Unpair, Move
<1>3. /\ powered' \in [Adapters -> BOOLEAN]
      /\ paired' \in SUBSET Devices /\ linked' \in SUBSET Devices
      /\ d \in Devices
  BY <1>1, <1>2 DEF BluetoothInv, Types
<1>4. x \in Message /\ x.on = "DeviceRemoved" /\ x.path = d BY <1>3, Sendings
<1> HIDE DEF x
<1>5. /\ \A c : x \notin Links(c)
      /\ \A c : x \in NewsOf(c) => c = d
  BY <1>4, Kinds
<1>6. /\ Types' /\ Lives' /\ Managed' /\ Gone' /\ Believed' /\ Deaf' /\ LastDefault'
      /\ Follows' => Follows /\ ~missed' /\ ~Missing(x)
  BY <1>2, <1>3, <1>4, DaemonStays
<1>7. Adapted' BY <1>2, <1>4, <1>6, AdaptedStays
<1>8. Known'
  <2> SUFFICES ASSUME Follows, NEW c \in Here'
               PROVE  /\ LastIn(q', NewsOf(c), Created(c))
                      /\ \/ Waits(todo', "list", default)
                         \/ Waits(todo', "add", c)
                         \/ ~NoneIn(q', Created(c))
                         \/ Linked(c)'
    BY <1>2, <1>6 DEF Known
  <2>1. c \in Here /\ c # d /\ (c \in linked' <=> c \in linked) BY <1>1, <1>2 DEF Here
  <2>2. x \notin NewsOf(c) /\ x \notin Links(c) BY <1>5, <2>1
  <2> QED BY <1>2, <1>4, <2>1, <2>2, DeviceStays
<1> QED BY <1>6, <1>7, <1>8 DEF BluetoothInv

\* A device is connected, or is not any more.
LEMMA LinkStep == ASSUME BluetoothInv, Link PROVE BluetoothInv'
<1>1. PICK d \in paired :
        /\ linked' = IF d \in linked THEN linked \ {d} ELSE linked \cup {d}
        /\ Send(Signal("Connected", d, Flag(d \notin linked)))
  BY DEF Link
<1> DEFINE v == Flag(d \notin linked)
           x == Signal("Connected", d, v)
<1>2. UNCHANGED bridge /\ up /\ Send(x) /\ UNCHANGED <<up, default, powered, paired>>
  BY <1>1 DEF Link, Move
<1>3. UNCHANGED <<manager_, adapter_, hears, devices_, connected_, pub, todo>>
  BY <1>2 DEF bridge
<1>4. /\ powered' \in [Adapters -> BOOLEAN]
      /\ paired' \in SUBSET Devices /\ linked' \in SUBSET Devices
      /\ d \in Devices
  BY <1>1, <1>2 DEF BluetoothInv, Types
<1>5. x \in Message /\ x.on = "Connected" /\ x.path = d /\ x.val = v BY <1>4, Sendings
<1>6. d \in linked' <=> d \notin linked BY <1>1
<1>7. v = Flag(d \in linked')
  <2>1. CASE d \in linked BY <1>6, <2>1 DEF Flag
  <2>2. CASE d \notin linked BY <1>6, <2>2 DEF Flag
  <2> QED BY <2>1, <2>2
<1> HIDE DEF x, v
<1>8. /\ x \in Links(d) /\ x \in LinkIs(d, v)
      /\ \A c : x \notin NewsOf(c) /\ x \notin Created(c)
      /\ \A c : x \in Links(c) => c = d
  BY <1>5, Kinds
<1>9. /\ Types' /\ Lives' /\ Managed' /\ Gone' /\ Believed' /\ Deaf' /\ LastDefault'
      /\ Follows' => Follows /\ ~missed' /\ ~Missing(x)
  BY <1>2, <1>4, <1>5, DaemonStays
<1>10. Adapted' BY <1>2, <1>5, <1>9, AdaptedStays
<1>11. Known'
  <2>1. Here' = Here BY <1>2 DEF Here
  <2> SUFFICES ASSUME Follows, ~Missing(x), NEW c \in Here
               PROVE  /\ LastIn(q', NewsOf(c), Created(c))
                      /\ \/ Waits(todo', "list", default)
                         \/ Waits(todo', "add", c)
                         \/ ~NoneIn(q', Created(c))
                         \/ Linked(c)'
    BY <1>2, <1>9, <2>1 DEF Known
  <2>2. CASE c # d
    <3>1. x \notin NewsOf(c) /\ x \notin Links(c) BY <1>8, <2>2
    <3>2. c \in linked' <=> c \in linked BY <1>1, <2>2
    <3> QED BY <1>2, <1>5, <3>1, <3>2, DeviceStays
  <2>3. CASE c = d
    <3>1. /\ LastIn(q, NewsOf(d), Created(d))
          /\ \/ Waits(todo, "list", default)
             \/ Waits(todo, "add", d)
             \/ ~NoneIn(q, Created(d))
             \/ Linked(d)
      BY <2>3 DEF BluetoothInv, Known
    <3>2. /\ LastIn(q', NewsOf(d), Created(d))
          /\ NoneIn(q', Created(d)) <=> NoneIn(q, Created(d))
      BY <1>2, <1>5, <1>8, <3>1, Sent
    <3>3. Linked(d) => Linked(d)'
      <4> SUFFICES ASSUME Linked(d) PROVE Linked(d)' OBVIOUS
      <4>1. ~Waits(todo, "follow", d) BY <1>5 DEF Missing, Pending, Waits
      <4>2. d \in devices_ /\ (d \in connected_ => pub.Connected = "1") BY <4>1 DEF Linked
      <4>3. Subscribed(manager_, adapter_, hears, devices_, x) BY <1>5, <4>2 DEF Subscribed
      <4>4. LastIn(q', Links(d), LinkIs(d, v)) /\ ~NoneIn(q', Links(d))
        BY <1>2, <1>5, <1>8, <4>3, Sent
      <4> QED BY <1>3, <1>7, <4>2, <4>4 DEF Linked
    <3> QED BY <1>3, <2>3, <3>1, <3>2, <3>3
  <2> QED BY <2>2, <2>3
<1> QED BY <1>9, <1>10, <1>11 DEF BluetoothInv

----------------------------------------------------------------------------
(* The theorems.                                                           *)

\* A bridge that starts asks for the default adapter, and nothing is on its way.
LEMMA BluetoothInit == Init => BluetoothInv
<1> SUFFICES ASSUME Init PROVE BluetoothInv OBVIOUS
<1> DEFINE s == Step("default", None)
<1>1. /\ manager_ = TRUE /\ adapter_ = None /\ hears = {} /\ devices_ = {} /\ connected_ = {}
      /\ pub = defaults_ /\ todo = <<s>> /\ missed = FALSE /\ q = <<>>
      /\ up \in BOOLEAN /\ default \in Adapters \cup {None}
      /\ powered = [a \in Adapters |-> TRUE] /\ paired \in SUBSET Devices
      /\ linked \in {{}, paired}
  BY DEF Init
<1>2. s \in Steps /\ \A do, a : s = Step(do, a) <=> do = "default" /\ a = None
  BY StepTypes
<1>3. Idle BY <1>1 DEF Idle
<1> HIDE DEF s
<1>4. /\ todo \in Seq(Steps) /\ Waits(todo, "default", None)
      /\ \A a : ~Waits(todo, "adapter", a)
  BY <1>1, <1>2, StepsOne
<1>5. /\ q \in Seq(Message) /\ Len(q) = 0
      /\ \A X, Y : NoneIn(q, X) /\ LastIn(q, X, Y)
  <2>1. q \in Seq(Message) /\ Len(q) = 0 BY <1>1
  <2> QED BY <1>1, <2>1, QueueEmpty
<1>6. \A X, Y : Behind(q, X, Y) BY <1>5 DEF Behind
<1>7. /\ pub = [f \in Fields |-> pub[f]]
      /\ pub.Connected = "0" /\ pub.Address = defaults_.Address
  BY <1>1 DEF defaults_, Fields
<1>8. Types
  <2>1. powered \in [Adapters -> BOOLEAN] BY <1>1
  <2>2. linked \in SUBSET Devices BY <1>1
  <2> QED BY <1>1, <1>4, <1>5, <1>7, <2>1, <2>2 DEF Types
<1>9. Lives BY <1>6 DEF Lives
<1>10. Managed BY <1>1 DEF Managed
<1>11. Gone BY <1>3, <1>7 DEF Gone
<1>12. Believed BY <1>7 DEF Believed
<1>13. Deaf BY <1>5 DEF Deaf
<1>14. LastDefault BY <1>4, <1>5 DEF LastDefault
<1>15. ~Follows BY <1>4 DEF Follows, Turns
<1>16. Adapted /\ Known BY <1>15 DEF Adapted, Known
<1> QED BY <1>8, <1>9, <1>10, <1>11, <1>12, <1>13, <1>14, <1>16 DEF BluetoothInv

\* Nothing changes, in a step that leaves the variables alone.
LEMMA BluetoothStill == ASSUME BluetoothInv, UNCHANGED vars PROVE BluetoothInv'
<1>1. UNCHANGED <<manager_, adapter_, hears, devices_, connected_, pub, todo, up, default,
                  powered, paired, linked, missed, q>>
  BY DEF vars, bridge, daemon
<1>2. Types' /\ Lives' /\ Managed' /\ Gone' /\ Believed' /\ Deaf' /\ LastDefault'
  BY <1>1 DEF BluetoothInv, Types, Lives, Managed, Restarts, Gone, Idle, Believed, Deaf,
              LastDefault
<1>3. /\ Follows' <=> Follows
      /\ Here' = Here /\ \A d : Linked(d)' <=> Linked(d)
  BY <1>1 DEF Follows, Turns, Restarts, Here, Linked
<1>4. Adapted' BY <1>1, <1>3 DEF BluetoothInv, Adapted
<1>5. Known' BY <1>1, <1>3 DEF BluetoothInv, Known
<1> QED BY <1>2, <1>4, <1>5 DEF BluetoothInv

\* Every step keeps the invariant.
LEMMA BluetoothNext == BluetoothInv /\ [Next]_vars => BluetoothInv'
<1> SUFFICES ASSUME BluetoothInv, [Next]_vars PROVE BluetoothInv' OBVIOUS
<1>1. CASE UNCHANGED vars BY <1>1, BluetoothStill
<1>2. CASE Handler
  BY <1>2, OnRegisteredRun, OnUnregisteredRun, OnDefaultAdapterChangedRun, OnPoweredRun,
     OnDeviceCreatedRun, OnDeviceRemovedRun, OnConnectedRun DEF Handler
<1>3. CASE Running
  BY <1>3, GetDefaultRun, NewAdapterRun, ListenRun, ListDevicesRun, WatchRun, AddDeviceRun,
     FollowRun DEF Running
<1>4. CASE Daemon
  BY <1>4, StartStep, StopStep, ChangeDefaultStep, SetPoweredStep, PairStep, UnpairStep,
     LinkStep DEF Daemon
<1> QED BY <1>1, <1>2, <1>3, <1>4 DEF Next, Loop

\* The inductive invariant: what is shown, believed and left to do, and what is
\* on its way, always lead to the default adapter and its connections
\* (provider_bluez.cpp 46-141).
THEOREM BluetoothInvHolds == Spec => []BluetoothInv
<1>1. Init => BluetoothInv BY BluetoothInit
<1>2. BluetoothInv /\ [Next]_vars => BluetoothInv' BY BluetoothNext
<1> QED BY <1>1, <1>2, PTL DEF Spec

\* A bridge with nothing left to do follows the default adapter.
LEMMA SettledFollows ==
  ASSUME BluetoothInv, Settled, up, default # None
  PROVE  /\ Follows
         /\ \A do, a : ~Waits(todo, do, a)
         /\ \A X : NoneIn(q, X)
<1>1. todo = <<>> /\ q = <<>> /\ ~missed BY DEF Settled
<1>2. \A do, a : ~Waits(todo, do, a) BY <1>1, StepsNone
<1>3. \A X : NoneIn(q, X) BY <1>1, QueueEmpty
<1> QED BY <1>1, <1>2, <1>3 DEF Follows, Turns, Restarts

\* When everything is handled, the default adapter is shown as it is, the bridge
\* knows which of its devices are connected, and "Connected" is shown if one is
\* (provider_bluez.cpp 46-141).  It is shown only while some device is believed
\* connected, which may be one of an adapter that was the default before (73):
\* with no device of the default adapter connected it may stay.
THEOREM BluetoothShownHolds == Spec => []BluetoothShown
<1>1. BluetoothInv => BluetoothShown
  <2> SUFFICES ASSUME BluetoothInv PROVE BluetoothShown OBVIOUS
  <2>1. ASSUME Settled, up, default # None
        PROVE  /\ adapter_ = default /\ pub.Address = default
               /\ pub.Enabled = Flag(powered[default])
               /\ \A d \in Here : /\ d \in connected_ <=> d \in linked
                                  /\ d \in connected_ => pub.Connected = "1"
    <3>1. Follows /\ (\A do, a : ~Waits(todo, do, a)) /\ \A X : NoneIn(q, X)
      BY <2>1, SettledFollows
    <3>2. \A d \in Here : Linked(d) BY <3>1 DEF BluetoothInv, Known
    <3>3. ASSUME NEW d \in Here
          PROVE  /\ d \in connected_ <=> d \in linked
                 /\ d \in connected_ => pub.Connected = "1"
      BY <3>1, <3>2 DEF Linked
    <3> QED BY <3>1, <3>3 DEF BluetoothInv, Adapted
  <2>2. AdapterShown BY <2>1 DEF AdapterShown
  <2>3. ConnectedKnown BY <2>1 DEF ConnectedKnown
  <2>4. ConnectedShown BY <2>1 DEF ConnectedShown, BluetoothInv, Believed
  <2> QED BY <2>2, <2>3, <2>4 DEF BluetoothShown
<1> QED BY <1>1, BluetoothInvHolds, PTL

\* When everything is handled and the daemon is gone, no connection and no
\* address are shown (provider_bluez.cpp 60-63, 146-153).
THEOREM NothingShownHolds == Spec => []NothingShown
<1>1. BluetoothInv => NothingShown
  <2> SUFFICES ASSUME BluetoothInv, Settled, ~up
               PROVE  pub.Connected = "0" /\ pub.Address = defaults_.Address
    BY DEF NothingShown
  <2>1. NoneIn(q, Stops(Message)) BY QueueEmpty DEF Settled
  <2> QED BY <2>1 DEF BluetoothInv, Gone
<1> QED BY <1>1, BluetoothInvHolds, PTL
=============================================================================
