---------------------------- MODULE ConnmanProofs ---------------------------
(***************************************************************************)
(* Proofs about Connman: a service calls back only while there is a        *)
(* manager, nothing is shown of a daemon that is gone, and when everything *)
(* is handled the connection that is shown is the one there is.            *)
(***************************************************************************)
EXTENDS Connman, SignalsProofs, FiniteSetTheorems

Fields == {"NetworkType", "NetworkState", "NetworkName", "Tethering"}

Message == [on : {"State"}, path : {None}, val : {"online", "idle"}]
      \cup [on : {"Registered", "Unregistered"}, path : {None}, val : {None}]
      \cup [on : {"ServicesAdded", "ServicesRemoved"}, path : Services, val : {None}]
      \cup [on : {"ServiceState"}, path : Services, val : {"online", "idle"}]
      \cup [on : {"TechnologyAdded"}, path : Technologies, val : {"off"}]
      \cup [on : {"TechnologyRemoved"}, path : Technologies, val : {None}]
      \cup [on : {"Tethering"}, path : Technologies, val : {"on", "off"}]

\* what they tell
Managers == {m \in Message : m.on \in ToManager}
States(v) == {m \in Message : m.on = "State" /\ m.val = v}
ServiceStates(v) == {m \in Message : m.on = "ServiceState" /\ m.val = v}
News(s) == {m \in Message : \/ m.on \in {"ServicesAdded", "ServiceState"}
                            \/ m.on = "ServicesRemoved" /\ m.path = s}
Removals == {m \in Message : m.on = "TechnologyRemoved"}
Added(t) == {m \in Message : m.on = "TechnologyAdded" /\ m.path = t}
Tetherings(t) == {m \in Message : m.on = "Tethering" /\ m.path = t}
Of(t) == Added(t) \cup Tetherings(t)
Right(t, shares) == {m \in Of(t) : m.val = IF shares THEN "on" ELSE "off"}

----------------------------------------------------------------------------
(* The steps that the handler has left.                                    *)

Steps == [do : {"init", "reset", "services", "technologies"}, arg : {None}]
    \cup [do : {"listen"}, arg : {"online", "idle"}]
    \cup [do : {"connect"}, arg : Services]
    \cup [do : {"follow"}, arg : Technologies]

Does(s, do) == \E i \in 1..Len(s) : s[i].do = do
Waits(s, do, a) == \E i \in 1..Len(s) : s[i] = Step(do, a)

\* connecting to the manager and resetting the properties are the whole of
\* what is left; technologies come last, and are followed one after another
Ordered(s) ==
  \A i \in 1..Len(s) :
    /\ s[i].do \in {"init", "listen", "reset"} => Len(s) = 1
    /\ s[i].do \in {"services", "connect"} =>
         i = 1 /\ \A j \in 1..Len(s) : i < j => s[j].do = "technologies"
    /\ s[i].do = "technologies" => i = Len(s)
    /\ s[i].do = "follow" => \A j \in 1..Len(s) : s[j].do = "follow"

----------------------------------------------------------------------------
(* The invariant.                                                          *)

Types == /\ manager_ \in {None, "idle", "live"}
         /\ service_ \in Services \cup {None}
         /\ current_service_ \in Services \cup {None}
         /\ technologies_ \in SUBSET Technologies /\ tethering_ \in SUBSET Technologies
         /\ pub = [f \in Fields |-> pub[f]]
         /\ up \in BOOLEAN /\ restarted \in BOOLEAN /\ missed \in BOOLEAN
         /\ services \in Seq(Services) /\ online \in SUBSET Services
         /\ \A s \in online : \E i \in 1..Len(services) : services[i] = s
         /\ techs \in SUBSET Technologies /\ sharing \in SUBSET Technologies
         /\ q \in Seq(Message)
         /\ todo \in Seq(Steps) /\ Ordered(todo)
         /\ \A s \in Services : Waits(todo, "connect", s) => s = current_service_

\* the daemon has said that it started, and is asked for everything again
Restarts == ~NoneIn(q, Starts(Message))

Lives == Life(Message, q, up)

\* A bridge without a manager hears of nothing before the daemon starts; one
\* that has not connected to it is about to, or will hear that it started.
Managing ==
  /\ manager_ = None => Absent(Message, q, up) /\ todo = <<>> /\ pub = defaults_
  /\ manager_ = "idle" /\ up => Does(todo, "init") \/ Does(todo, "listen") \/ Restarts
  /\ Does(todo, "init") \/ Does(todo, "listen") => manager_ = "idle"
  /\ Does(todo, "reset") => manager_ = "live"
  /\ manager_ # "live" => NoneIn(q, Managers)
  /\ ~up /\ q = <<>> /\ manager_ # None =>
       manager_ = "idle" /\ pub = defaults_ /\ (todo = <<>> \/ Does(todo, "init"))

\* The last State on its way is the daemon's, ...
LastState ==
  up /\ ~Restarts => LastIn(q, States("online") \cup States("idle"), States(State))

\* ... and so is the one that was read, or that has the properties reset.
ReadState ==
  up /\ ~missed /\ ~Restarts =>
    /\ \A v \in {"online", "idle"} : Waits(todo, "listen", v) => v = State
    /\ Does(todo, "reset") => online = {} \/ ~NoneIn(q, States("online"))

\* everything is read again
Connects == \/ Restarts
            \/ ~NoneIn(q, States("online"))
            \/ Does(todo, "init") \/ Waits(todo, "listen", "online")

Shows(s) == /\ pub.NetworkState = "connected" /\ pub.NetworkName = s
            /\ pub.NetworkType = net_type(TypeOf[s])

\* The services are read again, or a service that is on line is shown and the
\* bridge has connected to it, or is about to.
Serving ==
  up /\ ~missed /\ online # {} =>
    \/ Connects
    \/ Does(todo, "services")
    \/ ~NoneIn(q, News(current_service_))
    \/ /\ current_service_ \in online /\ Shows(current_service_)
       /\ service_ = current_service_ \/ Waits(todo, "connect", current_service_)

\* A daemon that never restarted is there; nothing is shown of it, and nothing
\* heard, before the bridge has connected to its manager.
Alive ==
  up /\ ~restarted =>
    /\ NoneIn(q, Starts(Message) \cup Stops(Message))
    /\ manager_ # None
    /\ manager_ = "idle" => /\ q = <<>> /\ pub = defaults_
                            /\ service_ = None /\ technologies_ = {}

\* No service of it is shown once none is on line, or the bridge will hear so.
Leaving ==
  up /\ ~restarted /\ ~missed /\ online = {} =>
    /\ Behind(q, ServiceStates("online"), States("idle"))
    /\ \/ ~NoneIn(q, States("idle"))
       \/ Does(todo, "reset")
       \/ pub.NetworkState # "connected"

\* the technologies are read again
Lists == Connects \/ Does(todo, "technologies") \/ ~NoneIn(q, Removals)

Followed(t) == t \in technologies_ \/ Waits(todo, "follow", t) \/ ~NoneIn(q, Added(t))

\* What is on its way about a technology ends with what it shares now, or with
\* a change of its tethering: the signal that it was added never is the last of
\* them when it says something else.
LastTethering ==
  ~missed => \A t \in techs : LastIn(q, Of(t), Tetherings(t) \cup Right(t, t \in sharing))

\* The technologies are read again; or each is followed, what is on its way
\* about it ends with what it shares now, and nothing is when it is shown.
Tethered ==
  up /\ ~missed /\ online # {} =>
    \/ Lists
    \/ /\ \A t \in techs : /\ Followed(t)
                           /\ LastIn(q, Of(t), Right(t, t \in sharing))
                           /\ NoneIn(q, Of(t)) => (t \in tethering_ <=> t \in sharing)
       /\ techs # {} => \/ \E t \in Technologies : ~NoneIn(q, Added(t))
                        \/ pub.Tethering = tethering_

InternetInv == /\ Types /\ Lives /\ Managing /\ Alive
               /\ LastState /\ ReadState /\ Serving /\ Leaving
               /\ LastTethering /\ Tethered
----------------------------------------------------------------------------
(* The signals.                                                            *)

\* What is in a signal.
LEMMA Contents ==
  ASSUME NEW m \in Message
  PROVE  /\ m.on \in ToManager \cup {"ServiceState", "Tethering", "Registered", "Unregistered"}
         /\ m.on = "State" => m.val \in {"online", "idle"}
         /\ m.on \in {"ServicesAdded", "ServicesRemoved", "ServiceState"} => m.path \in Services
         /\ m.on = "ServiceState" => m.val \in {"online", "idle"}
         /\ m.on \in {"TechnologyAdded", "TechnologyRemoved", "Tethering"} =>
              m.path \in Technologies
         /\ m.on = "TechnologyAdded" => m.val = "off"
         /\ m.on = "Tethering" => m.val \in {"on", "off"}
BY DEF Message, ToManager

\* The signals that the daemon sends, as their receiver sees them.
LEMMA Sendings ==
  /\ \A on, p, v : /\ Signal(on, p, v).on = on /\ Signal(on, p, v).path = p
                   /\ Signal(on, p, v).val = v
  /\ Signal("Registered", None, None) \in Message
  /\ Signal("Unregistered", None, None) \in Message
  /\ \A v \in {"online", "idle"} : Signal("State", None, v) \in Message
  /\ \A s \in Services : /\ Signal("ServicesAdded", s, None) \in Message
                         /\ Signal("ServicesRemoved", s, None) \in Message
                         /\ Signal("ServiceState", s, "online") \in Message
                         /\ Signal("ServiceState", s, "idle") \in Message
  /\ \A t \in Technologies : /\ Signal("TechnologyAdded", t, "off") \in Message
                             /\ Signal("TechnologyRemoved", t, None) \in Message
                             /\ Signal("Tethering", t, "on") \in Message
                             /\ Signal("Tethering", t, "off") \in Message
<1>1. \A on, p, v : /\ Signal(on, p, v).on = on /\ Signal(on, p, v).path = p
                    /\ Signal(on, p, v).val = v
  BY DEF Signal
<1>2. Signal("Registered", None, None) \in Message BY DEF Signal, Message
<1>3. Signal("Unregistered", None, None) \in Message BY DEF Signal, Message
<1>4. \A v \in {"online", "idle"} : Signal("State", None, v) \in Message
  BY DEF Signal, Message
<1>5. ASSUME NEW s \in Services
      PROVE  /\ Signal("ServicesAdded", s, None) \in Message
             /\ Signal("ServicesRemoved", s, None) \in Message
             /\ Signal("ServiceState", s, "online") \in Message
             /\ Signal("ServiceState", s, "idle") \in Message
  BY DEF Signal, Message
<1>6. ASSUME NEW t \in Technologies
      PROVE  /\ Signal("TechnologyAdded", t, "off") \in Message
             /\ Signal("TechnologyRemoved", t, None) \in Message
             /\ Signal("Tethering", t, "on") \in Message
             /\ Signal("Tethering", t, "off") \in Message
  BY DEF Signal, Message
<1> QED BY <1>1, <1>2, <1>3, <1>4, <1>5, <1>6

----------------------------------------------------------------------------
(* What is left of a handler.                                              *)

\* What a step says.
LEMMA StepContents ==
  ASSUME NEW e \in Steps
  PROVE  /\ e.do \in {"init", "listen", "reset", "services", "connect", "technologies", "follow"}
         /\ e.do = "listen" => e.arg \in {"online", "idle"}
         /\ e.do = "connect" => e.arg \in Services
         /\ e.do = "follow" => e.arg \in Technologies
         /\ e = Step(e.do, e.arg)
BY DEF Steps, Step

\* The steps that handlers are made of.
LEMMA StepTypes ==
  /\ \A do, a : Step(do, a).do = do /\ Step(do, a).arg = a
  /\ \A do \in {"init", "reset", "services", "technologies"} : Step(do, None) \in Steps
  /\ \A v \in {"online", "idle"} : Step("listen", v) \in Steps
  /\ \A s \in Services : Step("connect", s) \in Steps
  /\ \A t \in Technologies : Step("follow", t) \in Steps
BY DEF Step, Steps

\* The first step is taken off, and no other.
LEMMA StepsTail ==
  ASSUME NEW s \in Seq(Steps), s # <<>>
  PROVE  /\ Tail(s) \in Seq(Steps) /\ Head(s) \in Steps
         /\ \A do : Does(s, do) <=> Does(Tail(s), do) \/ Head(s).do = do
         /\ \A do, a : Waits(s, do, a) <=> Waits(Tail(s), do, a) \/ Head(s) = Step(do, a)
<1> DEFINE r == Tail(s)
           e == Head(s)
<1>1. /\ r \in Seq(Steps) /\ e = s[1] /\ e \in Steps /\ 1 \in 1..Len(s)
      /\ \A i \in 1..Len(r) : i + 1 \in 1..Len(s) /\ r[i] = s[i + 1]
      /\ \A i \in 1..Len(s) : i = 1 \/ (i - 1 \in 1..Len(r) /\ r[i - 1] = s[i])
  BY Tailed
<1> HIDE DEF r, e
<1>2. \A do : Does(s, do) <=> Does(r, do) \/ e.do = do BY <1>1 DEF Does
<1>3. \A do, a : Waits(s, do, a) <=> Waits(r, do, a) \/ e = Step(do, a) BY <1>1 DEF Waits
<1> QED BY <1>1, <1>2, <1>3 DEF r, e

\* The order says what follows the first step.
LEMMA OrderedTail ==
  ASSUME NEW s \in Seq(Steps), s # <<>>, Ordered(s)
  PROVE  /\ Ordered(Tail(s))
         /\ Head(s).do \in {"init", "listen", "reset", "technologies"} => Tail(s) = <<>>
         /\ Head(s).do \in {"services", "connect"} =>
              \A do : Does(Tail(s), do) => do = "technologies"
         /\ Head(s).do = "follow" => \A do : Does(s, do) => do = "follow"
         /\ \A do \in {"init", "listen", "reset", "services", "connect"} :
              Does(s, do) => Head(s).do = do
<1> DEFINE r == Tail(s)
           e == Head(s)
<1>1. /\ r \in Seq(Steps) /\ Len(r) = Len(s) - 1 /\ e = s[1] /\ 1 \in 1..Len(s)
      /\ \A i \in 1..Len(r) : i + 1 \in 1..Len(s) /\ r[i] = s[i + 1]
      /\ \A i \in 1..Len(s) : i = 1 \/ (i - 1 \in 1..Len(r) /\ r[i - 1] = s[i])
  BY Tailed
<1>2. /\ \A i \in 1..Len(r) : 1 < i + 1 /\ i + 1 # 1
      /\ \A i, j \in 1..Len(r) : i < j <=> i + 1 < j + 1
      /\ Len(r) \in Nat /\ Len(s) \in Nat
  BY <1>1
<1>3. \A i \in 1..Len(s) :
        /\ s[i].do \in {"init", "listen", "reset"} => Len(s) = 1
        /\ s[i].do \in {"services", "connect"} =>
             i = 1 /\ \A j \in 1..Len(s) : i < j => s[j].do = "technologies"
        /\ s[i].do = "technologies" => i = Len(s)
        /\ s[i].do = "follow" => \A j \in 1..Len(s) : s[j].do = "follow"
  BY DEF Ordered
<1> HIDE DEF r, e
<1>4. Ordered(r)
  <2>1. ASSUME NEW i \in 1..Len(r)
        PROVE  /\ r[i].do \notin {"init", "listen", "reset", "services", "connect"}
               /\ r[i].do = "technologies" => i = Len(r)
               /\ r[i].do = "follow" => \A j \in 1..Len(r) : r[j].do = "follow"
    <3>1. i + 1 \in 1..Len(s) /\ r[i] = s[i + 1] /\ i + 1 # 1 /\ Len(s) # 1 BY <1>1, <1>2
    <3>2. r[i].do \notin {"init", "listen", "reset", "services", "connect"} BY <1>3, <3>1
    <3>3. r[i].do = "technologies" => i + 1 = Len(s) BY <1>3, <3>1
    <3>4. r[i].do = "follow" => \A j \in 1..Len(r) : r[j].do = "follow" BY <1>1, <1>3, <3>1
    <3> QED BY <1>1, <1>2, <3>2, <3>3, <3>4
  <2> QED BY <2>1 DEF Ordered
<1>5. e.do \in {"init", "listen", "reset", "technologies"} => r = <<>>
  <2>1. e.do \in {"init", "listen", "reset", "technologies"} => Len(s) = 1 BY <1>1, <1>3
  <2>2. Len(s) = 1 => Len(r) = 0 BY <1>1, <1>2
  <2> QED BY <1>1, <2>1, <2>2
<1>6. e.do \in {"services", "connect"} => \A do : Does(r, do) => do = "technologies"
  BY <1>1, <1>2, <1>3 DEF Does
<1>7. e.do = "follow" => \A do : Does(s, do) => do = "follow" BY <1>1, <1>3 DEF Does
<1>8. ASSUME NEW do \in {"init", "listen", "reset", "services", "connect"}, Does(s, do)
      PROVE  e.do = do
  <2>1. PICK i \in 1..Len(s) : s[i].do = do BY <1>8 DEF Does
  <2>2. i = 1 BY <1>2, <1>3, <2>1
  <2> QED BY <1>1, <2>1, <2>2
<1> QED BY <1>4, <1>5, <1>6, <1>7, <1>8 DEF r, e

\* An empty list.
LEMMA StepsNone ==
  /\ <<>> \in Seq(Steps) /\ Ordered(<<>>)
  /\ \A do, a : ~Does(<<>>, do) /\ ~Waits(<<>>, do, a)
<1>1. Len(<<>>) = 0 /\ <<>> \in Seq(Steps) OBVIOUS
<1> QED BY <1>1 DEF Ordered, Does, Waits

\* A list of one step.
LEMMA StepsOne ==
  ASSUME NEW e \in Steps
  PROVE  /\ <<e>> \in Seq(Steps) /\ Ordered(<<e>>) /\ <<e>> # <<>>
         /\ \A do : Does(<<e>>, do) <=> e.do = do
         /\ \A do, a : Waits(<<e>>, do, a) <=> e = Step(do, a)
<1> DEFINE s == <<e>>
<1>1. s \in Seq(Steps) /\ Len(s) = 1 /\ s[1] = e /\ s # <<>> OBVIOUS
<1> HIDE DEF s
<1>2. \A i \in 1..Len(s) : i = 1 /\ s[i] = e BY <1>1
<1>3. Ordered(s) BY <1>1, <1>2 DEF Ordered
<1>4. 1 \in 1..Len(s) BY <1>1
<1>5. \A do : Does(s, do) <=> e.do = do BY <1>2, <1>4 DEF Does
<1>6. \A do, a : Waits(s, do, a) <=> e = Step(do, a) BY <1>2, <1>4 DEF Waits
<1> QED BY <1>1, <1>3, <1>4, <1>5, <1>6 DEF s

\* What the State of the manager has the bridge do.
LEMMA StepsOfState ==
  ASSUME NEW v \in {"online", "idle"}
  PROVE  LET s == process_state(v)
         IN  /\ s \in Seq(Steps) /\ Ordered(s) /\ s # <<>>
             /\ v = "online" => /\ Does(s, "services") /\ Does(s, "technologies")
                                /\ \A do : Does(s, do) => do \in {"services", "technologies"}
             /\ v = "idle" => \A do : Does(s, do) <=> do = "reset"
             /\ \A a : ~Waits(s, "listen", a) /\ ~Waits(s, "connect", a)
                       /\ ~Waits(s, "follow", a)
<1> DEFINE s == process_state(v)
<1>1. ASSUME v = "idle" PROVE s = <<Step("reset", None)>> BY <1>1 DEF process_state
<1>2. ASSUME v = "online" PROVE s = <<Step("services", None), Step("technologies", None)>>
  BY <1>2 DEF process_state
<1> HIDE DEF s
<1>3. CASE v = "idle"
  <2> DEFINE x == Step("reset", None)
  <2>1. x \in Steps /\ x.do = "reset" BY StepTypes
  <2> HIDE DEF x
  <2>0. s = <<x>> BY <1>1, <1>3 DEF x
  <2>2. /\ s \in Seq(Steps) /\ Ordered(s) /\ s # <<>>
        /\ \A do : Does(s, do) <=> x.do = do
        /\ \A do, a : Waits(s, do, a) <=> x = Step(do, a)
    BY <2>0, <2>1, StepsOne
  <2>3. /\ \A do : Does(s, do) <=> do = "reset"
        /\ \A a : ~Waits(s, "listen", a) /\ ~Waits(s, "connect", a) /\ ~Waits(s, "follow", a)
    BY <2>1, <2>2 DEF Step
  <2> QED BY <1>3, <2>2, <2>3 DEF s
<1>4. CASE v = "online"
  <2> DEFINE x == Step("services", None)
             y == Step("technologies", None)
  <2>1. x \in Steps /\ y \in Steps /\ x.do = "services" /\ y.do = "technologies"
    BY StepTypes
  <2> HIDE DEF x, y
  <2>2. s = <<x, y>> BY <1>2, <1>4 DEF x, y
  <2>3. s \in Seq(Steps) /\ Len(s) = 2 /\ s[1] = x /\ s[2] = y /\ s # <<>> BY <2>1, <2>2
  <2>4. 1 \in 1..Len(s) /\ 2 \in 1..Len(s) /\ \A i \in 1..Len(s) : i \in {1, 2} BY <2>3
  <2>5. Ordered(s) BY <2>1, <2>3, <2>4 DEF Ordered
  <2>6. /\ Does(s, "services") /\ Does(s, "technologies")
        /\ \A do : Does(s, do) => do \in {"services", "technologies"}
    BY <2>1, <2>3, <2>4 DEF Does
  <2>7. \A a : ~Waits(s, "listen", a) /\ ~Waits(s, "connect", a) /\ ~Waits(s, "follow", a)
    BY <2>1, <2>3, <2>4 DEF Waits, Step
  <2> QED BY <1>4, <2>3, <2>5, <2>6, <2>7 DEF s
<1> QED BY <1>3, <1>4

\* Connecting to a service before the technologies.
LEMMA StepsConnect ==
  ASSUME NEW s \in Services, NEW r \in Seq(Steps), Ordered(r),
         \A do : Does(r, do) => do = "technologies"
  PROVE  LET u == <<Step("connect", s)>> \o r
         IN  /\ u \in Seq(Steps) /\ Ordered(u) /\ u # <<>>
             /\ \A do : Does(u, do) <=> do = "connect" \/ Does(r, do)
             /\ \A do, a : Waits(u, do, a) <=> (do = "connect" /\ a = s) \/ Waits(r, do, a)
<1> DEFINE e == Step("connect", s)
           u == <<e>> \o r
<1>1. e \in Steps /\ e.do = "connect" BY StepTypes
<1>2. \A do, a : e = Step(do, a) <=> do = "connect" /\ a = s BY DEF Step
<1> HIDE DEF e
<1>3. /\ u \in Seq(Steps) /\ Len(u) = Len(r) + 1 /\ u[1] = e /\ u # <<>>
      /\ \A i \in 1..Len(r) : i + 1 \in 1..Len(u) /\ u[i + 1] = r[i]
      /\ \A i \in 1..Len(u) : i = 1 \/ (i - 1 \in 1..Len(r) /\ u[i] = r[i - 1])
  BY <1>1
<1>4. Len(r) \in Nat /\ 1 \in 1..Len(u) BY <1>3
<1> HIDE DEF u
<1>5. \A i \in 1..Len(r) : r[i].do = "technologies" /\ i = Len(r) BY DEF Does, Ordered
<1>6. \A i \in 1..Len(u) : i # 1 => u[i].do = "technologies" /\ i = Len(u)
  <2> SUFFICES ASSUME NEW i \in 1..Len(u), i # 1
               PROVE  u[i].do = "technologies" /\ i = Len(u)
    OBVIOUS
  <2>1. i - 1 \in 1..Len(r) /\ u[i] = r[i - 1] BY <1>3
  <2>2. u[i].do = "technologies" /\ i - 1 = Len(r) BY <1>5, <2>1
  <2> QED BY <1>3, <1>4, <2>2
<1>7. Ordered(u)
  <2>1. \A j \in 1..Len(u) : 1 < j => u[j].do = "technologies" BY <1>6
  <2> QED BY <1>1, <1>3, <1>6, <2>1 DEF Ordered
<1>8. \A do : Does(u, do) <=> do = "connect" \/ Does(r, do)
  BY <1>1, <1>3, <1>4, SMTT(20) DEF Does
<1>9. \A do, a : Waits(u, do, a) <=> (do = "connect" /\ a = s) \/ Waits(r, do, a)
  <2> TAKE do, a
  <2>1. ASSUME Waits(u, do, a) PROVE (do = "connect" /\ a = s) \/ Waits(r, do, a)
    <3>1. PICK i \in 1..Len(u) : u[i] = Step(do, a) BY <2>1 DEF Waits
    <3>2. CASE i = 1 BY <1>2, <1>3, <3>1, <3>2
    <3>3. CASE i - 1 \in 1..Len(r) /\ u[i] = r[i - 1] BY <3>1, <3>3 DEF Waits
    <3> QED BY <1>3, <3>2, <3>3
  <2>2. ASSUME Waits(r, do, a) PROVE Waits(u, do, a) BY <1>3, <2>2 DEF Waits
  <2>3. ASSUME do = "connect" /\ a = s PROVE Waits(u, do, a)
    <3>1. u[1] = Step(do, a) BY <1>2, <1>3, <2>3
    <3> QED BY <1>4, <3>1 DEF Waits
  <2> QED BY <2>1, <2>2, <2>3
<1> QED BY <1>3, <1>7, <1>8, <1>9 DEF u, e

\* The technologies that there are, one after another.
LEMMA SetToSeqAll ==
  ASSUME NEW S, IsFiniteSet(S)
  PROVE  /\ Cardinality(S) \in Nat
         /\ SetToSeq(S) \in [1..Cardinality(S) -> S]
         /\ \A x \in S : \E i \in 1..Cardinality(S) : SetToSeq(S)[i] = x
<1> DEFINE n == Cardinality(S)
<1>1. n \in Nat /\ ExistsBijection(1..n, S) BY FS_CardinalityType
<1>2. PICK g \in Bijection(1..n, S) : TRUE BY <1>1 DEF ExistsBijection
<1>3. g \in [1..n -> S] /\ IsInjective(g) BY <1>2 DEF Bijection, Injection
<1>4. SetToSeq(S) \in [1..n -> S] /\ IsInjective(SetToSeq(S)) BY <1>3 DEF SetToSeq
<1>5. SetToSeq(S) \in Injection(1..n, S) BY <1>4 DEF Injection
<1>6. Cardinality(1..n) = n BY <1>1, FS_Interval
<1>7. SetToSeq(S) \in Surjection(1..n, S) BY <1>1, <1>5, <1>6, FS_Injection
<1> QED BY <1>1, <1>4, <1>7 DEF Surjection

\* The technologies to follow, one after another.
LEMMA StepsFollow ==
  ASSUME NEW ts \in SUBSET Technologies
  PROVE  LET u == [i \in 1..Cardinality(ts) |-> Step("follow", SetToSeq(ts)[i])] \o <<>>
         IN  /\ u \in Seq(Steps) /\ Ordered(u)
             /\ \A do : Does(u, do) => do = "follow"
             /\ \A t \in ts : Waits(u, "follow", t)
             /\ \A do, a : Waits(u, do, a) => do = "follow"
<1> DEFINE n == Cardinality(ts)
           l == SetToSeq(ts)
           w == [i \in 1..n |-> Step("follow", l[i])]
           u == w \o <<>>
<1>1. IsFiniteSet(ts) BY ConnmanAssumption, FS_Subset
<1>2. n \in Nat /\ l \in [1..n -> ts] /\ \A t \in ts : \E i \in 1..n : l[i] = t
  BY <1>1, SetToSeqAll
<1> HIDE DEF n, l
<1>3. \A i \in 1..n : l[i] \in Technologies BY <1>2
<1>4. \A i \in 1..n : Step("follow", l[i]) \in Steps BY <1>3, StepTypes
<1>5. w \in Seq(Steps) /\ Len(w) = n /\ \A i \in 1..n : w[i] = Step("follow", l[i])
  BY <1>2, <1>4
<1> HIDE DEF w
<1>6. u = w BY <1>5
<1> HIDE DEF u
<1>7. /\ u \in Seq(Steps) /\ Len(u) = n
      /\ \A i \in 1..n : u[i] = Step("follow", l[i]) /\ u[i].do = "follow"
  BY <1>5, <1>6, StepTypes
<1>8. Ordered(u) BY <1>7 DEF Ordered
<1>9. \A do : Does(u, do) => do = "follow" BY <1>7 DEF Does
<1>10. \A t \in ts : Waits(u, "follow", t) BY <1>2, <1>7 DEF Waits
<1>11. \A do, a : Waits(u, do, a) => do = "follow"
  <2> SUFFICES ASSUME NEW do, NEW a, Waits(u, do, a) PROVE do = "follow" OBVIOUS
  <2>1. PICK i \in 1..Len(u) : u[i] = Step(do, a) BY DEF Waits
  <2>2. u[i].do = do BY <2>1, StepTypes
  <2> QED BY <1>7, <2>2
<1> QED BY <1>7, <1>8, <1>9, <1>10, <1>11 DEF u, w, l, n

----------------------------------------------------------------------------
(* What is shown.                                                          *)

\* The fields of a record of what is shown.
LEMMA Record ==
  ASSUME NEW a, NEW b, NEW c, NEW d
  PROVE  LET p == [NetworkType |-> a, NetworkState |-> b, NetworkName |-> c, Tethering |-> d]
         IN  /\ p = [f \in Fields |-> p[f]]
             /\ p.NetworkType = a /\ p.NetworkState = b
             /\ p.NetworkName = c /\ p.Tethering = d
BY SMT DEF Fields

\* The defaults have the fields that are published.
LEMMA Defaults ==
  /\ defaults_ = [f \in Fields |-> defaults_[f]]
  /\ defaults_.NetworkState = "disconnected" /\ defaults_.Tethering = {}
BY Record, Zenon DEF defaults_

\* Replacing the value of a field adds none.
LEMMA FieldReplaced ==
  ASSUME NEW r, r = [f \in Fields |-> r[f]], NEW g \in Fields, NEW v
  PROVE  /\ [r EXCEPT ![g] = v] = [f \in Fields |-> [r EXCEPT ![g] = v][f]]
         /\ \A f \in Fields : [r EXCEPT ![g] = v][f] = IF f = g THEN v ELSE r[f]
BY SMT
----------------------------------------------------------------------------
(* What the loop and the daemon leave as it is.                            *)

\* What the loop does to the types is what it does to a few variables.
LEMMA TypesLoop ==
  ASSUME Types, UNCHANGED daemon, missed' \in BOOLEAN, q' \in Seq(Message),
         manager_' \in {None, "idle", "live"},
         service_' \in Services \cup {None}, current_service_' \in Services \cup {None},
         technologies_' \in SUBSET Technologies, tethering_' \in SUBSET Technologies,
         pub' = [f \in Fields |-> pub'[f]],
         todo' \in Seq(Steps), Ordered(todo'),
         \A s \in Services : Waits(todo', "connect", s) => s = current_service_'
  PROVE  Types'
<1>1. UNCHANGED <<up, restarted, services, online, techs, sharing>> BY DEF daemon
<1> QED BY <1>1 DEF Types

\* What the daemon does to the types is what it does to its own variables.
LEMMA TypesDaemon ==
  ASSUME Types, UNCHANGED bridge, q' \in Seq(Message),
         up' \in BOOLEAN, restarted' \in BOOLEAN, missed' \in BOOLEAN,
         services' \in Seq(Services), online' \in SUBSET Services,
         \A s \in online' : \E i \in 1..Len(services') : services'[i] = s,
         techs' \in SUBSET Technologies, sharing' \in SUBSET Technologies
  PROVE  Types'
<1>1. UNCHANGED <<manager_, service_, current_service_, technologies_, tethering_, pub, todo>>
  BY DEF bridge
<1>2. Ordered(todo)' <=> Ordered(todo) BY <1>1
<1>3. \A s : Waits(todo, "connect", s)' <=> Waits(todo, "connect", s) BY <1>1
<1> QED BY <1>1, <1>2, <1>3 DEF Types

\* A handler of a signal other than that the daemon started or stopped knows
\* the daemon and its manager.
LEMMA Handling ==
  ASSUME InternetInv, todo = <<>>, q # <<>>
  PROVE  /\ q \in Seq(Message) /\ Tail(q) \in Seq(Message) /\ Head(q) \in Message
         /\ Life(Message, Tail(q), up)
         /\ Absent(Message, Tail(q), up) <=> Head(q) \in Stops(Message)
         /\ Head(q) \notin Starts(Message) => manager_ # None
         /\ Head(q) \in Managers => manager_ = "live"
         /\ up /\ ~restarted =>
              /\ Head(q) \notin Starts(Message) \cup Stops(Message)
              /\ manager_ = "live"
<1>1. q \in Seq(Message) /\ up \in BOOLEAN /\ manager_ \in {None, "idle", "live"}
  BY DEF InternetInv, Types
<1>2. Tail(q) \in Seq(Message) /\ Head(q) \in Message BY <1>1, Tailed
<1>3. /\ Life(Message, Tail(q), up)
      /\ Absent(Message, Tail(q), up) <=> Head(q) \in Stops(Message)
  BY <1>1, LifeHandled DEF InternetInv, Lives
<1>4. Head(q) \notin Starts(Message) => manager_ # None
  BY DEF InternetInv, Managing, Absent
<1>5. \A X : NoneIn(q, X) => Head(q) \notin X BY <1>1, QueueHandled
<1>6. Head(q) \in Managers => manager_ = "live" BY <1>1, <1>5 DEF InternetInv, Managing
<1>7. up /\ ~restarted => /\ Head(q) \notin Starts(Message) \cup Stops(Message)
                          /\ manager_ = "live"
  BY <1>1, <1>5 DEF InternetInv, Alive
<1> QED BY <1>1, <1>2, <1>3, <1>4, <1>6, <1>7

\* What handling a signal leaves as it was, when the manager stays.
LEMMA HandledStays ==
  ASSUME InternetInv, todo = <<>>, q # <<>>, q' = Tail(q),
         UNCHANGED <<manager_, daemon, missed>>,
         Head(q) \notin Starts(Message) \cup Stops(Message),
         ~Does(todo', "init"), ~Does(todo', "listen"),
         Does(todo', "reset") => manager_ = "live"
  PROVE  /\ Lives' /\ Managing' /\ Alive' /\ LastState' /\ LastTethering'
         /\ Restarts' <=> Restarts
<1>0. UNCHANGED <<manager_, missed, up, online, techs, sharing, restarted>> BY DEF daemon
<1>1. /\ q \in Seq(Message) /\ q' \in Seq(Message) /\ Head(q) \in Message
      /\ Life(Message, q', up) /\ ~Absent(Message, q', up)
      /\ manager_ # None
      /\ up /\ ~restarted => manager_ = "live"
  BY Handling
<1>2. /\ \A X : NoneIn(q, X) <=> NoneIn(q', X) /\ Head(q) \notin X
      /\ \A X, Y : LastIn(q, X, Y) => LastIn(q', X, Y)
  BY <1>1, QueueHandled
<1>3. Lives' BY <1>0, <1>1 DEF Lives
<1>4. Restarts' <=> Restarts BY <1>2 DEF Restarts
<1>5. Managing'
  <2>1. manager_' # None /\ ~(~up' /\ q' = <<>>) BY <1>0, <1>1 DEF Absent
  <2>2. manager_' = "idle" /\ up' => Restarts'
    BY <1>0, <1>4, StepsNone DEF InternetInv, Managing
  <2>3. manager_' # "live" => NoneIn(q', Managers)
    BY <1>0, <1>2 DEF InternetInv, Managing
  <2> QED BY <1>0, <2>1, <2>2, <2>3 DEF Managing
<1>6. Alive'
  <2>1. up /\ ~restarted => NoneIn(q', Starts(Message) \cup Stops(Message))
    BY <1>2 DEF InternetInv, Alive
  <2> QED BY <1>0, <1>1, <2>1 DEF Alive
<1>7. LastState'
  <2>1. State' = State BY <1>0 DEF State
  <2> QED BY <1>0, <1>2, <1>4, <2>1 DEF InternetInv, LastState
<1>8. LastTethering' BY <1>0, <1>2 DEF InternetInv, LastTethering
<1> QED BY <1>3, <1>4, <1>5, <1>6, <1>7, <1>8

\* It leaves what is shown of a service, ...
LEMMA ServingStays ==
  ASSUME InternetInv, todo = <<>>, q # <<>>, q' = Tail(q), UNCHANGED <<daemon, missed>>,
         Head(q) \notin Starts(Message) \cup States("online") \cup News(current_service_),
         UNCHANGED <<service_, current_service_, pub.NetworkState, pub.NetworkName,
                     pub.NetworkType>>
  PROVE  Serving'
<1>0. UNCHANGED <<up, online>> BY DEF daemon
<1>1. q \in Seq(Message) BY DEF InternetInv, Types
<1>2. \A X : NoneIn(q, X) <=> NoneIn(q', X) /\ Head(q) \notin X BY <1>1, QueueHandled
<1> SUFFICES ASSUME up, ~missed, online # {}, ~Connects', NoneIn(q', News(current_service_'))
             PROVE  /\ current_service_ \in online /\ Shows(current_service_)'
                    /\ service_ = current_service_
  BY <1>0 DEF Serving
<1>3. ~Connects BY <1>2, StepsNone DEF Connects, Restarts
<1>4. NoneIn(q, News(current_service_)) BY <1>2
<1> QED BY <1>3, <1>4, StepsNone DEF InternetInv, Serving, Shows

\* ... what is shown after the last one, ...
LEMMA LeavingStays ==
  ASSUME InternetInv, todo = <<>>, q # <<>>, q' = Tail(q), UNCHANGED <<daemon, missed>>,
         Head(q) \notin States("idle"), UNCHANGED pub.NetworkState
  PROVE  Leaving'
<1>0. UNCHANGED <<up, online, restarted>> BY DEF daemon
<1>1. q \in Seq(Message) BY DEF InternetInv, Types
<1>2. /\ \A X : NoneIn(q, X) <=> NoneIn(q', X) /\ Head(q) \notin X
      /\ \A X, Y : Behind(q, X, Y) => Behind(q', X, Y)
  BY <1>1, QueueHandled, BehindHandled
<1> QED BY <1>0, <1>2, StepsNone DEF InternetInv, Leaving

\* ... and what is known of the technologies.
LEMMA TetheredStays ==
  ASSUME InternetInv, todo = <<>>, q # <<>>, q' = Tail(q), UNCHANGED <<daemon, missed>>,
         Head(q) \notin Starts(Message) \cup States("online") \cup Removals,
         \A t \in Technologies : Head(q) \notin Of(t),
         UNCHANGED <<technologies_, tethering_, pub.Tethering>>
  PROVE  Tethered'
<1>0. UNCHANGED <<up, online, techs, sharing>> BY DEF daemon
<1>1. q \in Seq(Message) /\ techs \subseteq Technologies BY DEF InternetInv, Types
<1>2. /\ \A X : NoneIn(q, X) <=> NoneIn(q', X) /\ Head(q) \notin X
      /\ \A X, Y : LastIn(q, X, Y) => LastIn(q', X, Y)
  BY <1>1, QueueHandled
<1> SUFFICES ASSUME up, ~missed, online # {}, ~Lists'
             PROVE  /\ \A t \in techs :
                         /\ Followed(t)'
                         /\ LastIn(q', Of(t), Right(t, t \in sharing))
                         /\ NoneIn(q', Of(t)) => (t \in tethering_ <=> t \in sharing)
                    /\ techs # {} => \/ \E t \in Technologies : ~NoneIn(q', Added(t))
                                     \/ pub.Tethering = tethering_
  BY <1>0 DEF Tethered
<1>3. ~Lists BY <1>2, StepsNone DEF Lists, Connects, Restarts
<1>4. /\ \A t \in techs : /\ Followed(t)
                          /\ LastIn(q, Of(t), Right(t, t \in sharing))
                          /\ NoneIn(q, Of(t)) => (t \in tethering_ <=> t \in sharing)
      /\ techs # {} => \/ \E t \in Technologies : ~NoneIn(q, Added(t))
                       \/ pub.Tethering = tethering_
  BY <1>3 DEF InternetInv, Tethered
<1>5. \A t \in Technologies : Head(q) \notin Added(t) BY DEF Of
<1>6. \A t \in Technologies : Followed(t) => Followed(t)'
  BY <1>2, <1>5, StepsNone DEF Followed
<1> QED BY <1>1, <1>2, <1>4, <1>5, <1>6

\* A signal that the handler knows to be none of these.
LEMMA Otherwise ==
  ASSUME NEW e \in Message
  PROVE  /\ e.on # "Registered" => e \notin Starts(Message)
         /\ e.on # "Unregistered" => e \notin Stops(Message)
         /\ e.on # "State" => \A v : e \notin States(v)
         /\ e.on # "ServiceState" => \A v : e \notin ServiceStates(v)
         /\ e.on \notin {"ServicesAdded", "ServicesRemoved", "ServiceState"} =>
              \A s : e \notin News(s)
         /\ e.on # "TechnologyRemoved" => e \notin Removals
         /\ e.on \notin {"TechnologyAdded", "Tethering"} => \A t : e \notin Of(t)
         /\ e.on \in ToManager => e \in Managers
BY DEF Starts, Stops, States, ServiceStates, News, Removals, Of, Added, Tetherings, Managers

----------------------------------------------------------------------------
(* The handlers of the signals.                                            *)

\* The State of the manager: everything is read again, or reset.
LEMMA StateHandled == ASSUME InternetInv, OnState PROVE InternetInv'
<1> DEFINE e == Head(q)
<1>1. /\ todo = <<>> /\ q # <<>> /\ q' = Tail(q) /\ e.on = "State"
      /\ todo' = process_state(e.val)
      /\ UNCHANGED <<manager_, daemon, missed, service_, current_service_,
                     technologies_, tethering_, pub>>
  BY DEF OnState, Handle, val
<1>2. UNCHANGED <<up, online, techs, sharing, restarted>> BY <1>1 DEF daemon
<1>3. /\ q \in Seq(Message) /\ e \in Message /\ q' \in Seq(Message)
      /\ e \in Managers => manager_ = "live"
  BY <1>1, Handling
<1>4. /\ e.val \in {"online", "idle"} /\ e \in States(e.val)
      /\ \A v \in {"online", "idle"} : e \in States(v) => v = e.val
      /\ e \notin Starts(Message) \cup Stops(Message) /\ e \in Managers
      /\ \A s : e \notin News(s)
      /\ e \notin Removals /\ \A t : e \notin Of(t)
  BY <1>1, <1>3, Contents, Otherwise DEF States, ToManager
<1>5. /\ todo' \in Seq(Steps) /\ Ordered(todo') /\ todo' # <<>>
      /\ e.val = "online" => /\ Does(todo', "services") /\ Does(todo', "technologies")
                             /\ \A do : Does(todo', do) => do \in {"services", "technologies"}
      /\ e.val = "idle" => \A do : Does(todo', do) <=> do = "reset"
      /\ \A a : ~Waits(todo', "listen", a) /\ ~Waits(todo', "connect", a)
                /\ ~Waits(todo', "follow", a)
  BY <1>1, <1>4, StepsOfState
<1>6. ~Does(todo', "init") /\ ~Does(todo', "listen") BY <1>4, <1>5
<1>7. /\ Lives' /\ Managing' /\ Alive' /\ LastState' /\ LastTethering'
      /\ Restarts' <=> Restarts
  BY <1>1, <1>3, <1>4, <1>6, HandledStays
<1>8. Types' BY <1>1, <1>3, <1>5, TypesLoop DEF InternetInv, Types
<1>9. ReadState'
  <2> SUFFICES ASSUME up, ~missed, ~Restarts, online # {}, Does(todo', "reset")
               PROVE  ~NoneIn(q', States("online"))
    BY <1>1, <1>2, <1>5, <1>7 DEF ReadState
  <2>1. e.val = "idle" BY <1>4, <1>5
  <2>2. LastIn(q, States("online") \cup States("idle"), States("online"))
    BY DEF InternetInv, LastState, State
  <2>3. /\ LastIn(q', States("online") \cup States("idle"), States("online"))
        /\ ~NoneIn(q', States("online") \cup States("idle"))
    BY <1>1, <1>3, <1>4, <2>1, <2>2, QueueHandled
  <2> QED BY <1>3, <2>3, LastFound
<1>10. Serving'
  <2>1. CASE e.val = "online" BY <1>5, <2>1 DEF Serving
  <2>2. CASE e.val # "online" BY <1>1, <1>4, <2>2, ServingStays
  <2> QED BY <2>1, <2>2
<1>11. Leaving'
  <2>1. CASE e.val = "idle"
    <3>1. Behind(q, ServiceStates("online"), States("idle")) =>
            Behind(q', ServiceStates("online"), States("idle"))
      BY <1>1, <1>3, BehindHandled
    <3> QED BY <1>2, <1>1, <1>5, <2>1, <3>1 DEF InternetInv, Leaving
  <2>2. CASE e.val # "idle" BY <1>1, <1>4, <2>2, LeavingStays
  <2> QED BY <2>1, <2>2
<1>12. Tethered'
  <2>1. CASE e.val = "online" BY <1>5, <2>1 DEF Tethered, Lists
  <2>2. CASE e.val # "online" BY <1>1, <1>4, <2>2, TetheredStays
  <2> QED BY <2>1, <2>2
<1> QED BY <1>7, <1>8, <1>9, <1>10, <1>11, <1>12 DEF InternetInv

\* The services are read again.
LEMMA ServicesHandled ==
  ASSUME InternetInv, todo = <<>>, q # <<>>, q' = Tail(q), UNCHANGED <<daemon, missed>>,
         Head(q).on \in {"ServicesAdded", "ServicesRemoved", "ServiceState"},
         UNCHANGED <<manager_, service_, current_service_, technologies_, tethering_>>,
         pub' = [f \in Fields |-> pub'[f]], UNCHANGED pub.Tethering,
         todo' = <<Step("services", None)>>,
         Leaving'
  PROVE  InternetInv'
<1> DEFINE e == Head(q)
           do_ == Step("services", None)
<1>1. q' \in Seq(Message) /\ e \in Message BY Handling
<1>2. /\ e \notin Starts(Message) \cup Stops(Message) /\ \A v : e \notin States(v)
      /\ e \notin Removals /\ \A t : e \notin Of(t)
  BY <1>1, Otherwise
<1>3. do_ \in Steps /\ do_.do = "services" /\ \A a : do_ # Step("connect", a) /\ do_ # Step("listen", a)
  BY StepTypes
<1> HIDE DEF do_
<1>4. /\ todo' \in Seq(Steps) /\ Ordered(todo')
      /\ \A do : Does(todo', do) <=> do = "services"
      /\ \A a : ~Waits(todo', "connect", a) /\ ~Waits(todo', "listen", a)
  <2>1. todo' = <<do_>> BY DEF do_
  <2> QED BY <1>3, <2>1, StepsOne
<1>5. Types' BY <1>1, <1>4, TypesLoop DEF InternetInv, Types
<1>6. Lives' /\ Managing' /\ Alive' /\ LastState' /\ LastTethering'
  BY <1>2, <1>4, HandledStays
<1>7. ReadState' BY <1>4 DEF ReadState
<1>8. Serving' BY <1>4 DEF Serving
<1>9. Tethered' BY <1>2, TetheredStays
<1> QED BY <1>5, <1>6, <1>7, <1>8, <1>9 DEF InternetInv

\* A service was added: all of them are read again.
LEMMA ServicesAddedHandled == ASSUME InternetInv, OnServicesAdded PROVE InternetInv'
<1>1. /\ todo = <<>> /\ q # <<>> /\ q' = Tail(q) /\ Head(q).on = "ServicesAdded"
      /\ todo' = <<Step("services", None)>>
      /\ UNCHANGED <<manager_, daemon, missed, service_, current_service_,
                     technologies_, tethering_, pub>>
  BY DEF OnServicesAdded, Handle
<1>2. Head(q) \in Message BY <1>1, Handling
<1>3. Leaving' BY <1>1, <1>2, Otherwise, LeavingStays
<1> QED BY <1>1, <1>3, ServicesHandled DEF InternetInv, Types

\* A service was removed: all of them are read again.
LEMMA ServicesRemovedHandled == ASSUME InternetInv, OnServicesRemoved PROVE InternetInv'
<1>1. /\ todo = <<>> /\ q # <<>> /\ q' = Tail(q) /\ Head(q).on = "ServicesRemoved"
      /\ todo' = IF Head(q).path = current_service_ THEN <<Step("services", None)>> ELSE <<>>
      /\ UNCHANGED <<manager_, daemon, missed, service_, current_service_,
                     technologies_, tethering_, pub>>
  BY DEF OnServicesRemoved, Handle, path
<1>2. q' \in Seq(Message) /\ Head(q) \in Message BY <1>1, Handling
<1>3. Leaving' BY <1>1, <1>2, Otherwise, LeavingStays
<1>4. CASE Head(q).path = current_service_
  BY <1>1, <1>3, <1>4, ServicesHandled DEF InternetInv, Types
<1>5. CASE Head(q).path # current_service_
  <2>1. /\ Head(q) \notin Starts(Message) \cup Stops(Message)
        /\ \A v : Head(q) \notin States(v)
        /\ Head(q) \notin Removals /\ \A t : Head(q) \notin Of(t)
    BY <1>1, <1>2, Otherwise
  <2>2. Head(q) \notin News(current_service_) BY <1>1, <1>5 DEF News
  <2>3. todo' = <<>> BY <1>1, <1>5
  <2>4. Types' BY <1>1, <1>2, <2>3, StepsNone, TypesLoop DEF InternetInv, Types
  <2>5. Lives' /\ Managing' /\ Alive' /\ LastState' /\ LastTethering'
    BY <1>1, <2>1, <2>3, StepsNone, HandledStays
  <2>6. ReadState' BY <2>3, StepsNone DEF ReadState
  <2>7. Serving' BY <1>1, <2>1, <2>2, ServingStays
  <2>8. Tethered' BY <1>1, <2>1, TetheredStays
  <2> QED BY <1>3, <2>4, <2>5, <2>6, <2>7, <2>8 DEF InternetInv
<1> QED BY <1>4, <1>5

\* The State of the service is shown, and the others are read again.
LEMMA ServiceStateHandled == ASSUME InternetInv, OnServiceState PROVE InternetInv'
<1> DEFINE e == Head(q)
           state == IF e.val = "online" THEN "connected" ELSE "disconnected"
<1>1. /\ todo = <<>> /\ q # <<>> /\ q' = Tail(q) /\ e.on = "ServiceState"
      /\ todo' = <<Step("services", None)>>
      /\ pub' = [pub EXCEPT !.NetworkState = state]
      /\ UNCHANGED <<manager_, daemon, missed, service_, current_service_,
                     technologies_, tethering_>>
  BY DEF OnServiceState, Handle, val
<1>2. /\ q \in Seq(Message) /\ e \in Message /\ pub = [f \in Fields |-> pub[f]]
  BY <1>1, Handling DEF InternetInv, Types
<1> HIDE DEF e
<1>3. /\ pub' = [f \in Fields |-> pub'[f]] /\ pub'.Tethering = pub.Tethering
      /\ pub'.NetworkState = state
  <2> HIDE DEF state
  <2>1. "NetworkState" \in Fields /\ "Tethering" \in Fields BY DEF Fields
  <2> QED BY <1>1, <1>2, <2>1, FieldReplaced
<1>4. Leaving'
  <2> SUFFICES ASSUME up, ~restarted, ~missed, online = {}
               PROVE  /\ Behind(q', ServiceStates("online"), States("idle"))
                      /\ \/ ~NoneIn(q', States("idle")) \/ pub'.NetworkState # "connected"
    BY <1>1 DEF Leaving, daemon
  <2>1. Behind(q, ServiceStates("online"), States("idle")) BY DEF InternetInv, Leaving
  <2>2. /\ Behind(q', ServiceStates("online"), States("idle"))
        /\ e \in ServiceStates("online") => ~NoneIn(q', States("idle"))
    BY <1>1, <1>2, <2>1, BehindHandled DEF e
  <2>3. e.val = "online" => e \in ServiceStates("online") BY <1>1, <1>2 DEF ServiceStates
  <2> QED BY <1>3, <2>2, <2>3
<1> QED BY <1>1, <1>3, <1>4, ServicesHandled DEF e

\* What a technology shares is shown, and it is followed if it is new.
LEMMA TechnologyHandled ==
  ASSUME InternetInv, todo = <<>>, q # <<>>, q' = Tail(q), UNCHANGED <<daemon, missed>>,
         Head(q).on \in {"TechnologyAdded", "Tethering"},
         UNCHANGED <<manager_, service_, current_service_, technologies_>>,
         tethering_' = tethered({Head(q).path},
                                IF Head(q).val = "on" THEN {Head(q).path} ELSE {}),
         pub' = [pub EXCEPT !.Tethering = tethering_'],
         todo' \in Seq(Steps), Ordered(todo'), \A do : Does(todo', do) => do = "follow",
         \A a : ~Waits(todo', "connect", a) /\ ~Waits(todo', "listen", a),
         Head(q).on = "TechnologyAdded" => Waits(todo', "follow", Head(q).path)
  PROVE  InternetInv'
<1> DEFINE e == Head(q)
           p == e.path
<1>1. /\ q \in Seq(Message) /\ q' \in Seq(Message) /\ e \in Message
      /\ pub = [f \in Fields |-> pub[f]]
  BY Handling DEF InternetInv, Types
<1>2. /\ e \notin Starts(Message) \cup Stops(Message) /\ \A v : e \notin States(v)
      /\ \A s : e \notin News(s)
      /\ e \notin Removals /\ p \in Technologies
  BY <1>1, Otherwise, Contents
<1>3. \A t : e \in Of(t) <=> t = p BY <1>1 DEF Of, Added, Tetherings
<1>4. UNCHANGED <<up, online, techs, sharing>> BY DEF daemon
<1>5. /\ tethering_' \in SUBSET Technologies
      /\ \A t : t # p => (t \in tethering_' <=> t \in tethering_)
      /\ p \in tethering_' <=> e.val = "on"
  BY <1>2 DEF tethered, InternetInv, Types
<1>6. /\ pub' = [f \in Fields |-> pub'[f]] /\ pub'.Tethering = tethering_'
      /\ UNCHANGED <<pub.NetworkState, pub.NetworkName, pub.NetworkType>>
  <2>1. {"NetworkState", "NetworkName", "NetworkType", "Tethering"} \subseteq Fields BY DEF Fields
  <2> QED BY <1>1, <2>1, FieldReplaced
<1>7. Types' BY <1>1, <1>5, <1>6, TypesLoop DEF InternetInv, Types
<1>8. Lives' /\ Managing' /\ Alive' /\ LastState' /\ LastTethering'
  BY <1>2, HandledStays
<1>9. ReadState' BY DEF ReadState
<1>10. Serving' BY <1>2, <1>6, ServingStays
<1>11. Leaving' BY <1>2, <1>6, LeavingStays
<1>12. Tethered'
  <2>1. /\ \A X : NoneIn(q, X) <=> NoneIn(q', X) /\ e \notin X
        /\ \A X, Y : LastIn(q, X, Y) =>
             LastIn(q', X, Y) /\ (NoneIn(q', X) /\ e \in X => e \in Y)
    BY <1>1, QueueHandled
  <2>2. techs \subseteq Technologies BY DEF InternetInv, Types
  <2> SUFFICES ASSUME up, ~missed, online # {}, ~Lists'
               PROVE  /\ \A t \in techs :
                           /\ Followed(t)'
                           /\ LastIn(q', Of(t), Right(t, t \in sharing))
                           /\ NoneIn(q', Of(t)) => (t \in tethering_' <=> t \in sharing)
                      /\ pub'.Tethering = tethering_'
    BY <1>4 DEF Tethered
  <2>3. ~Lists BY <1>2, <2>1, StepsNone DEF Lists, Connects, Restarts
  <2>4. \A t \in techs : /\ Followed(t)
                         /\ LastIn(q, Of(t), Right(t, t \in sharing))
                         /\ NoneIn(q, Of(t)) => (t \in tethering_ <=> t \in sharing)
    BY <2>3 DEF InternetInv, Tethered
  <2>5. \A t : e \in Added(t) => Waits(todo', "follow", t) BY DEF Added
  <2>6. \A t : Followed(t) => Followed(t)' BY <2>1, <2>5, StepsNone DEF Followed
  <2>7. ASSUME NEW t \in techs, NoneIn(q', Of(t)) PROVE t \in tethering_' <=> t \in sharing
    <3>1. CASE t = p
      <4>1. e \in Right(t, t \in sharing) BY <1>3, <2>1, <2>4, <2>7, <3>1
      <4>2. e.val = "on" <=> t \in sharing BY <4>1 DEF Right
      <4> QED BY <1>5, <3>1, <4>2
    <3>2. CASE t # p BY <1>3, <1>5, <2>1, <2>4, <2>7, <3>2
    <3> QED BY <3>1, <3>2
  <2> QED BY <1>6, <2>1, <2>4, <2>6, <2>7
<1> QED BY <1>7, <1>8, <1>9, <1>10, <1>11, <1>12 DEF InternetInv

\* There is a new technology, which is to be followed.
LEMMA TechnologyAddedHandled == ASSUME InternetInv, OnTechnologyAdded PROVE InternetInv'
<1> DEFINE e == Head(q)
           follow == Step("follow", e.path)
<1>1. /\ todo = <<>> /\ q # <<>> /\ q' = Tail(q) /\ e.on = "TechnologyAdded"
      /\ todo' = <<follow>>
      /\ tethering_' = tethered({e.path}, IF e.val = "on" THEN {e.path} ELSE {})
      /\ pub' = [pub EXCEPT !.Tethering = tethering_']
      /\ UNCHANGED <<manager_, daemon, missed, service_, current_service_, technologies_>>
  BY DEF OnTechnologyAdded, Handle, path, val
<1>2. e \in Message BY <1>1, Handling
<1>3. e.path \in Technologies BY <1>1, <1>2, Contents
<1>4. /\ follow \in Steps /\ follow.do = "follow" /\ follow = Step("follow", e.path)
      /\ \A a : follow # Step("connect", a) /\ follow # Step("listen", a)
  BY <1>3, StepTypes
<1> HIDE DEF follow
<1>5. /\ todo' \in Seq(Steps) /\ Ordered(todo') /\ \A do : Does(todo', do) => do = "follow"
      /\ \A a : ~Waits(todo', "connect", a) /\ ~Waits(todo', "listen", a)
      /\ Waits(todo', "follow", e.path)
  BY <1>1, <1>4, StepsOne
<1> QED BY <1>1, <1>5, TechnologyHandled

\* A technology shares its network, or does not any more.
LEMMA TetheringHandled == ASSUME InternetInv, OnTethering PROVE InternetInv'
<1> DEFINE e == Head(q)
<1>1. /\ todo = <<>> /\ q # <<>> /\ q' = Tail(q) /\ e.on = "Tethering"
      /\ todo' = <<>>
      /\ tethering_' = tethered({e.path}, IF e.val = "on" THEN {e.path} ELSE {})
      /\ pub' = [pub EXCEPT !.Tethering = tethering_']
      /\ UNCHANGED <<manager_, daemon, missed, service_, current_service_, technologies_>>
  BY DEF OnTethering, Handle, path, val
<1> QED BY <1>1, StepsNone, TechnologyHandled

\* The technologies are read again.
LEMMA TechnologyRemovedHandled == ASSUME InternetInv, OnTechnologyRemoved PROVE InternetInv'
<1> DEFINE e == Head(q)
           read == Step("technologies", None)
<1>1. /\ todo = <<>> /\ q # <<>> /\ q' = Tail(q) /\ e.on = "TechnologyRemoved"
      /\ todo' = <<read>>
      /\ UNCHANGED <<manager_, daemon, missed, service_, current_service_,
                     technologies_, tethering_, pub>>
  BY DEF OnTechnologyRemoved, Handle
<1>2. q' \in Seq(Message) /\ e \in Message BY <1>1, Handling
<1>3. /\ e \notin Starts(Message) \cup Stops(Message) /\ \A v : e \notin States(v)
      /\ \A s : e \notin News(s)
  BY <1>1, <1>2, Otherwise
<1>4. /\ read \in Steps /\ read.do = "technologies"
      /\ \A a : read # Step("connect", a) /\ read # Step("listen", a)
  BY StepTypes
<1> HIDE DEF read
<1>5. /\ todo' \in Seq(Steps) /\ Ordered(todo')
      /\ \A do : Does(todo', do) <=> do = "technologies"
      /\ \A a : ~Waits(todo', "connect", a) /\ ~Waits(todo', "listen", a)
  BY <1>1, <1>4, StepsOne
<1>6. Types' BY <1>1, <1>2, <1>5, TypesLoop DEF InternetInv, Types
<1>7. Lives' /\ Managing' /\ Alive' /\ LastState' /\ LastTethering'
  BY <1>1, <1>3, <1>5, HandledStays
<1>8. ReadState' BY <1>5 DEF ReadState
<1>9. Serving' BY <1>1, <1>3, ServingStays
<1>10. Leaving' BY <1>1, <1>3, LeavingStays
<1>11. Tethered' BY <1>5 DEF Tethered, Lists
<1> QED BY <1>6, <1>7, <1>8, <1>9, <1>10, <1>11 DEF InternetInv

\* The signals of the manager are lost; those of the daemon's name are not.
LEMMA ManagerLost ==
  ASSUME NEW s \in Seq(Message), NEW there \in BOOLEAN, Life(Message, s, there)
  PROVE  LET w == Without(s, ToManager)
         IN  /\ w \in Seq(Message) /\ NoneIn(w, Managers)
             /\ Life(Message, w, there) /\ (Absent(Message, w, there) <=> Absent(Message, s, there))
<1>1. "Registered" \notin ToManager /\ "Unregistered" \notin ToManager BY DEF ToManager
<1>2. \A e \in Managers : e.on \in ToManager BY DEF Managers
<1> QED BY <1>1, <1>2, QueueWithout, LifeWithout

\* Of a technology only its Tethering may be left.
LEMMA OnlyTetherings ==
  ASSUME NEW s, NoneIn(s, Managers)
  PROVE  \A t, X : LastIn(s, Of(t), Tetherings(t) \cup X)
<1> TAKE t, X
<1>1. Of(t) \subseteq (Tetherings(t) \cup X) \cup Managers
  BY DEF Of, Added, Tetherings, Managers, ToManager
<1> QED BY <1>1, LastAll

\* A daemon that has started is asked for everything.
LEMMA RegisteredHandled == ASSUME InternetInv, OnRegistered PROVE InternetInv'
<1> DEFINE init == Step("init", None)
           w == Without(Tail(q), ToManager)
<1>1. /\ todo = <<>> /\ q # <<>> /\ q' = w /\ Head(q).on = "Registered"
      /\ manager_' = "idle" /\ todo' = <<init>>
      /\ UNCHANGED <<daemon, missed, service_, current_service_, technologies_, tethering_, pub>>
  BY DEF OnRegistered, Handle
<1>2. UNCHANGED <<up, online, techs, sharing, restarted>> BY <1>1 DEF daemon
<1>3. /\ Tail(q) \in Seq(Message) /\ Head(q) \in Message /\ Life(Message, Tail(q), up)
      /\ Absent(Message, Tail(q), up) <=> Head(q) \in Stops(Message)
      /\ ~(up /\ ~restarted) \/ Head(q) \notin Starts(Message)
      /\ up \in BOOLEAN
  BY <1>1, Handling DEF InternetInv, Types
<1>4. Head(q) \in Starts(Message) /\ Head(q) \notin Stops(Message)
  BY <1>1, <1>3 DEF Starts, Stops
<1>5. /\ w \in Seq(Message) /\ NoneIn(w, Managers)
      /\ Life(Message, w, up) /\ ~Absent(Message, w, up)
  BY <1>3, <1>4, ManagerLost
<1> HIDE DEF w
<1>6. init \in Steps /\ init.do = "init" /\ \A a : init # Step("connect", a) /\ init # Step("listen", a)
  BY StepTypes
<1> HIDE DEF init
<1>7. /\ todo' \in Seq(Steps) /\ Ordered(todo')
      /\ \A do : Does(todo', do) <=> do = "init"
      /\ \A a : ~Waits(todo', "connect", a) /\ ~Waits(todo', "listen", a)
  BY <1>1, <1>6, StepsOne
<1>8. Types' BY <1>1, <1>5, <1>7, TypesLoop DEF InternetInv, Types
<1>9. Lives' BY <1>1, <1>2, <1>5 DEF Lives
<1>10. Managing'
  <2>1. ~(~up' /\ q' = <<>>) BY <1>1, <1>2, <1>5 DEF Absent
  <2>2. manager_' # None BY <1>1 DEF None
  <2> QED BY <1>1, <1>5, <1>7, <2>1, <2>2 DEF Managing
<1>11. Alive' /\ Leaving' BY <1>2, <1>3, <1>4 DEF Alive, Leaving
<1>12. LastState'
  <2>1. States("online") \cup States("idle") \subseteq States(State') \cup Managers
    BY DEF States, Managers, ToManager
  <2> QED BY <1>1, <1>5, <2>1, LastAll DEF LastState
<1>13. ReadState' BY <1>7 DEF ReadState
<1>14. Serving' /\ Tethered' BY <1>7 DEF Serving, Tethered, Lists, Connects
<1>15. LastTethering' BY <1>1, <1>5, OnlyTetherings DEF LastTethering
<1> QED BY <1>8, <1>9, <1>10, <1>11, <1>12, <1>13, <1>14, <1>15 DEF InternetInv

\* Of a daemon that has stopped nothing is shown.
LEMMA UnregisteredHandled == ASSUME InternetInv, OnUnregistered PROVE InternetInv'
<1> DEFINE w == Without(Tail(q), ToManager)
<1>1. /\ todo = <<>> /\ q # <<>> /\ q' = w /\ Head(q).on = "Unregistered"
      /\ manager_' = None /\ todo' = <<>> /\ pub' = defaults_
      /\ UNCHANGED <<daemon, missed, service_, current_service_, technologies_, tethering_>>
  BY DEF OnUnregistered, Handle
<1>2. UNCHANGED <<up, online, techs, sharing, restarted>> BY <1>1 DEF daemon
<1>3. /\ Tail(q) \in Seq(Message) /\ Head(q) \in Message /\ Life(Message, Tail(q), up)
      /\ Absent(Message, Tail(q), up) <=> Head(q) \in Stops(Message)
      /\ ~(up /\ ~restarted) \/ Head(q) \notin Stops(Message)
      /\ up \in BOOLEAN
  BY <1>1, Handling DEF InternetInv, Types
<1>4. Head(q) \in Stops(Message) BY <1>1, <1>3 DEF Stops
<1>5. /\ w \in Seq(Message) /\ NoneIn(w, Managers)
      /\ Life(Message, w, up) /\ Absent(Message, w, up)
  BY <1>3, <1>4, ManagerLost
<1> HIDE DEF w
<1>6. Types' BY <1>1, <1>5, StepsNone, Defaults, TypesLoop DEF InternetInv, Types
<1>7. Lives' /\ Absent(Message, q', up') BY <1>1, <1>2, <1>5 DEF Lives
<1>8. up => Restarts'
  <2> SUFFICES ASSUME up PROVE ~NoneIn(w, Starts(Message)) BY <1>1 DEF Restarts
  <2>1. w # <<>> /\ Head(w) \in Starts(Message) BY <1>5 DEF Absent
  <2>2. \A X : NoneIn(w, X) => Head(w) \notin X BY <1>5, <2>1, QueueHandled
  <2> QED BY <2>1, <2>2
<1>9. Managing'
  <2>1. None # "idle" BY DEF None
  <2> QED BY <1>1, <1>5, <1>7, <2>1, StepsNone DEF Managing
<1>10. Alive' /\ Leaving' BY <1>2, <1>3, <1>4 DEF Alive, Leaving
<1>11. LastState' /\ ReadState' BY <1>2, <1>8 DEF LastState, ReadState
<1>12. Serving' /\ Tethered' BY <1>2, <1>8 DEF Serving, Tethered, Lists, Connects
<1>13. LastTethering' BY <1>1, <1>5, OnlyTetherings DEF LastTethering
<1> QED BY <1>6, <1>7, <1>9, <1>10, <1>11, <1>12, <1>13 DEF InternetInv

\* Every handler keeps the invariant.
LEMMA HandlerSteps == ASSUME InternetInv, Handler PROVE InternetInv'
BY StateHandled, ServicesAddedHandled, ServicesRemovedHandled, ServiceStateHandled,
   TechnologyAddedHandled, TetheringHandled, TechnologyRemovedHandled,
   RegisteredHandled, UnregisteredHandled
   DEF Handler

----------------------------------------------------------------------------
(* The steps of a running handler.                                         *)

\* What is left of a queue, or all of it, says the same of the signals that
\* are not lost.
Keeps(w, s, kinds) ==
  /\ w \in Seq(Message)
  /\ \A X : (\A e \in X : e.on \notin kinds) =>
       /\ NoneIn(w, X) <=> NoneIn(s, X)
       /\ \A Y : LastIn(s, X, Y) => LastIn(w, X, Y)
  /\ \A X, Y : (\A e \in Y : e.on \notin kinds) /\ Behind(s, X, Y) => Behind(w, X, Y)
  /\ \A X : NoneIn(s, X) => NoneIn(w, X)

\* What the signals of a proxy that is gone leave in the queue.
LEMMA ProxyLost ==
  ASSUME NEW s \in Seq(Message), NEW kinds
  PROVE  Keeps(s, s, kinds) /\ Keeps(Without(s, kinds), s, kinds)
<1>1. Keeps(s, s, kinds) BY DEF Keeps
<1> DEFINE w == Without(s, kinds)
<1>2. \A X : NoneIn(s, X) => NoneIn(w, X) BY NoneWithout
<1>3. /\ w \in Seq(Message)
      /\ \A X : (\A e \in X : e.on \notin kinds) =>
           /\ NoneIn(w, X) => NoneIn(s, X)
           /\ \A Y : LastIn(s, X, Y) => LastIn(w, X, Y)
  BY QueueWithout
<1>4. \A X, Y : (\A e \in Y : e.on \notin kinds) /\ Behind(s, X, Y) => Behind(w, X, Y)
  BY BehindWithout
<1> HIDE DEF w
<1>5. Keeps(w, s, kinds) BY <1>2, <1>3, <1>4 DEF Keeps
<1> QED BY <1>1, <1>5 DEF w

\* A handler that reads the services or the technologies knows the daemon, and
\* has a manager; what it knows stays.
LEMMA RunningStays ==
  ASSUME InternetInv, todo # <<>>,
         Head(todo).do \in {"services", "connect", "technologies", "follow"},
         NEW kinds \in {{"ServiceState"}, {"Tethering"}}, q' \in {q, Without(q, kinds)},
         UNCHANGED <<manager_, daemon>>, missed => missed',
         \A do : Does(todo', do) => do \notin {"init", "listen", "reset"},
         \A a : ~Waits(todo', "listen", a)
  PROVE  /\ Lives' /\ Managing' /\ Alive' /\ LastState' /\ ReadState'
         /\ Keeps(q', q, kinds)
         /\ Connects => Connects'
         /\ Tail(todo) \in Seq(Steps) /\ Head(todo) \in Steps
         /\ \A do \in {"init", "listen", "reset"} : ~Does(todo, do)
<1>0. UNCHANGED <<manager_, up, online, techs, sharing, restarted>> BY DEF daemon
<1>1. /\ q \in Seq(Message) /\ up \in BOOLEAN /\ manager_ \in {None, "idle", "live"}
      /\ todo \in Seq(Steps) /\ Ordered(todo) /\ Life(Message, q, up)
  BY DEF InternetInv, Types, Lives
<1>2. /\ Tail(todo) \in Seq(Steps) /\ Head(todo) \in Steps
      /\ \A do \in {"init", "listen", "reset"} : ~Does(todo, do)
  BY <1>1, StepsTail, OrderedTail
<1>3. Keeps(q', q, kinds)
  <2>1. Keeps(q, q, kinds) /\ Keeps(Without(q, kinds), q, kinds) BY <1>1, ProxyLost
  <2> QED BY <2>1
<1>4. Life(Message, q', up) /\ (Absent(Message, q', up) <=> Absent(Message, q, up))
  <2> DEFINE w == Without(q, kinds)
  <2>1. Life(Message, w, up) /\ (Absent(Message, w, up) <=> Absent(Message, q, up))
    <3>1. "Registered" \notin kinds /\ "Unregistered" \notin kinds OBVIOUS
    <3> QED BY <1>1, <3>1, LifeWithout
  <2>2. q' = q \/ q' = w OBVIOUS
  <2> HIDE DEF w
  <2> QED BY <1>1, <2>1, <2>2
<1>5. /\ \A e \in Starts(Message) : e.on \notin kinds
      /\ \A v : \A e \in States(v) : e.on \notin kinds
      /\ \A v, u : \A e \in States(v) \cup States(u) : e.on \notin kinds
  BY DEF Starts, States
<1>6. Restarts' <=> Restarts BY <1>3, <1>5 DEF Restarts, Keeps
<1>7. ~(~up /\ q' = <<>>)
  <2> SUFFICES ASSUME ~up, q' = <<>> PROVE FALSE OBVIOUS
  <2>1. Absent(Message, q, up) BY <1>4 DEF Absent
  <2>2. NoneIn(q, Starts(Message)) BY <1>3, <1>5, QueueEmpty DEF Keeps
  <2>3. q # <<>> => Head(q) \notin Starts(Message) BY <1>1, <2>2, QueueHandled
  <2>4. q = <<>> BY <2>1, <2>3 DEF Absent
  <2> QED BY <1>2, <2>4 DEF InternetInv, Managing
<1>8. manager_ # None BY DEF InternetInv, Managing
<1>9. manager_ = "idle" /\ up => Restarts BY <1>2 DEF InternetInv, Managing
<1>10. Managing'
  <2>1. manager_ # "live" => NoneIn(q', Managers)
    BY <1>3 DEF InternetInv, Managing, Keeps
  <2> QED BY <1>0, <1>6, <1>7, <1>8, <1>9, <2>1 DEF Managing
<1>11. Alive'
  <2>1. up /\ ~restarted => /\ NoneIn(q, Starts(Message) \cup Stops(Message))
                            /\ ~Restarts
    BY DEF InternetInv, Alive, Restarts, NoneIn
  <2>2. up /\ ~restarted => NoneIn(q', Starts(Message) \cup Stops(Message))
    BY <1>3, <2>1 DEF Keeps
  <2>3. up /\ ~restarted => manager_ # "idle" BY <1>9, <2>1
  <2> QED BY <1>0, <1>8, <2>2, <2>3 DEF Alive
<1>12. LastState'
  <2>1. State' = State BY <1>0 DEF State
  <2> QED BY <1>0, <1>3, <1>5, <1>6, <2>1 DEF InternetInv, LastState, Keeps
<1>13. ReadState' BY DEF ReadState
<1>14. Connects => Connects'
  <2>1. \A a : Waits(todo, "listen", a) => Does(todo, "listen")
    BY StepTypes DEF Waits, Does
  <2> QED BY <1>2, <1>3, <1>5, <1>6, <2>1 DEF Connects, Keeps
<1>15. Lives' BY <1>0, <1>4 DEF Lives
<1> QED BY <1>2, <1>3, <1>10, <1>11, <1>12, <1>13, <1>14, <1>15

\* What is lost with the proxy of a service does not tell of technologies.
LEMMA ServiceLost ==
  ASSUME NEW s, NEW w, Keeps(w, s, {"ServiceState"})
  PROVE  /\ \A t : /\ NoneIn(w, Of(t)) <=> NoneIn(s, Of(t))
                   /\ NoneIn(w, Added(t)) <=> NoneIn(s, Added(t))
                   /\ \A Y : LastIn(s, Of(t), Y) => LastIn(w, Of(t), Y)
         /\ NoneIn(w, Removals) <=> NoneIn(s, Removals)
         /\ NoneIn(w, States("idle")) <=> NoneIn(s, States("idle"))
         /\ Behind(s, ServiceStates("online"), States("idle")) =>
              Behind(w, ServiceStates("online"), States("idle"))
<1> DEFINE lost == {"ServiceState"}
<1>1. Keeps(w, s, lost) OBVIOUS
<1>2. /\ \A v : \A e \in States(v) : e.on \notin lost
      /\ \A e \in Removals : e.on \notin lost
      /\ \A t : \A e \in Of(t) : e.on \notin lost
      /\ \A t : \A e \in Added(t) : e.on \notin lost
  BY DEF States, Removals, Of, Added, Tetherings
<1> HIDE DEF lost
<1>3. ASSUME NEW X, \A e \in X : e.on \notin lost
      PROVE  (NoneIn(w, X) <=> NoneIn(s, X)) /\ \A Y : LastIn(s, X, Y) => LastIn(w, X, Y)
  BY <1>1, <1>3 DEF Keeps
<1>4. ASSUME NEW t
      PROVE  /\ NoneIn(w, Of(t)) <=> NoneIn(s, Of(t))
             /\ NoneIn(w, Added(t)) <=> NoneIn(s, Added(t))
             /\ \A Y : LastIn(s, Of(t), Y) => LastIn(w, Of(t), Y)
  <2> DEFINE X == Of(t)
             Z == Added(t)
  <2>1. (\A e \in X : e.on \notin lost) /\ \A e \in Z : e.on \notin lost BY <1>2
  <2> HIDE DEF X, Z
  <2>2. /\ NoneIn(w, X) <=> NoneIn(s, X)
        /\ \A Y : LastIn(s, X, Y) => LastIn(w, X, Y)
        /\ NoneIn(w, Z) <=> NoneIn(s, Z)
    BY <1>3, <2>1
  <2> QED BY <2>2 DEF X, Z
<1>5. NoneIn(w, Removals) <=> NoneIn(s, Removals) BY <1>2, <1>3
<1>6. NoneIn(w, States("idle")) <=> NoneIn(s, States("idle")) BY <1>2, <1>3
<1>7. Behind(s, ServiceStates("online"), States("idle")) =>
        Behind(w, ServiceStates("online"), States("idle"))
  BY <1>1, <1>2 DEF Keeps
<1> QED BY <1>4, <1>5, <1>6, <1>7

\* What is lost with the proxies of technologies is no news of a service, and
\* does not tell that a technology was added or removed.
LEMMA TechnologyLost ==
  ASSUME NEW s, NEW w, Keeps(w, s, {"Tethering"})
  PROVE  /\ \A t : NoneIn(w, Added(t)) <=> NoneIn(s, Added(t))
         /\ \A c : NoneIn(w, News(c)) <=> NoneIn(s, News(c))
         /\ NoneIn(w, Removals) <=> NoneIn(s, Removals)
         /\ NoneIn(w, States("idle")) <=> NoneIn(s, States("idle"))
         /\ Behind(s, ServiceStates("online"), States("idle")) =>
              Behind(w, ServiceStates("online"), States("idle"))
<1> DEFINE lost == {"Tethering"}
<1>1. Keeps(w, s, lost) OBVIOUS
<1>2. /\ \A v : \A e \in States(v) : e.on \notin lost
      /\ \A e \in Removals : e.on \notin lost
      /\ \A t : \A e \in Added(t) : e.on \notin lost
      /\ \A c : \A e \in News(c) : e.on \notin lost
  BY DEF States, Removals, Added, News
<1> HIDE DEF lost
<1>3. ASSUME NEW X, \A e \in X : e.on \notin lost PROVE NoneIn(w, X) <=> NoneIn(s, X)
  BY <1>1, <1>3 DEF Keeps
<1>4. ASSUME NEW t PROVE NoneIn(w, Added(t)) <=> NoneIn(s, Added(t))
  <2> DEFINE X == Added(t)
  <2>1. \A e \in X : e.on \notin lost BY <1>2
  <2> HIDE DEF X
  <2>2. NoneIn(w, X) <=> NoneIn(s, X) BY <1>3, <2>1
  <2> QED BY <2>2 DEF X
<1>5. ASSUME NEW c PROVE NoneIn(w, News(c)) <=> NoneIn(s, News(c))
  <2> DEFINE X == News(c)
  <2>1. \A e \in X : e.on \notin lost BY <1>2
  <2> HIDE DEF X
  <2>2. NoneIn(w, X) <=> NoneIn(s, X) BY <1>3, <2>1
  <2> QED BY <2>2 DEF X
<1>6. NoneIn(w, Removals) <=> NoneIn(s, Removals) BY <1>2, <1>3
<1>7. NoneIn(w, States("idle")) <=> NoneIn(s, States("idle")) BY <1>2, <1>3
<1>8. Behind(s, ServiceStates("online"), States("idle")) =>
        Behind(w, ServiceStates("online"), States("idle"))
  BY <1>1, <1>2 DEF Keeps
<1> QED BY <1>4, <1>5, <1>6, <1>7, <1>8

\* The properties are reset when no service is on line.
LEMMA ResetRun == ASSUME InternetInv, ResetProperties PROVE InternetInv'
<1>1. /\ todo # <<>> /\ Head(todo).do = "reset" /\ pub' = defaults_ /\ todo' = Tail(todo)
      /\ UNCHANGED <<manager_, service_, current_service_, technologies_, tethering_,
                     daemon, missed, q>>
  BY DEF ResetProperties, Doing
<1>2. UNCHANGED <<up, online, techs, sharing, restarted>> BY <1>1 DEF daemon
<1>3. todo \in Seq(Steps) /\ Ordered(todo) /\ q \in Seq(Message) /\ missed \in BOOLEAN
  BY DEF InternetInv, Types
<1>4. Does(todo, "reset") /\ todo' = <<>> BY <1>1, <1>3, StepsTail, OrderedTail
<1>5. manager_ = "live" BY <1>4 DEF InternetInv, Managing
<1>6. manager_ # None /\ manager_ # "idle" BY <1>5 DEF None
<1>7. Types'
  <2>1. pub' = [f \in Fields |-> pub'[f]] BY <1>1, Defaults
  <2>2. todo' \in Seq(Steps) /\ Ordered(todo') /\ \A s : ~Waits(todo', "connect", s)
    BY <1>4, StepsNone
  <2>3. /\ manager_' \in {None, "idle", "live"} /\ missed' \in BOOLEAN /\ q' \in Seq(Message)
        /\ service_' \in Services \cup {None} /\ current_service_' \in Services \cup {None}
        /\ technologies_' \in SUBSET Technologies /\ tethering_' \in SUBSET Technologies
    BY <1>1 DEF InternetInv, Types
  <2> QED BY <1>1, <2>1, <2>2, <2>3, TypesLoop DEF InternetInv
<1>8. Lives' BY <1>1, <1>2 DEF InternetInv, Lives
<1>9. Restarts' <=> Restarts BY <1>1 DEF Restarts
<1>10. Managing' BY <1>1, <1>2, <1>4, <1>5, <1>6, StepsNone DEF InternetInv, Managing
<1>11. Alive' BY <1>1, <1>2, <1>6 DEF InternetInv, Alive
<1>12. LastState'
  <2>1. State' = State BY <1>2 DEF State
  <2> QED BY <1>1, <1>2, <1>9, <2>1 DEF InternetInv, LastState
<1>13. ReadState' BY <1>4, StepsNone DEF ReadState
<1>14. up /\ ~missed /\ online # {} => Connects'
  BY <1>1, <1>4, <1>9 DEF InternetInv, ReadState, Connects
<1>15. Serving' /\ Tethered' BY <1>1, <1>2, <1>14 DEF Serving, Tethered, Lists
<1>16. Leaving' BY <1>1, <1>2, Defaults DEF InternetInv, Leaving
<1>17. LastTethering' BY <1>1, <1>2 DEF InternetInv, LastTethering
<1> QED
  BY <1>7, <1>8, <1>10, <1>11, <1>12, <1>13, <1>15, <1>16, <1>17 DEF InternetInv

\* GetProperties reads the State, to connect to the manager.
LEMMA GetPropertiesRun == ASSUME InternetInv, GetProperties PROVE InternetInv'
<1>1. /\ todo # <<>> /\ Head(todo).do = "init"
      /\ todo' = IF up THEN <<Step("listen", State)>> ELSE <<>>
      /\ UNCHANGED <<manager_, service_, current_service_, technologies_, tethering_,
                     pub, daemon, missed, q>>
  BY DEF GetProperties, Doing
<1>2. UNCHANGED <<up, online, techs, sharing, restarted>> BY <1>1 DEF daemon
<1>3. todo \in Seq(Steps) /\ Ordered(todo) /\ q \in Seq(Message) /\ missed \in BOOLEAN
  BY DEF InternetInv, Types
<1>4. /\ Does(todo, "init") /\ \A do : Does(todo, do) => do = "init"
      /\ \A v : ~Waits(todo, "listen", v)
  <2>1. Tail(todo) = <<>> BY <1>1, <1>3, OrderedTail
  <2>2. \A do : Does(todo, do) <=> do = "init" BY <1>1, <1>3, <2>1, StepsTail, StepsNone
  <2>3. \A v : Waits(todo, "listen", v) => Does(todo, "listen") BY StepTypes DEF Waits, Does
  <2> QED BY <2>2, <2>3
<1>5. manager_ = "idle" /\ manager_ # None BY <1>4 DEF InternetInv, Managing, None
<1>6. State \in {"online", "idle"} /\ State' = State BY <1>2 DEF State
<1>7. /\ todo' \in Seq(Steps) /\ Ordered(todo')
      /\ \A do : Does(todo', do) <=> up /\ do = "listen"
      /\ \A v : Waits(todo', "listen", v) <=> up /\ v = State
      /\ \A s : ~Waits(todo', "connect", s)
  <2> DEFINE x == Step("listen", State)
  <2>1. /\ x \in Steps /\ x.do = "listen" /\ \A v : x = Step("listen", v) <=> v = State
        /\ \A s : x # Step("connect", s)
    BY <1>6, StepTypes
  <2>2. todo' = IF up THEN <<x>> ELSE <<>> BY <1>1
  <2> HIDE DEF x
  <2>3. CASE up BY <2>1, <2>2, <2>3, StepsOne
  <2>4. CASE ~up BY <2>2, <2>4, StepsNone
  <2> QED BY <2>3, <2>4
<1>8. ~up => todo' = <<>> BY <1>1
<1>9. Types' BY <1>1, <1>3, <1>7, TypesLoop DEF InternetInv, Types
<1>10. Lives' BY <1>1, <1>2 DEF InternetInv, Lives
<1>11. Restarts' <=> Restarts BY <1>1 DEF Restarts
<1>12. Managing' BY <1>1, <1>2, <1>5, <1>7, <1>8, <1>11 DEF InternetInv, Managing
<1>13. Alive' BY <1>1, <1>2 DEF InternetInv, Alive
<1>14. LastState' BY <1>1, <1>2, <1>6, <1>11 DEF InternetInv, LastState
<1>15. ReadState' BY <1>6, <1>7 DEF ReadState
<1>16. up /\ online # {} => Connects' BY <1>7 DEF Connects, State
<1>17. Serving' /\ Tethered' BY <1>1, <1>2, <1>16 DEF Serving, Tethered, Lists
<1>18. Leaving' BY <1>1, <1>2, <1>4 DEF InternetInv, Leaving
<1>19. LastTethering' BY <1>1, <1>2 DEF InternetInv, LastTethering
<1> QED
  BY <1>9, <1>10, <1>12, <1>13, <1>14, <1>15, <1>17, <1>18, <1>19 DEF InternetInv

\* The bridge connects to the manager and goes by the State that it read.
LEMMA ListenRun == ASSUME InternetInv, Listen PROVE InternetInv'
<1> DEFINE v == Head(todo).arg
<1>1. /\ todo # <<>> /\ Head(todo).do = "listen" /\ manager_' = "live"
      /\ todo' = process_state(v)
      /\ UNCHANGED <<service_, current_service_, technologies_, tethering_,
                     pub, daemon, missed, q>>
  BY DEF Listen, Doing, arg
<1>2. UNCHANGED <<up, online, techs, sharing, restarted>> BY <1>1 DEF daemon
<1>3. todo \in Seq(Steps) /\ Ordered(todo) /\ q \in Seq(Message) /\ missed \in BOOLEAN
  BY DEF InternetInv, Types
<1>4. /\ v \in {"online", "idle"} /\ Waits(todo, "listen", v)
      /\ Does(todo, "listen") /\ \A do : Does(todo, do) => do = "listen"
  BY <1>1, <1>3, StepsTail, OrderedTail, StepsNone, StepContents
<1> HIDE DEF v
<1>5. manager_ = "idle" /\ manager_' # None /\ manager_' # "idle"
  BY <1>1, <1>4 DEF InternetInv, Managing, None
<1>6. /\ todo' \in Seq(Steps) /\ Ordered(todo') /\ todo' # <<>>
      /\ v = "online" => /\ Does(todo', "services") /\ Does(todo', "technologies")
                         /\ \A do : Does(todo', do) => do \in {"services", "technologies"}
      /\ v = "idle" => \A do : Does(todo', do) <=> do = "reset"
      /\ \A a : ~Waits(todo', "listen", a) /\ ~Waits(todo', "connect", a)
                /\ ~Waits(todo', "follow", a)
  BY <1>1, <1>4, StepsOfState
<1>7. ~Does(todo', "init") /\ ~Does(todo', "listen") BY <1>4, <1>6
<1>8. up /\ ~missed /\ ~Restarts => v = State BY <1>4 DEF InternetInv, ReadState
<1>9. Types' BY <1>1, <1>3, <1>6, TypesLoop DEF InternetInv, Types
<1>10. Lives' BY <1>1, <1>2 DEF InternetInv, Lives
<1>11. Restarts' <=> Restarts BY <1>1 DEF Restarts
<1>12. Managing'
  <2>1. ~(~up /\ q = <<>>) BY <1>4, <1>5, StepsNone DEF InternetInv, Managing, None
  <2> QED BY <1>1, <1>2, <1>5, <1>7, <2>1 DEF Managing
<1>13. Alive' BY <1>1, <1>2, <1>5 DEF InternetInv, Alive
<1>14. LastState'
  <2>1. State' = State BY <1>2 DEF State
  <2> QED BY <1>1, <1>2, <1>11, <2>1 DEF InternetInv, LastState
<1>15. ReadState'
  <2>1. Does(todo', "reset") => v = "idle" BY <1>4, <1>6
  <2>2. State = "idle" => online = {} BY DEF State
  <2> QED BY <1>1, <1>2, <1>6, <1>8, <1>11, <2>1, <2>2 DEF ReadState
<1>16. up /\ ~missed /\ online # {} => Restarts' \/ v = "online"
  BY <1>8, <1>11 DEF State
<1>17. Serving' /\ Tethered'
  BY <1>1, <1>2, <1>6, <1>16 DEF Serving, Tethered, Lists, Connects
<1>18. Leaving'
  <2>1. up /\ ~restarted => q = <<>> /\ pub = defaults_ BY <1>5 DEF InternetInv, Alive
  <2>2. up /\ ~restarted /\ ~missed /\ online = {} =>
          Behind(q, ServiceStates("online"), States("idle"))
    BY DEF InternetInv, Leaving
  <2> QED BY <1>1, <1>2, <2>1, <2>2, Defaults DEF Leaving
<1>19. LastTethering' BY <1>1, <1>2 DEF InternetInv, LastTethering
<1> QED
  BY <1>9, <1>10, <1>12, <1>13, <1>14, <1>15, <1>17, <1>18, <1>19 DEF InternetInv

\* The services are read: the first that is on line is shown, and followed next.
LEMMA ServicesRun == ASSUME InternetInv, ProcessServices PROVE InternetInv'
<1> DEFINE s == first_online(services, online)
           lost == {"ServiceState"}
<1>1. /\ todo # <<>> /\ Head(todo).do = "services" /\ service_' = None
      /\ q' = Without(q, lost)
      /\ UNCHANGED <<manager_, technologies_, tethering_, daemon, missed>>
      /\ up /\ s # None =>
           /\ current_service_' = s
           /\ pub' = [NetworkType |-> net_type(TypeOf[s]), NetworkState |-> "connected",
                      NetworkName |-> s, Tethering |-> pub.Tethering]
           /\ todo' = <<Step("connect", s)>> \o Tail(todo)
      /\ ~(up /\ s # None) =>
           /\ current_service_' = None
           /\ pub' = IF up /\ services = <<>> THEN defaults_ ELSE pub
           /\ todo' = Tail(todo)
  BY DEF ProcessServices, Doing
<1>2. UNCHANGED <<up, services, online, techs, sharing, restarted>> BY <1>1 DEF daemon
<1>3. /\ todo \in Seq(Steps) /\ Ordered(todo) /\ q \in Seq(Message) /\ missed \in BOOLEAN
      /\ services \in Seq(Services) /\ online \subseteq Services
      /\ \A x \in online : \E i \in 1..Len(services) : services[i] = x
      /\ pub = [f \in Fields |-> pub[f]]
  BY DEF InternetInv, Types
<1>4. /\ s # None => s \in online
      /\ s = None => online = {}
  <2> DEFINE T == {i \in 1..Len(services) : services[i] \in online}
  <2>1. T \in SUBSET Nat /\ \A i \in T : services[i] \in online OBVIOUS
  <2>2. s = IF T = {} THEN None ELSE services[CHOOSE i \in T : \A j \in T : i <= j]
    BY DEF first_online
  <2>3. T = {} => online = {} BY <1>3
  <2> HIDE DEF T, s
  <2>4. T # {} => s \in online
    <3> SUFFICES ASSUME T # {} PROVE s \in online OBVIOUS
    <3>1. \E i \in T : \A j \in T : i <= j BY <2>1, Least
    <3>2. (CHOOSE i \in T : \A j \in T : i <= j) \in T BY <3>1
    <3> QED BY <2>1, <2>2, <3>2
  <2>5. None \notin online BY <1>3, ConnmanAssumption
  <2> QED BY <2>2, <2>3, <2>4, <2>5
<1> HIDE DEF s
<1>5. /\ Tail(todo) \in Seq(Steps) /\ Ordered(Tail(todo))
      /\ \A do : Does(Tail(todo), do) => do = "technologies"
      /\ \A do : Does(todo, do) <=> Does(Tail(todo), do) \/ do = "services"
  BY <1>1, <1>3, StepsTail, OrderedTail
<1>6. /\ todo' \in Seq(Steps) /\ Ordered(todo')
      /\ \A do : Does(todo', do) => do \in {"connect", "technologies"}
      /\ Does(todo, "technologies") => Does(todo', "technologies")
      /\ \A a : ~Waits(todo', "listen", a)
      /\ \A x : Waits(todo', "connect", x) => x = current_service_'
      /\ up /\ s # None => Waits(todo', "connect", s)
  <2>1. \A do, a : Waits(Tail(todo), do, a) => Does(Tail(todo), do)
    BY StepTypes DEF Waits, Does
  <2>2. CASE up /\ s # None
    <3>1. s \in Services BY <1>3, <1>4, <2>2
    <3> DEFINE r == Tail(todo)
               u == <<Step("connect", s)>> \o r
    <3>0. r \in Seq(Steps) /\ Ordered(r) /\ \A do : Does(r, do) => do = "technologies"
      BY <1>5
    <3> HIDE DEF r
    <3>3. /\ u \in Seq(Steps) /\ Ordered(u)
          /\ \A do : Does(u, do) <=> do = "connect" \/ Does(r, do)
          /\ \A do, a : Waits(u, do, a) <=> (do = "connect" /\ a = s) \/ Waits(r, do, a)
      BY <3>0, <3>1, StepsConnect
    <3>4. todo' = u BY <1>1, <2>2 DEF r
    <3> HIDE DEF u
    <3>2. /\ todo' \in Seq(Steps) /\ Ordered(todo')
          /\ \A do : Does(todo', do) <=> do = "connect" \/ Does(Tail(todo), do)
          /\ \A do, a : Waits(todo', do, a) <=>
               (do = "connect" /\ a = s) \/ Waits(Tail(todo), do, a)
      BY <3>3, <3>4 DEF r
    <3> QED BY <1>1, <1>5, <2>1, <2>2, <3>2
  <2>3. CASE ~(up /\ s # None) BY <1>1, <1>5, <2>1, <2>3
  <2> QED BY <2>2, <2>3
<1>7. /\ Lives' /\ Managing' /\ Alive' /\ LastState' /\ ReadState'
      /\ Keeps(q', q, lost)
      /\ Connects => Connects'
      /\ \A do \in {"init", "listen", "reset"} : ~Does(todo, do)
  <2>1. lost \in {{"ServiceState"}, {"Tethering"}} /\ q' \in {q, Without(q, lost)} BY <1>1
  <2> HIDE DEF lost
  <2> QED BY <1>1, <1>6, <2>1, RunningStays
<1>8. /\ \A t : /\ NoneIn(q', Of(t)) <=> NoneIn(q, Of(t))
                /\ NoneIn(q', Added(t)) <=> NoneIn(q, Added(t))
                /\ \A Y : LastIn(q, Of(t), Y) => LastIn(q', Of(t), Y)
      /\ NoneIn(q', Removals) <=> NoneIn(q, Removals)
      /\ NoneIn(q', States("idle")) <=> NoneIn(q, States("idle"))
      /\ Behind(q, ServiceStates("online"), States("idle")) =>
           Behind(q', ServiceStates("online"), States("idle"))
  <2>1. Keeps(q', q, {"ServiceState"}) BY <1>7
  <2> QED BY <2>1, ServiceLost
<1> HIDE DEF lost
<1>9. /\ pub' = [f \in Fields |-> pub'[f]]
      /\ online # {} \/ services # <<>> => pub'.Tethering = pub.Tethering
      /\ up /\ s # None => /\ pub'.NetworkState = "connected" /\ pub'.NetworkName = s
                           /\ pub'.NetworkType = net_type(TypeOf[s])
      /\ ~(up /\ s # None) => pub' \in {pub, defaults_}
  <2>1. services = <<>> => online = {} BY <1>3
  <2>2. CASE up /\ s # None
    <3>1. pub' = [NetworkType |-> net_type(TypeOf[s]), NetworkState |-> "connected",
                  NetworkName |-> s, Tethering |-> pub.Tethering]
      BY <1>1, <2>2
    <3>2. /\ pub' = [f \in Fields |-> pub'[f]]
          /\ pub'.NetworkType = net_type(TypeOf[s]) /\ pub'.NetworkState = "connected"
          /\ pub'.NetworkName = s /\ pub'.Tethering = pub.Tethering
      BY <3>1, Record, Zenon
    <3> QED BY <2>2, <3>2
  <2>3. CASE ~(up /\ s # None) BY <1>1, <1>3, <1>4, <2>1, <2>3, Defaults
  <2> QED BY <2>2, <2>3
<1>10. Types'
  <2>1. current_service_' \in Services \cup {None} BY <1>1, <1>3, <1>4
  <2>2. q' \in Seq(Message) BY <1>7 DEF Keeps
  <2> QED BY <1>1, <1>3, <1>6, <1>9, <2>1, <2>2, TypesLoop DEF InternetInv, Types
<1>11. Serving' BY <1>1, <1>2, <1>4, <1>6, <1>9 DEF Serving, Shows
<1>12. Leaving'
  <2> SUFFICES ASSUME up, ~restarted, ~missed, online = {}
               PROVE  /\ Behind(q', ServiceStates("online"), States("idle"))
                      /\ ~NoneIn(q', States("idle")) \/ pub'.NetworkState # "connected"
    BY <1>1, <1>2 DEF Leaving
  <2>1. /\ Behind(q, ServiceStates("online"), States("idle"))
        /\ ~NoneIn(q, States("idle")) \/ pub.NetworkState # "connected"
    BY <1>7 DEF InternetInv, Leaving
  <2>2. /\ Behind(q', ServiceStates("online"), States("idle"))
        /\ NoneIn(q', States("idle")) <=> NoneIn(q, States("idle"))
    BY <1>8, <2>1
  <2>3. pub' \in {pub, defaults_} BY <1>4, <1>9
  <2> QED BY <2>1, <2>2, <2>3, Defaults
<1>13. LastTethering' BY <1>1, <1>2, <1>8 DEF InternetInv, LastTethering
<1>14. Tethered'
  <2> SUFFICES ASSUME up, ~missed, online # {}, ~Lists'
               PROVE  /\ \A t \in techs :
                           /\ Followed(t)'
                           /\ LastIn(q', Of(t), Right(t, t \in sharing))
                           /\ NoneIn(q', Of(t)) => (t \in tethering_ <=> t \in sharing)
                      /\ techs # {} => \/ \E t \in Technologies : ~NoneIn(q', Added(t))
                                       \/ pub'.Tethering = tethering_
    BY <1>1, <1>2 DEF Tethered
  <2>1. ~Lists BY <1>6, <1>7, <1>8 DEF Lists
  <2>2. /\ \A t \in techs : /\ Followed(t)
                            /\ LastIn(q, Of(t), Right(t, t \in sharing))
                            /\ NoneIn(q, Of(t)) => (t \in tethering_ <=> t \in sharing)
        /\ techs # {} => \/ \E t \in Technologies : ~NoneIn(q, Added(t))
                         \/ pub.Tethering = tethering_
    BY <2>1 DEF InternetInv, Tethered
  <2>3. \A t : ~Waits(todo, "follow", t)
    <3>1. \A t : Waits(todo, "follow", t) => Does(todo, "follow")
      BY StepTypes DEF Waits, Does
    <3> QED BY <1>5, <3>1
  <2>4. \A t : Followed(t) => Followed(t)' BY <1>1, <1>8, <2>3 DEF Followed
  <2>5. ASSUME NEW t \in techs
        PROVE  /\ Followed(t)'
               /\ LastIn(q', Of(t), Right(t, t \in sharing))
               /\ NoneIn(q', Of(t)) => (t \in tethering_ <=> t \in sharing)
    BY <1>8, <2>2, <2>4
  <2>6. techs # {} => \/ \E t \in Technologies : ~NoneIn(q', Added(t))
                      \/ pub'.Tethering = tethering_
    BY <1>8, <1>9, <2>2
  <2> QED BY <2>5, <2>6
<1> QED BY <1>7, <1>10, <1>11, <1>12, <1>13, <1>14 DEF InternetInv

\* The bridge follows the service that is shown.
LEMMA ConnectRun == ASSUME InternetInv, Connect PROVE InternetInv'
<1> DEFINE s == Head(todo).arg
<1>1. /\ todo # <<>> /\ Head(todo).do = "connect" /\ service_' = s /\ todo' = Tail(todo)
      /\ UNCHANGED <<manager_, current_service_, technologies_, tethering_,
                     pub, daemon, missed, q>>
  BY DEF Connect, Doing, arg
<1>2. UNCHANGED <<up, online, techs, sharing, restarted>> BY <1>1 DEF daemon
<1>3. todo \in Seq(Steps) /\ Ordered(todo) /\ q \in Seq(Message) /\ missed \in BOOLEAN
  BY DEF InternetInv, Types
<1>4. /\ todo' \in Seq(Steps) /\ Ordered(todo')
      /\ \A do : Does(todo', do) => do = "technologies"
      /\ \A do : Does(todo, do) <=> Does(todo', do) \/ do = "connect"
      /\ s \in Services /\ Waits(todo, "connect", s)
  BY <1>1, <1>3, StepsTail, OrderedTail, StepContents
<1>5. s = current_service_ BY <1>4 DEF InternetInv, Types
<1> HIDE DEF s
<1>6. /\ \A a : ~Waits(todo', "listen", a) /\ ~Waits(todo', "connect", a)
      /\ \A t : ~Waits(todo, "follow", t)
  <2>1. \A z, do, a : Waits(z, do, a) => Does(z, do) BY StepTypes DEF Waits, Does
  <2> QED BY <1>4, <2>1
<1>7. /\ Lives' /\ Managing' /\ Alive' /\ LastState' /\ ReadState'
      /\ Connects => Connects'
  <2> DEFINE lost == {"Tethering"}
  <2>1. \A do : Does(todo', do) => do \notin {"init", "listen", "reset"} BY <1>4
  <2>2. lost \in {{"ServiceState"}, {"Tethering"}} /\ q' \in {q, Without(q, lost)} BY <1>1
  <2>3. /\ todo # <<>> /\ missed' = missed /\ UNCHANGED <<manager_, daemon>>
        /\ Head(todo).do \in {"services", "connect", "technologies", "follow"}
    BY <1>1
  <2> HIDE DEF lost
  <2>4. /\ Lives' /\ Managing' /\ Alive' /\ LastState' /\ ReadState'
        /\ Keeps(q', q, lost)
        /\ Connects => Connects'
    BY <1>6, <2>1, <2>2, <2>3, RunningStays
  <2> QED BY <2>4
<1>8. Types' BY <1>1, <1>3, <1>4, <1>6, TypesLoop DEF InternetInv, Types
<1>9. Serving' BY <1>1, <1>2, <1>4, <1>5, <1>7 DEF InternetInv, Serving, Shows
<1>10. Leaving' BY <1>1, <1>2, <1>4 DEF InternetInv, Leaving
<1>11. LastTethering' BY <1>1, <1>2 DEF InternetInv, LastTethering
<1>12. Tethered'
  <2>1. Lists => Lists' BY <1>1, <1>4, <1>7 DEF Lists
  <2>2. \A t : Followed(t) => Followed(t)' BY <1>1, <1>6 DEF Followed
  <2> QED BY <1>1, <1>2, <2>1, <2>2 DEF InternetInv, Tethered
<1> QED BY <1>7, <1>8, <1>9, <1>10, <1>11, <1>12 DEF InternetInv

\* The bridge follows a technology.
LEMMA FollowRun == ASSUME InternetInv, Follow PROVE InternetInv'
<1> DEFINE p == Head(todo).arg
<1>1. /\ todo # <<>> /\ Head(todo).do = "follow" /\ todo' = Tail(todo)
      /\ technologies_' = technologies_ \cup {p}
      /\ UNCHANGED <<manager_, service_, current_service_, tethering_,
                     pub, daemon, missed, q>>
  BY DEF Follow, Doing, arg
<1>2. UNCHANGED <<up, online, techs, sharing, restarted>> BY <1>1 DEF daemon
<1>3. todo \in Seq(Steps) /\ Ordered(todo) /\ q \in Seq(Message) /\ missed \in BOOLEAN
  BY DEF InternetInv, Types
<1>4. /\ todo' \in Seq(Steps) /\ Ordered(todo') /\ Head(todo) = Step("follow", p)
      /\ \A do : Does(todo, do) => do = "follow"
      /\ \A do : Does(todo', do) => do = "follow"
      /\ \A do, a : Waits(todo, do, a) <=> Waits(todo', do, a) \/ Head(todo) = Step(do, a)
      /\ p \in Technologies
  BY <1>1, <1>3, StepsTail, OrderedTail, StepContents
<1> HIDE DEF p
<1>5. \A t : Waits(todo, "follow", t) => Waits(todo', "follow", t) \/ t = p
  <2>1. \A t : Step("follow", p) = Step("follow", t) => t = p BY StepTypes
  <2> QED BY <1>4, <2>1
<1>6. \A a : /\ ~Waits(todo', "listen", a) /\ ~Waits(todo', "connect", a)
             /\ ~Waits(todo, "connect", a)
  <2>1. \A z, do, a : Waits(z, do, a) => Does(z, do) BY StepTypes DEF Waits, Does
  <2> QED BY <1>4, <2>1
<1>7. /\ Lives' /\ Managing' /\ Alive' /\ LastState' /\ ReadState'
      /\ Connects => Connects'
  <2> DEFINE lost == {"Tethering"}
  <2>1. \A do : Does(todo', do) => do \notin {"init", "listen", "reset"} BY <1>4
  <2>2. lost \in {{"ServiceState"}, {"Tethering"}} /\ q' \in {q, Without(q, lost)} BY <1>1
  <2>3. /\ todo # <<>> /\ missed' = missed /\ UNCHANGED <<manager_, daemon>>
        /\ Head(todo).do \in {"services", "connect", "technologies", "follow"}
    BY <1>1
  <2> HIDE DEF lost
  <2>4. /\ Lives' /\ Managing' /\ Alive' /\ LastState' /\ ReadState'
        /\ Keeps(q', q, lost)
        /\ Connects => Connects'
    BY <1>6, <2>1, <2>2, <2>3, RunningStays
  <2> QED BY <2>4
<1>8. Types' BY <1>1, <1>3, <1>4, <1>6, TypesLoop DEF InternetInv, Types
<1>9. Serving' BY <1>1, <1>2, <1>4, <1>6, <1>7 DEF InternetInv, Serving, Shows
<1>10. Leaving' BY <1>1, <1>2, <1>4 DEF InternetInv, Leaving
<1>11. LastTethering' BY <1>1, <1>2 DEF InternetInv, LastTethering
<1>12. Tethered'
  <2>1. Lists => Lists' BY <1>1, <1>4, <1>7 DEF Lists
  <2>2. \A t : Followed(t) => Followed(t)' BY <1>1, <1>5 DEF Followed
  <2> QED BY <1>1, <1>2, <2>1, <2>2 DEF InternetInv, Tethered
<1> QED BY <1>7, <1>8, <1>9, <1>10, <1>11, <1>12 DEF InternetInv

\* The technologies are read, to be followed one after another.
LEMMA TechnologiesRun == ASSUME InternetInv, ProcessTechnologies PROVE InternetInv'
<1> DEFINE lost == {"Tethering"}
           late == \E i \in 1..Len(q) : q[i].on = "Tethering" /\ Announced(q[i].path)
           follows == [i \in 1..Cardinality(techs) |-> Step("follow", SetToSeq(techs)[i])]
<1>1. /\ todo # <<>> /\ Head(todo).do = "technologies" /\ technologies_' = {}
      /\ q' = Without(q, lost) /\ missed' = (missed \/ late)
      /\ UNCHANGED <<manager_, service_, current_service_, daemon>>
      /\ up /\ techs # {} => /\ tethering_' = tethered(techs, sharing)
                             /\ pub' = [pub EXCEPT !.Tethering = tethering_']
                             /\ todo' = follows \o Tail(todo)
      /\ ~(up /\ techs # {}) => /\ todo' = Tail(todo)
                                /\ UNCHANGED <<tethering_, pub>>
  BY DEF ProcessTechnologies, Doing
<1>2. UNCHANGED <<up, services, online, techs, sharing, restarted>> BY <1>1 DEF daemon
<1>3. /\ todo \in Seq(Steps) /\ Ordered(todo) /\ q \in Seq(Message)
      /\ techs \in SUBSET Technologies /\ tethering_ \in SUBSET Technologies
      /\ pub = [f \in Fields |-> pub[f]]
  BY DEF InternetInv, Types
<1>4. missed' \in BOOLEAN /\ (missed => missed') /\ (late => missed') BY <1>1
<1>5. /\ Tail(todo) = <<>>
      /\ \A do \in {"init", "listen", "reset", "services", "connect"} : ~Does(todo, do)
  BY <1>1, <1>3, OrderedTail
<1>6. /\ todo' \in Seq(Steps) /\ Ordered(todo')
      /\ \A do : Does(todo', do) => do = "follow"
      /\ up => \A t \in techs : Waits(todo', "follow", t)
      /\ \A do, a : Waits(todo', do, a) => do = "follow"
  <2>1. CASE up /\ techs # {}
    <3> DEFINE u == follows \o <<>>
    <3>1. /\ u \in Seq(Steps) /\ Ordered(u)
          /\ \A do : Does(u, do) => do = "follow"
          /\ \A t \in techs : Waits(u, "follow", t)
          /\ \A do, a : Waits(u, do, a) => do = "follow"
      BY <1>3, StepsFollow
    <3>2. todo' = u BY <1>1, <1>5, <2>1
    <3> HIDE DEF u
    <3> QED BY <3>1, <3>2
  <2>2. CASE ~(up /\ techs # {})
    <3>1. todo' = <<>> BY <1>1, <1>5, <2>2
    <3>2. /\ todo' \in Seq(Steps) /\ Ordered(todo')
          /\ \A do : ~Does(todo', do)
          /\ \A do, a : ~Waits(todo', do, a)
      BY <3>1, StepsNone
    <3>3. up => techs = {} BY <2>2
    <3> QED BY <3>2, <3>3
  <2> QED BY <2>1, <2>2
<1>7. /\ Lives' /\ Managing' /\ Alive' /\ LastState' /\ ReadState'
      /\ Keeps(q', q, lost)
      /\ Connects => Connects'
  <2>1. lost \in {{"ServiceState"}, {"Tethering"}} /\ q' \in {q, Without(q, lost)} BY <1>1
  <2>2. /\ \A do : Does(todo', do) => do \notin {"init", "listen", "reset"}
        /\ \A a : ~Waits(todo', "listen", a)
    BY <1>6
  <2>3. UNCHANGED <<manager_, daemon>> BY <1>1
  <2> HIDE DEF lost
  <2> QED BY <1>1, <1>4, <2>1, <2>2, <2>3, RunningStays
<1>8. /\ \A t : NoneIn(q', Added(t)) <=> NoneIn(q, Added(t))
      /\ \A c : NoneIn(q', News(c)) <=> NoneIn(q, News(c))
      /\ NoneIn(q', Removals) <=> NoneIn(q, Removals)
      /\ NoneIn(q', States("idle")) <=> NoneIn(q, States("idle"))
      /\ Behind(q, ServiceStates("online"), States("idle")) =>
           Behind(q', ServiceStates("online"), States("idle"))
  BY <1>7, TechnologyLost
<1>9. \A t : NoneIn(q', Tetherings(t))
  <2>1. \A t : \A e \in Tetherings(t) : e.on \in lost BY DEF Tetherings
  <2> HIDE DEF lost
  <2> QED BY <1>1, <1>3, <2>1, QueueWithout
<1>10. /\ tethering_' \in SUBSET Technologies
       /\ up => \A t \in techs : t \in tethering_' <=> t \in sharing
  BY <1>1, <1>3 DEF tethered
<1>11. /\ pub' = [f \in Fields |-> pub'[f]]
       /\ UNCHANGED <<pub.NetworkState, pub.NetworkName, pub.NetworkType>>
       /\ up /\ techs # {} => pub'.Tethering = tethering_'
  <2>1. {"NetworkState", "NetworkName", "NetworkType", "Tethering"} \subseteq Fields
    BY DEF Fields
  <2>2. CASE up /\ techs # {}
    <3>1. pub' = [pub EXCEPT !.Tethering = tethering_'] BY <1>1, <2>2
    <3> QED BY <1>3, <2>1, <3>1, FieldReplaced
  <2>3. CASE ~(up /\ techs # {}) BY <1>1, <1>3, <2>3
  <2> QED BY <2>2, <2>3
<1>12. Types'
  <2>1. q' \in Seq(Message) BY <1>7 DEF Keeps
  <2>2. \A s \in Services : ~Waits(todo', "connect", s) BY <1>6
  <2> HIDE DEF lost, late, follows
  <2> QED BY <1>1, <1>4, <1>6, <1>10, <1>11, <2>1, <2>2, TypesLoop DEF InternetInv, Types
<1>13. Serving'
  <2> SUFFICES ASSUME up, ~missed, online # {}, ~Connects', NoneIn(q', News(current_service_))
               PROVE  /\ current_service_ \in online
                      /\ pub'.NetworkState = "connected" /\ pub'.NetworkName = current_service_
                      /\ pub'.NetworkType = net_type(TypeOf[current_service_])
                      /\ service_ = current_service_
    BY <1>1, <1>2, <1>4 DEF Serving, Shows
  <2>1. \A a : Waits(todo, "connect", a) => Does(todo, "connect")
    BY StepTypes DEF Waits, Does
  <2> QED BY <1>5, <1>7, <1>8, <1>11, <2>1 DEF InternetInv, Serving, Shows
<1>14. Leaving'
  <2> SUFFICES ASSUME up, ~restarted, ~missed, online = {}
               PROVE  /\ Behind(q', ServiceStates("online"), States("idle"))
                      /\ ~NoneIn(q', States("idle")) \/ pub'.NetworkState # "connected"
    BY <1>2, <1>4 DEF Leaving
  <2> QED BY <1>5, <1>8, <1>11 DEF InternetInv, Leaving
<1>15. ASSUME ~missed', NEW t \in techs PROVE LastIn(q', Of(t), Right(t, t \in sharing))
  <2> DEFINE R == Right(t, t \in sharing)
  <2>1. LastIn(q, Of(t), Tetherings(t) \cup R)
    BY <1>4, <1>15 DEF InternetInv, LastTethering
  <2>2. CASE NoneIn(q, Added(t))
    <3>1. NoneIn(q', Of(t)) BY <1>8, <1>9, <2>2 DEF Of, NoneIn
    <3> QED BY <3>1, QueueNone
  <2>3. CASE ~NoneIn(q, Added(t))
    <3>1. Announced(t) BY <2>3 DEF NoneIn, Added, Announced
    <3>2. NoneIn(q, Tetherings(t)) BY <1>4, <1>15, <3>1 DEF NoneIn, Tetherings
    <3>3. LastIn(q, Added(t), Tetherings(t) \cup R) BY <2>1, <3>2, LastOfTwo DEF Of
    <3>4. LastIn(q, Added(t), R)
      <4>1. \A i \in 1..Len(q) : q[i] \notin Tetherings(t) BY <3>2 DEF NoneIn
      <4> HIDE DEF R
      <4> QED BY <3>3, <4>1 DEF LastIn
    <3>5. \A e \in Added(t) : e.on \notin lost BY DEF Added
    <3> HIDE DEF R, lost
    <3>6. LastIn(q', Added(t), R) BY <1>7, <3>4, <3>5 DEF Keeps
    <3>7. LastIn(q', Added(t) \cup Tetherings(t), R) BY <1>9, <3>6, LastOfTwo
    <3> QED BY <3>7 DEF Of, R
  <2> QED BY <2>2, <2>3
<1>16. LastTethering' BY <1>2, <1>15, LastWidened DEF LastTethering
<1>17. Tethered' BY <1>2, <1>6, <1>10, <1>11, <1>15 DEF Tethered, Followed
<1> QED BY <1>7, <1>12, <1>13, <1>14, <1>16, <1>17 DEF InternetInv

\* Every step of a running handler keeps the invariant.
LEMMA RunningSteps == ASSUME InternetInv, Running PROVE InternetInv'
BY ResetRun, GetPropertiesRun, ListenRun, ServicesRun, ConnectRun, TechnologiesRun, FollowRun
   DEF Running

----------------------------------------------------------------------------
(* What the daemon does.                                                   *)

\* None of the signals but those that the daemon started or stopped.
Plain == {m \in Message : m.on \notin {"Registered", "Unregistered"}}

\* A queue that may have received such a signal more: it says the same of the
\* daemon's life, and nothing new to a bridge that follows nothing.
Grows(w, s) ==
  /\ w \in Seq(Message) /\ Life(Message, w, TRUE)
  /\ Absent(Message, w, TRUE) <=> Absent(Message, s, TRUE)
  /\ NoneIn(w, Starts(Message)) <=> NoneIn(s, Starts(Message))
  /\ NoneIn(w, Stops(Message)) <=> NoneIn(s, Stops(Message))
  /\ manager_ # "live" /\ NoneIn(s, Managers) => NoneIn(w, Managers)
  /\ manager_ = "idle" /\ service_ = None /\ technologies_ = {} /\ s = <<>> => w = <<>>
  /\ \A X : NoneIn(w, X) => NoneIn(s, X)

\* A signal is received, or it is not.
LEMMA Hears ==
  ASSUME NEW s \in Seq(Message), NEW x \in Message
  PROVE  LET w == Hear(s, x)
         IN  /\ w \in Seq(Message)
             /\ \A X : NoneIn(w, X) => NoneIn(s, X)
             /\ \A X : x \notin X /\ NoneIn(s, X) => NoneIn(w, X)
             /\ \A X, Y : LastIn(s, X, Y) /\ (x \in X => x \in Y) => LastIn(w, X, Y)
             /\ \A X, Y : Behind(s, X, Y) /\ x \notin X => Behind(w, X, Y)
             /\ Subscribed(manager_, service_, technologies_, x) =>
                  /\ w = Append(s, x)
                  /\ \A X : NoneIn(w, X) => x \notin X
                  /\ \A X, Y : x \in X /\ x \in Y => LastIn(w, X, Y)
                  /\ \A X, Y : x \notin X /\ x \in Y => Behind(w, X, Y)
             /\ ~Subscribed(manager_, service_, technologies_, x) => w = s
<1> DEFINE heard == Subscribed(manager_, service_, technologies_, x)
           a == Append(s, x)
           w == Hear(s, x)
<1>1. w = IF heard THEN a ELSE s BY DEF Hear
<1>2. /\ a \in Seq(Message)
      /\ \A X : NoneIn(a, X) <=> NoneIn(s, X) /\ x \notin X
      /\ \A X, Y : x \in X /\ x \in Y => LastIn(a, X, Y)
      /\ \A X, Y : x \notin X /\ LastIn(s, X, Y) => LastIn(a, X, Y)
  BY QueueAppended
<1>3. /\ \A X, Y : x \notin X /\ x \in Y => Behind(a, X, Y)
      /\ \A X, Y : x \notin X /\ Behind(s, X, Y) => Behind(a, X, Y)
  BY BehindAppended
<1> HIDE DEF heard, a, w
<1>4. CASE heard BY <1>1, <1>2, <1>3, <1>4 DEF heard, a, w
<1>5. CASE ~heard BY <1>1, <1>5 DEF heard, w
<1> QED BY <1>4, <1>5

\* What the daemon sends while it is there.
LEMMA Grown ==
  ASSUME Types, NEW s \in Seq(Message), Life(Message, s, TRUE), NEW x \in Plain
  PROVE  Grows(Hear(s, x), s)
<1> DEFINE w == Hear(s, x)
<1>1. /\ x \in Message /\ x \notin Starts(Message) /\ x \notin Stops(Message)
      /\ x.on \in ToManager \cup {"ServiceState", "Tethering"}
      /\ x.on = "ServiceState" => x.path \in Services
      /\ x \in Managers <=> x.on \in ToManager
  BY Contents DEF Plain, Starts, Stops, Managers
<1>2. /\ w \in Seq(Message)
      /\ \A X : NoneIn(w, X) => NoneIn(s, X)
      /\ \A X : x \notin X /\ NoneIn(s, X) => NoneIn(w, X)
      /\ Subscribed(manager_, service_, technologies_, x) => w = Append(s, x)
      /\ ~Subscribed(manager_, service_, technologies_, x) => w = s
  BY <1>1, Hears
<1> HIDE DEF w
<1>3. Life(Message, w, TRUE) /\ (Absent(Message, w, TRUE) <=> Absent(Message, s, TRUE))
  <2> DEFINE a == Append(s, x)
  <2>1. /\ Life(Message, a, TRUE)
        /\ Absent(Message, a, TRUE) <=> Absent(Message, s, TRUE)
    BY <1>1, LifeSent
  <2>2. w = s \/ w = a BY <1>2
  <2> HIDE DEF a
  <2> QED BY <2>1, <2>2
<1>4. manager_ # "live" /\ NoneIn(s, Managers) => NoneIn(w, Managers)
  <2>1. CASE x \in Managers
    <3>1. x.on \in ToManager BY <1>1, <2>1
    <3>2. manager_ # "live" => ~Subscribed(manager_, service_, technologies_, x)
      BY <3>1 DEF Subscribed, ToManager
    <3> QED BY <1>2, <3>2
  <2>2. CASE x \notin Managers BY <1>2, <2>2
  <2> QED BY <2>1, <2>2
<1>5. manager_ = "idle" /\ service_ = None /\ technologies_ = {} /\ s = <<>> => w = <<>>
  BY <1>1, <1>2, ConnmanAssumption DEF Subscribed, ToManager
<1> QED BY <1>1, <1>2, <1>3, <1>4, <1>5 DEF Grows, w

\* The daemon does something while it is there.
LEMMA DaemonStays ==
  ASSUME InternetInv, up, up', UNCHANGED bridge, restarted' = restarted, Grows(q', q)
  PROVE  Lives' /\ Managing' /\ Alive' /\ (Restarts' <=> Restarts) /\ (Connects => Connects')
<1>0. UNCHANGED <<manager_, service_, current_service_, technologies_, tethering_, pub, todo>>
  BY DEF bridge
<1>1. Lives' BY DEF Lives, Grows
<1>2. Restarts' <=> Restarts BY DEF Restarts, Grows
<1>3. Managing' BY <1>0, <1>2 DEF InternetInv, Managing, Grows
<1>4. Alive'
  <2>1. \A s : NoneIn(s, Starts(Message) \cup Stops(Message)) <=>
                 NoneIn(s, Starts(Message)) /\ NoneIn(s, Stops(Message))
    BY DEF NoneIn
  <2> QED BY <1>0, <2>1 DEF InternetInv, Alive, Grows
<1>5. Connects => Connects' BY <1>0, <1>2 DEF Connects, Grows
<1> QED BY <1>1, <1>2, <1>3, <1>4, <1>5

\* A bridge that has not connected to the manager of a daemon that is there is
\* about to, and what it would have received of it is missed.
LEMMA NotLive ==
  ASSUME InternetInv, up, manager_ # "live", NEW x, x.on \in ToManager
  PROVE  Restarts \/ Does(todo, "init") \/ Missing(x)
<1>1. manager_ = "idle" => Does(todo, "init") \/ Does(todo, "listen") \/ Restarts
  BY DEF InternetInv, Managing
<1>2. manager_ = None => Restarts
  <2>1. q \in Seq(Message) BY DEF InternetInv, Types
  <2>2. manager_ = None => q # <<>> /\ Head(q) \in Starts(Message)
    BY DEF InternetInv, Managing, Absent
  <2> QED BY <2>1, <2>2, QueueHandled DEF Restarts
<1>3. Does(todo, "listen") => Missing(x) BY DEF Does, Missing
<1> QED BY <1>1, <1>2, <1>3 DEF InternetInv, Types

\* It sends a signal, and its State stays: nothing of it is read that was not.
LEMMA SameState ==
  ASSUME InternetInv, up, up', UNCHANGED bridge, restarted' = restarted, missed => missed',
         online' = {} <=> online = {},
         NEW x \in Plain, x.on # "State", q' = Hear(q, x),
         online' # {} \/ x \notin ServiceStates("online")
  PROVE  /\ Lives' /\ Managing' /\ Alive' /\ LastState' /\ ReadState' /\ Leaving'
         /\ Connects => Connects'
         /\ Grows(q', q)
<1>0. UNCHANGED <<manager_, service_, current_service_, technologies_, tethering_, pub, todo>>
  BY DEF bridge
<1>1. q \in Seq(Message) /\ Life(Message, q, TRUE) /\ x \in Message
  BY DEF InternetInv, Types, Lives, Plain
<1>2. Grows(q', q) BY <1>1, Grown DEF InternetInv
<1>3. /\ Lives' /\ Managing' /\ Alive' /\ (Restarts' <=> Restarts)
      /\ Connects => Connects'
  BY <1>2, DaemonStays
<1>4. /\ \A v, u : x \notin States(v) \cup States(u)
      /\ \A X, Y : LastIn(q, X, Y) /\ (x \in X => x \in Y) => LastIn(q', X, Y)
      /\ \A X, Y : Behind(q, X, Y) /\ x \notin X => Behind(q', X, Y)
      /\ \A X : NoneIn(q', X) => NoneIn(q, X)
  BY <1>1, Hears DEF States
<1>5. State' = State BY DEF State
<1>6. LastState' BY <1>3, <1>4, <1>5 DEF InternetInv, LastState
<1>7. ReadState' BY <1>0, <1>3, <1>4, <1>5 DEF InternetInv, ReadState
<1>8. Leaving' BY <1>0, <1>4 DEF InternetInv, Leaving
<1> QED BY <1>2, <1>3, <1>6, <1>7, <1>8

\* Its State changes: everything is read again, or the properties are reset.
LEMMA NewState ==
  ASSUME InternetInv, up, up', UNCHANGED bridge, restarted' = restarted,
         (online' = {}) # (online = {}),
         NEW x \in Plain, x.on # "State",
         NEW y, y = Signal("State", None, IF online' = {} THEN "idle" ELSE "online"),
         q' = Hear(Hear(q, x), y), missed => missed', Missing(y) => missed'
  PROVE  /\ Lives' /\ Managing' /\ Alive' /\ LastState' /\ ReadState'
         /\ Leaving' /\ Serving' /\ Tethered'
         /\ q' \in Seq(Message)
<1> DEFINE m == Hear(q, x)
           heard == Subscribed(manager_, service_, technologies_, y)
<1>0. UNCHANGED <<manager_, service_, current_service_, technologies_, tethering_, pub, todo>>
  BY DEF bridge
<1>1. q \in Seq(Message) /\ Life(Message, q, TRUE) /\ x \in Message /\ x \notin Starts(Message)
  BY DEF InternetInv, Types, Lives, Plain, Starts
<1>2. /\ y \in Message /\ y \in Plain /\ y.on = "State" /\ y.on \in ToManager
      /\ y \in States(State') /\ State' \in {"online", "idle"}
      /\ State' = "idle" <=> online' = {}
      /\ \A v : y \notin ServiceStates(v)
  <2>1. State' \in {"online", "idle"} /\ (State' = "idle" <=> online' = {}) BY DEF State
  <2>2. y = Signal("State", None, State') BY DEF State
  <2>3. y \in Message /\ y.on = "State" /\ y.val = State' BY <2>1, <2>2, Sendings
  <2> QED BY <2>1, <2>3 DEF Plain, States, ServiceStates, ToManager
<1>3. m \in Seq(Message) /\ Grows(m, q) /\ Life(Message, m, TRUE)
  <2>1. Grows(m, q) BY <1>1, Grown DEF InternetInv
  <2> QED BY <2>1 DEF Grows
<1>4. /\ q' = Hear(m, y) OBVIOUS
<1> HIDE DEF m
<1>5. Grows(q', m)
  <2>1. Grows(Hear(m, y), m) BY <1>2, <1>3, Grown DEF InternetInv
  <2> QED BY <1>4, <2>1
<1>6. Grows(q', q) BY <1>3, <1>5 DEF Grows
<1>7. /\ Lives' /\ Managing' /\ Alive' /\ (Restarts' <=> Restarts)
  BY <1>6, DaemonStays
<1>8. /\ heard <=> manager_ = "live"
      /\ q' \in Seq(Message)
      /\ heard => /\ \A X : NoneIn(q', X) => y \notin X
                  /\ \A X, Y : y \in X /\ y \in Y => LastIn(q', X, Y)
                  /\ \A X, Y : y \notin X /\ y \in Y => Behind(q', X, Y)
  <2>1. heard <=> manager_ = "live" BY <1>2 DEF Subscribed, ToManager
  <2> DEFINE w == Hear(m, y)
  <2>2. /\ w \in Seq(Message)
        /\ heard => /\ \A X : NoneIn(w, X) => y \notin X
                    /\ \A X, Y : y \in X /\ y \in Y => LastIn(w, X, Y)
                    /\ \A X, Y : y \notin X /\ y \in Y => Behind(w, X, Y)
    <3>1. y \in Message /\ m \in Seq(Message) BY <1>2, <1>3
    <3>2. \A s \in Seq(Message), z \in Message :
            /\ Hear(s, z) \in Seq(Message)
            /\ Subscribed(manager_, service_, technologies_, z) =>
                 /\ \A X : NoneIn(Hear(s, z), X) => z \notin X
                 /\ \A X, Y : z \in X /\ z \in Y => LastIn(Hear(s, z), X, Y)
                 /\ \A X, Y : z \notin X /\ z \in Y => Behind(Hear(s, z), X, Y)
      BY Hears
    <3> QED BY <3>1, <3>2
  <2> HIDE DEF heard, w
  <2>3. q' = w BY <1>4 DEF w
  <2> QED BY <2>1, <2>2, <2>3
<1> HIDE DEF heard
<1>9. ~heard => Restarts \/ Does(todo, "init") \/ missed' BY <1>2, <1>8, NotLive
<1>10. LastState'
  <2>1. heard => LastIn(q', States("online") \cup States("idle"), States(State'))
    BY <1>2, <1>8
  <2>2. ~heard => LastIn(q', States("online") \cup States("idle"), States(State'))
    <3> SUFFICES ASSUME ~heard
                 PROVE  LastIn(q', States("online") \cup States("idle"), States(State'))
      OBVIOUS
    <3>1. NoneIn(q', Managers) BY <1>0, <1>7, <1>8 DEF Managing
    <3>2. States("online") \cup States("idle") \subseteq Managers
      BY DEF States, Managers, ToManager
    <3>3. NoneIn(q', States("online") \cup States("idle")) BY <3>1, <3>2 DEF NoneIn
    <3> QED BY <3>3, QueueNone
  <2> QED BY <2>1, <2>2 DEF LastState
<1>11. ReadState'
  <2>1. (\E v : Waits(todo, "listen", v)) => missed'
    <3>1. (\E v : Waits(todo, "listen", v)) => Missing(y)
      BY <1>2, StepTypes DEF Waits, Missing
    <3> QED BY <3>1
  <2>2. Does(todo, "reset") => online' = {} \/ ~NoneIn(q', States("online"))
    BY <1>2, <1>8 DEF InternetInv, Managing
  <2> QED BY <1>0, <2>1, <2>2 DEF ReadState
<1>12. online' # {} => missed' \/ Connects'
  <2>1. heard /\ online' # {} => ~NoneIn(q', States("online")) BY <1>2, <1>8
  <2> QED BY <1>0, <1>7, <1>9, <2>1 DEF Connects
<1>13. Serving' /\ Tethered' BY <1>12 DEF Serving, Tethered, Lists
<1>14. Leaving'
  <2> SUFFICES ASSUME ~restarted, online' = {}
               PROVE  /\ Behind(q', ServiceStates("online"), States("idle"))
                      /\ ~NoneIn(q', States("idle")) \/ pub.NetworkState # "connected"
    BY <1>0 DEF Leaving
  <2>1. CASE heard BY <1>2, <1>8, <2>1
  <2>2. CASE ~heard
    <3>1. manager_ = "idle" /\ q' = <<>> /\ pub = defaults_
      BY <1>0, <1>7, <1>8, <2>2 DEF Alive, InternetInv, Types
    <3>2. Behind(q', ServiceStates("online"), States("idle")) BY <3>1 DEF Behind
    <3> QED BY <3>1, <3>2, Defaults
  <2> QED BY <2>1, <2>2
<1> QED BY <1>7, <1>8, <1>10, <1>11, <1>13, <1>14

\* Something happens to a service.
LEMMA ServiceStep ==
  ASSUME InternetInv, Move, up, UNCHANGED <<up, techs, sharing>>,
         services' \in Seq(Services), online' \in SUBSET Services,
         \A s \in online' : \E i \in 1..Len(services') : services'[i] = s,
         NEW x \in Message, x.on \in {"ServicesAdded", "ServicesRemoved", "ServiceState"},
         SetOnline(online', x),
         x \in ServiceStates("online") => online' # {},
         current_service_ \in online \ online' =>
           x.path = current_service_ /\ x.on \in {"ServicesRemoved", "ServiceState"}
  PROVE  InternetInv'
<1> DEFINE y == Signal("State", None, IF online' = {} THEN "idle" ELSE "online")
           same == online' = {} <=> online = {}
<1>1. /\ UNCHANGED bridge /\ restarted' = restarted /\ up'
      /\ UNCHANGED <<manager_, service_, current_service_, technologies_, tethering_, pub, todo>>
  BY DEF Move, Change, bridge, InternetInv, Types
<1>2. /\ x \in Plain /\ x.on # "State" /\ \A t : x \notin Of(t)
      /\ q \in Seq(Message) /\ Types /\ Life(Message, q, TRUE)
  BY DEF Plain, Of, Added, Tetherings, InternetInv, Types, Lives
<1>3. /\ y \in Message /\ y.on = "State" /\ \A t : y \notin Of(t)
  <2>1. y.on = "State" /\ y \in Message BY Sendings
  <2> HIDE DEF y
  <2> QED BY <2>1 DEF Of, Added, Tetherings
<1>4. /\ same => q' = Hear(q, x) /\ missed' = (missed \/ Missing(x))
      /\ ~same => /\ q' = Hear(Hear(q, x), y)
                  /\ missed' = (missed \/ Missing(x) \/ Missing(y))
  BY DEF SetOnline, Send, Send2
<1>5. missed' \in BOOLEAN /\ (missed => missed') /\ (Missing(x) => missed')
      /\ (~same => (Missing(y) => missed'))
  BY <1>4
<1>6. \A t, Y : LastIn(q, Of(t), Y) => LastIn(q', Of(t), Y)
  <2> DEFINE m == Hear(q, x)
             w == Hear(m, y)
  <2>1. m \in Seq(Message) /\ \A X, Y : LastIn(q, X, Y) /\ (x \in X => x \in Y) => LastIn(m, X, Y)
    BY <1>2, Hears
  <2> HIDE DEF m, y
  <2>2. \A X, Y : LastIn(m, X, Y) /\ (y \in X => y \in Y) => LastIn(w, X, Y)
    BY <1>3, <2>1, Hears
  <2>3. q' = m \/ q' = w BY <1>4 DEF m
  <2> HIDE DEF w
  <2>4. \A t, Y : LastIn(q, Of(t), Y) => LastIn(m, Of(t), Y) /\ LastIn(w, Of(t), Y)
    <3> TAKE t, Y
    <3>1. x \notin Of(t) /\ y \notin Of(t) BY <1>2, <1>3
    <3> QED BY <2>1, <2>2, <3>1
  <2> QED BY <2>3, <2>4
<1>7. LastTethering' BY <1>5, <1>6 DEF InternetInv, LastTethering
<1>8. ASSUME q' \in Seq(Message) PROVE Types'
  BY <1>1, <1>2, <1>5, <1>8, TypesDaemon DEF Types
<1>9. CASE ~same
  <2>1. (online' = {}) # (online = {}) BY <1>9
  <2>2. /\ q' = Hear(Hear(q, x), y)
        /\ Missing(y) => missed'
        /\ y = Signal("State", None, IF online' = {} THEN "idle" ELSE "online")
    BY <1>4, <1>5, <1>9
  <2> HIDE DEF y, same
  <2>3. /\ Lives' /\ Managing' /\ Alive' /\ LastState' /\ ReadState'
        /\ Leaving' /\ Serving' /\ Tethered'
        /\ q' \in Seq(Message)
    BY <1>1, <1>2, <1>5, <2>1, <2>2, NewState
  <2> QED BY <1>7, <1>8, <2>3 DEF InternetInv
<1>10. CASE same
  <2>1. q' = Hear(q, x) /\ (online' = {} <=> online = {}) BY <1>4, <1>10
  <2>2. online' # {} \/ x \notin ServiceStates("online") OBVIOUS
  <2> HIDE DEF y, same
  <2>3. /\ Lives' /\ Managing' /\ Alive' /\ LastState' /\ ReadState' /\ Leaving'
        /\ Connects => Connects'
        /\ Grows(q', q)
    BY <1>1, <1>2, <1>5, <2>1, <2>2, SameState
  <2>4. Types'
    <3>1. q' \in Seq(Message) BY <2>3 DEF Grows
    <3> QED BY <1>8, <3>1
  <2>5. \A X : NoneIn(q', X) => NoneIn(q, X) BY <2>3 DEF Grows
  <2>6. Serving'
    <3> SUFFICES ASSUME ~missed', online # {}, ~Connects', NoneIn(q', News(current_service_)),
                        ~Does(todo, "services")
                 PROVE  /\ current_service_ \in online' /\ Shows(current_service_)
                        /\ service_ = current_service_ \/ Waits(todo, "connect", current_service_)
      BY <1>1, <2>1 DEF Serving, Shows
    <3>1. /\ current_service_ \in online /\ Shows(current_service_)
          /\ service_ = current_service_ \/ Waits(todo, "connect", current_service_)
      BY <1>5, <2>3, <2>5 DEF InternetInv, Serving
    <3>2. ASSUME current_service_ \notin online' PROVE FALSE
      <4>1. x.path = current_service_ /\ x \in News(current_service_)
        BY <3>1, <3>2 DEF News
      <4>2. ~Subscribed(manager_, service_, technologies_, x)
        BY <1>2, <2>1, <4>1, Hears
      <4>3. CASE x.on = "ServicesRemoved"
        <5>1. manager_ # "live" /\ x.on \in ToManager
          BY <4>2, <4>3 DEF Subscribed, ToManager
        <5>2. Restarts \/ Does(todo, "init") BY <1>5, <5>1, NotLive
        <5> QED BY <2>3, <5>2 DEF Connects
      <4>4. CASE x.on = "ServiceState"
        <5>1. service_ # current_service_ BY <4>1, <4>2, <4>4 DEF Subscribed, ToManager
        <5>2. Waits(todo, "connect", x.path) BY <3>1, <4>1, <5>1
        <5>3. Missing(x) BY <4>4, <5>2, StepTypes DEF Waits, Missing
        <5> QED BY <1>5, <5>3
      <4> QED BY <3>1, <3>2, <4>3, <4>4
    <3> QED BY <3>1, <3>2
  <2>7. Tethered'
    <3>1. Lists => Lists' BY <1>1, <2>3, <2>5 DEF Lists
    <3>2. \A t : Followed(t) => Followed(t)' BY <1>1, <2>5 DEF Followed
    <3>3. \A t : NoneIn(q', Of(t)) => NoneIn(q, Of(t)) BY <2>5
    <3>4. (\E t \in Technologies : ~NoneIn(q, Added(t))) =>
            \E t \in Technologies : ~NoneIn(q', Added(t))
      BY <2>5
    <3> QED BY <1>1, <1>5, <1>6, <2>1, <3>1, <3>2, <3>3, <3>4 DEF InternetInv, Tethered
  <2> QED BY <1>7, <2>3, <2>4, <2>6, <2>7 DEF InternetInv
<1> QED BY <1>9, <1>10

\* A service appears, at one of the ends of the list.
LEMMA AddServiceStep == ASSUME InternetInv, AddService PROVE InternetInv'
<1>1. PICK s \in Services \ Range(services) :
        /\ services' \in {Append(services, s), <<s>> \o services}
        /\ Send(Signal("ServicesAdded", s, None))
  BY DEF AddService
<1>2. Move /\ up /\ UNCHANGED <<up, online, techs, sharing>> BY DEF AddService
<1> DEFINE x == Signal("ServicesAdded", s, None)
<1>3. x \in Message /\ x.on = "ServicesAdded" /\ x.path = s BY Sendings
<1>4. SetOnline(online', x) BY <1>1, <1>2 DEF SetOnline
<1> HIDE DEF x
<1>5. /\ services \in Seq(Services) /\ online \in SUBSET Services
      /\ \A z \in online : \E i \in 1..Len(services) : services[i] = z
  BY DEF InternetInv, Types
<1>6. /\ services' \in Seq(Services)
      /\ \A i \in 1..Len(services) : \E j \in 1..Len(services') : services'[j] = services[i]
  <2>1. CASE services' = Append(services, s)
    <3>1. /\ services' \in Seq(Services) /\ Len(services') = Len(services) + 1
          /\ \A i \in 1..Len(services) : services'[i] = services[i] /\ i \in 1..Len(services')
      BY <1>5, <2>1
    <3> QED BY <3>1
  <2>2. CASE services' = <<s>> \o services
    <3>1. /\ services' \in Seq(Services)
          /\ \A i \in 1..Len(services) : services'[i + 1] = services[i]
                                         /\ i + 1 \in 1..Len(services')
      BY <1>5, <2>2
    <3> QED BY <3>1
  <2> QED BY <1>1, <2>1, <2>2
<1>7. x \notin ServiceStates("online") BY <1>3 DEF ServiceStates
<1>8. \A z \in online' : \E j \in 1..Len(services') : services'[j] = z
  BY <1>2, <1>5, <1>6
<1> QED BY <1>2, <1>3, <1>4, <1>5, <1>6, <1>7, <1>8, ServiceStep

\* A service disappears, and is online no more.
LEMMA RemoveServiceStep == ASSUME InternetInv, RemoveService PROVE InternetInv'
<1>1. PICK s \in Range(services) :
        /\ services' = SelectAt(services, {i \in 1..Len(services) : services[i] # s})
        /\ SetOnline(online \ {s}, Signal("ServicesRemoved", s, None))
  BY DEF RemoveService
<1>2. Move /\ up /\ UNCHANGED <<up, techs, sharing>> BY DEF RemoveService
<1>3. /\ services \in Seq(Services) /\ online \in SUBSET Services
      /\ \A z \in online : \E i \in 1..Len(services) : services[i] = z
  BY DEF InternetInv, Types
<1>4. s \in Services BY <1>1, <1>3 DEF Range
<1> DEFINE x == Signal("ServicesRemoved", s, None)
<1>5. x \in Message /\ x.on = "ServicesRemoved" /\ x.path = s BY <1>4, Sendings
<1>6. SetOnline(online', x) /\ online' = online \ {s}
  <2>1. online' = online \ {s} BY <1>1 DEF SetOnline
  <2> QED BY <1>1, <2>1
<1> HIDE DEF x
<1>7. /\ services' \in Seq(Services)
      /\ \A i \in 1..Len(services) :
           services[i] # s => \E j \in 1..Len(services') : services'[j] = services[i]
  <2> DEFINE keep == {i \in 1..Len(services) : services[i] # s}
             w == SelectAt(services, keep)
  <2>1. w \in Seq(Services) /\ \E at : IsLeft(services, keep, Len(services), w, at)
    BY <1>3, LeftIsLeft
  <2>2. services' = w BY <1>1
  <2> HIDE DEF w
  <2>3. PICK at : IsLeft(services, keep, Len(services), w, at) BY <2>1
  <2>4. \A i \in keep : \E j \in 1..Len(w) : w[j] = services[i] BY <2>3 DEF IsLeft
  <2> QED BY <2>1, <2>2, <2>4
<1>8. x \notin ServiceStates("online") BY <1>5 DEF ServiceStates
<1>9. \A z \in online' : \E j \in 1..Len(services') : services'[j] = z
  BY <1>3, <1>6, <1>7
<1>10. online' \in SUBSET Services /\ (current_service_ \in online \ online' => current_service_ = s)
  BY <1>3, <1>6
<1> QED BY <1>2, <1>5, <1>6, <1>7, <1>8, <1>9, <1>10, ServiceStep

\* A service comes online.
LEMMA ServiceOnlineStep == ASSUME InternetInv, ServiceOnline PROVE InternetInv'
<1>1. PICK s \in Range(services) \ online :
        SetOnline(online \cup {s}, Signal("ServiceState", s, "online"))
  BY DEF ServiceOnline
<1>2. Move /\ up /\ UNCHANGED <<up, services, techs, sharing>> BY DEF ServiceOnline
<1>3. /\ services \in Seq(Services) /\ online \in SUBSET Services
      /\ \A z \in online : \E i \in 1..Len(services) : services[i] = z
  BY DEF InternetInv, Types
<1>4. s \in Services /\ \E i \in 1..Len(services) : services[i] = s BY <1>1, <1>3 DEF Range
<1> DEFINE x == Signal("ServiceState", s, "online")
<1>5. x \in Message /\ x.on = "ServiceState" BY <1>4, Sendings
<1>6. SetOnline(online', x) /\ online' = online \cup {s}
  <2>1. online' = online \cup {s} BY <1>1 DEF SetOnline
  <2> QED BY <1>1, <2>1
<1> HIDE DEF x
<1>7. /\ services' \in Seq(Services) /\ online' \in SUBSET Services
      /\ \A z \in online' : \E i \in 1..Len(services') : services'[i] = z
      /\ online' # {} /\ current_service_ \notin online \ online'
  BY <1>2, <1>3, <1>4, <1>6
<1> QED BY <1>2, <1>5, <1>6, <1>7, ServiceStep

\* A service goes offline, and says so.
LEMMA ServiceOfflineStep == ASSUME InternetInv, ServiceOffline PROVE InternetInv'
<1>1. PICK s \in online : SetOnline(online \ {s}, Signal("ServiceState", s, "idle"))
  BY DEF ServiceOffline
<1>2. Move /\ up /\ UNCHANGED <<up, services, techs, sharing>> BY DEF ServiceOffline
<1>3. /\ services \in Seq(Services) /\ online \in SUBSET Services
      /\ \A z \in online : \E i \in 1..Len(services) : services[i] = z
  BY DEF InternetInv, Types
<1> DEFINE x == Signal("ServiceState", s, "idle")
<1>4. x \in Message /\ x.on = "ServiceState" /\ x.path = s /\ x.val = "idle"
  BY <1>3, Sendings
<1>5. SetOnline(online', x) /\ online' = online \ {s}
  <2>1. online' = online \ {s} BY <1>1 DEF SetOnline
  <2> QED BY <1>1, <2>1
<1> HIDE DEF x
<1>6. /\ services' \in Seq(Services) /\ online' \in SUBSET Services
      /\ \A z \in online' : \E i \in 1..Len(services') : services'[i] = z
      /\ current_service_ \in online \ online' => x.path = current_service_
      /\ x \notin ServiceStates("online")
  BY <1>2, <1>3, <1>4, <1>5 DEF ServiceStates
<1> QED BY <1>2, <1>4, <1>5, <1>6, ServiceStep

\* It starts, and is asked for everything.
LEMMA StartStep == ASSUME InternetInv, Start PROVE InternetInv'
<1> DEFINE x == Signal("Registered", None, None)
<1>1. /\ ~up /\ up' /\ restarted' /\ UNCHANGED bridge
      /\ up' \in BOOLEAN /\ restarted' \in BOOLEAN
      /\ online' \in SUBSET Range(services)
      /\ UNCHANGED <<services, techs, sharing>>
      /\ q' = Hear(q, x) /\ missed' = (missed \/ Missing(x))
  BY DEF Start, Change, Send
<1>2. /\ UNCHANGED <<manager_, service_, current_service_, technologies_, tethering_, pub, todo>>
      /\ q \in Seq(Message) /\ Life(Message, q, FALSE) /\ services \in Seq(Services)
      /\ techs \in SUBSET Technologies /\ sharing \in SUBSET Technologies
  BY <1>1 DEF bridge, InternetInv, Types, Lives
<1>3. x \in Message /\ x.on = "Registered" BY Sendings
<1> HIDE DEF x
<1>4. x \in Starts(Message) /\ x \notin Managers /\ \A t : x \notin Of(t)
  BY <1>3 DEF Starts, Managers, ToManager, Of, Added, Tetherings
<1>5. Subscribed(manager_, service_, technologies_, x)
  BY <1>3 DEF Subscribed, ToManager
<1>6. /\ q' \in Seq(Message) /\ q' = Append(q, x)
      /\ NoneIn(q, Managers) => NoneIn(q', Managers)
      /\ ~NoneIn(q', Starts(Message))
      /\ \A t, Y : LastIn(q, Of(t), Y) => LastIn(q', Of(t), Y)
  BY <1>1, <1>2, <1>3, <1>4, <1>5, Hears
<1>7. /\ Life(Message, q', TRUE)
      /\ Absent(Message, q', TRUE) <=> Absent(Message, q, FALSE)
  BY <1>2, <1>4, <1>6, LifeStarted
<1>8. Restarts' BY <1>6 DEF Restarts
<1>9. Types'
  <2>1. /\ online' \in SUBSET Services
        /\ \A s \in online' : \E i \in 1..Len(services') : services'[i] = s
    BY <1>1, <1>2 DEF Range
  <2>2. missed' \in BOOLEAN BY <1>1
  <2>3. Types BY DEF InternetInv
  <2>4. services' \in Seq(Services) BY <1>1, <1>2
  <2>5. techs' \in SUBSET Technologies /\ sharing' \in SUBSET Technologies BY <1>1, <1>2
  <2> QED BY <1>1, <1>6, <2>1, <2>2, <2>3, <2>4, <2>5, TypesDaemon
<1>10. Lives' BY <1>1, <1>7 DEF Lives
<1>11. Managing'
  <2>1. up = FALSE /\ up' = TRUE BY DEF Start, InternetInv, Types
  <2>2. manager_ = None => Absent(Message, q, FALSE) /\ todo = <<>> /\ pub = defaults_
    BY <2>1 DEF InternetInv, Managing
  <2>3. manager_' = None => Absent(Message, q', up') /\ todo' = <<>> /\ pub' = defaults_
    BY <1>2, <1>7, <2>1, <2>2
  <2> QED BY <1>1, <1>2, <1>6, <1>8, <2>3 DEF InternetInv, Managing
<1>12. Alive' /\ Leaving' BY <1>1 DEF Alive, Leaving
<1>13. LastState' /\ ReadState' BY <1>8 DEF LastState, ReadState
<1>14. Serving' /\ Tethered' BY <1>8 DEF Serving, Tethered, Lists, Connects
<1>15. LastTethering' BY <1>1, <1>6 DEF InternetInv, LastTethering
<1> QED
  BY <1>9, <1>10, <1>11, <1>12, <1>13, <1>14, <1>15 DEF InternetInv

\* It stops, which will be heard.
LEMMA StopStep == ASSUME InternetInv, Stop PROVE InternetInv'
<1> DEFINE x == Signal("Unregistered", None, None)
<1>1. /\ up /\ ~up' /\ restarted' = restarted /\ UNCHANGED bridge
      /\ up' \in BOOLEAN /\ restarted' \in BOOLEAN
      /\ UNCHANGED <<services, online, techs, sharing>>
      /\ q' = Hear(q, x) /\ missed' = (missed \/ Missing(x))
  BY DEF Stop, Move, Change, Send, InternetInv, Types
<1>2. /\ UNCHANGED <<manager_, service_, current_service_, technologies_, tethering_, pub, todo>>
      /\ q \in Seq(Message) /\ Life(Message, q, TRUE) /\ services \in Seq(Services)
      /\ techs \in SUBSET Technologies /\ sharing \in SUBSET Technologies
      /\ online \in SUBSET Services
      /\ \A s \in online : \E i \in 1..Len(services) : services[i] = s
  BY <1>1 DEF bridge, InternetInv, Types, Lives
<1>3. x \in Message /\ x.on = "Unregistered" BY Sendings
<1> HIDE DEF x
<1>4. /\ x \in Stops(Message) /\ x \notin Starts(Message) /\ x \notin Managers
      /\ \A t : x \notin Of(t)
  BY <1>3 DEF Starts, Stops, Managers, ToManager, Of, Added, Tetherings
<1>5. Subscribed(manager_, service_, technologies_, x)
  BY <1>3 DEF Subscribed, ToManager
<1>6. /\ q' \in Seq(Message) /\ q' = Append(q, x)
      /\ NoneIn(q, Managers) => NoneIn(q', Managers)
      /\ \A t, Y : LastIn(q, Of(t), Y) => LastIn(q', Of(t), Y)
  BY <1>1, <1>2, <1>3, <1>4, <1>5, Hears
<1>7. /\ Life(Message, q', FALSE)
      /\ Absent(Message, q', FALSE) <=> Absent(Message, q, TRUE)
      /\ q' # <<>>
  <2>1. /\ Life(Message, q', FALSE)
        /\ Absent(Message, q', FALSE) <=> Absent(Message, q, TRUE)
    BY <1>2, <1>3, <1>4, <1>6, LifeSent
  <2>2. q' # <<>> BY <1>2, <1>3, <1>6, Headed
  <2> QED BY <2>1, <2>2
<1>8. Types'
  <2>1. missed' \in BOOLEAN BY <1>1
  <2>2. Types BY DEF InternetInv
  <2>3. services' \in Seq(Services) /\ online' \in SUBSET Services BY <1>1, <1>2
  <2>4. techs' \in SUBSET Technologies /\ sharing' \in SUBSET Technologies BY <1>1, <1>2
  <2>5. \A s \in online' : \E i \in 1..Len(services') : services'[i] = s BY <1>1, <1>2
  <2> QED BY <1>1, <1>6, <2>1, <2>2, <2>3, <2>4, <2>5, TypesDaemon
<1>9. Lives' BY <1>1, <1>7 DEF Lives
<1>10. Managing' BY <1>1, <1>2, <1>6, <1>7 DEF InternetInv, Managing
<1>11. Alive' /\ LastState' /\ ReadState' /\ Serving' /\ Leaving' /\ Tethered'
  BY <1>1 DEF Alive, LastState, ReadState, Serving, Leaving, Tethered
<1>12. LastTethering' BY <1>1, <1>6 DEF InternetInv, LastTethering
<1> QED BY <1>8, <1>9, <1>10, <1>11, <1>12 DEF InternetInv

\* Something happens to a technology, which leaves the services as they are.
LEMMA TechnologyStep ==
  ASSUME InternetInv, Move, up, UNCHANGED <<up, services, online>>,
         techs' \in SUBSET Technologies, sharing' \in SUBSET Technologies,
         NEW x \in Message, x.on \in {"TechnologyAdded", "TechnologyRemoved", "Tethering"},
         Send(x), LastTethering', Tethered'
  PROVE  InternetInv'
<1>1. /\ UNCHANGED bridge /\ restarted' = restarted /\ up'
      /\ UNCHANGED <<manager_, service_, current_service_, technologies_, tethering_, pub, todo>>
      /\ q' = Hear(q, x) /\ missed' = (missed \/ Missing(x))
  BY DEF Move, Change, bridge, Send, InternetInv, Types
<1>2. x \in Plain /\ x.on # "State" /\ x \notin ServiceStates("online")
  BY DEF Plain, ServiceStates
<1>3. missed' \in BOOLEAN /\ (missed => missed') BY <1>1
<1>4. online' = {} <=> online = {} OBVIOUS
<1>5. /\ Lives' /\ Managing' /\ Alive' /\ LastState' /\ ReadState' /\ Leaving'
      /\ Connects => Connects'
      /\ Grows(q', q)
  BY <1>1, <1>2, <1>3, <1>4, SameState
<1>6. /\ q' \in Seq(Message)
      /\ \A X : NoneIn(q', X) => NoneIn(q, X)
  BY <1>5 DEF Grows
<1>7. Types' BY <1>1, <1>3, <1>6, TypesDaemon DEF InternetInv, Types
<1>8. Serving'
  <2> SUFFICES ASSUME ~missed', online # {}, ~Connects', NoneIn(q', News(current_service_)),
                      ~Does(todo, "services")
               PROVE  /\ current_service_ \in online /\ Shows(current_service_)
                      /\ service_ = current_service_ \/ Waits(todo, "connect", current_service_)
    BY <1>1 DEF Serving, Shows
  <2> QED BY <1>3, <1>5, <1>6 DEF InternetInv, Serving
<1> QED BY <1>5, <1>7, <1>8 DEF InternetInv

\* What is sent of a technology tells of it, and of no other.
LEMMA TechnologySent ==
  ASSUME InternetInv, Move, up, UNCHANGED <<up, services, online>>,
         NEW x \in Message, x.on \in {"TechnologyAdded", "TechnologyRemoved", "Tethering"},
         Send(x)
  PROVE  /\ \A t : x \in Of(t) => t = x.path
         /\ \A t, Y : x \notin Of(t) /\ LastIn(q, Of(t), Y) => LastIn(q', Of(t), Y)
         /\ Subscribed(manager_, service_, technologies_, x) =>
              /\ \A X : NoneIn(q', X) => x \notin X
              /\ \A X, Y : x \in X /\ x \in Y => LastIn(q', X, Y)
         /\ ~Subscribed(manager_, service_, technologies_, x) => q' = q
         /\ \A X : NoneIn(q', X) => NoneIn(q, X)
         /\ missed => missed'
         /\ Missing(x) => missed'
         /\ Lists => Lists'
         /\ \A t : Followed(t) => Followed(t)'
         /\ x.on \in ToManager => Connects' \/ missed' \/ manager_ = "live"
<1>1. /\ UNCHANGED bridge /\ restarted' = restarted /\ up'
      /\ UNCHANGED <<manager_, service_, current_service_, technologies_, tethering_, pub, todo>>
      /\ q' = Hear(q, x) /\ missed' = (missed \/ Missing(x))
  BY DEF Move, Change, bridge, Send, InternetInv, Types
<1>2. x \in Plain /\ q \in Seq(Message) /\ Types /\ Life(Message, q, TRUE)
  BY DEF Plain, InternetInv, Types, Lives
<1>3. /\ \A X, Y : LastIn(q, X, Y) /\ (x \in X => x \in Y) => LastIn(q', X, Y)
      /\ Subscribed(manager_, service_, technologies_, x) =>
           /\ \A X : NoneIn(q', X) => x \notin X
           /\ \A X, Y : x \in X /\ x \in Y => LastIn(q', X, Y)
      /\ ~Subscribed(manager_, service_, technologies_, x) => q' = q
      /\ \A X : NoneIn(q', X) => NoneIn(q, X)
  BY <1>1, <1>2, Hears
<1>4. Grows(q', q) BY <1>1, <1>2, Grown
<1>5. (Connects => Connects') /\ (Restarts' <=> Restarts) BY <1>1, <1>4, DaemonStays
<1>6. \A t : x \in Of(t) => t = x.path BY DEF Of, Added, Tetherings
<1>7. missed' \in BOOLEAN /\ (missed => missed') /\ (Missing(x) => missed') BY <1>1
<1>8. Lists => Lists' BY <1>1, <1>3, <1>5 DEF Lists
<1>9. \A t : Followed(t) => Followed(t)' BY <1>1, <1>3 DEF Followed
<1>10. x.on \in ToManager => Connects' \/ missed' \/ manager_ = "live"
  <2>1. Restarts \/ Does(todo, "init") => Connects BY DEF Connects
  <2> QED BY <1>5, <1>7, <2>1, NotLive
<1>11. \A t, Y : x \notin Of(t) /\ LastIn(q, Of(t), Y) => LastIn(q', Of(t), Y) BY <1>3
<1> QED BY <1>3, <1>6, <1>7, <1>8, <1>9, <1>10, <1>11

\* A technology appears, which shares nothing yet.
LEMMA AddTechnologyStep == ASSUME InternetInv, AddTechnology PROVE InternetInv'
<1>1. PICK t \in Technologies \ techs :
        /\ techs' = techs \cup {t} /\ sharing' = sharing \ {t}
        /\ Send(Signal("TechnologyAdded", t, "off"))
  BY DEF AddTechnology
<1>2. Move /\ up /\ UNCHANGED <<up, services, online>> BY DEF AddTechnology
<1> DEFINE x == Signal("TechnologyAdded", t, "off")
<1>3. x \in Message /\ x.on = "TechnologyAdded" /\ x.path = t /\ x.val = "off" BY Sendings
<1>4. Send(x) BY <1>1
<1> HIDE DEF x
<1>5. /\ techs' \in SUBSET Technologies /\ sharing' \in SUBSET Technologies
      /\ techs \in SUBSET Technologies /\ up' /\ t \notin sharing'
      /\ UNCHANGED <<technologies_, tethering_, pub, todo>>
  BY <1>1, <1>2 DEF InternetInv, Types, Move, Change, bridge
<1>6. /\ \A u : x \in Of(u) => u = x.path
      /\ \A u, Y : x \notin Of(u) /\ LastIn(q, Of(u), Y) => LastIn(q', Of(u), Y)
      /\ Subscribed(manager_, service_, technologies_, x) =>
           /\ \A X : NoneIn(q', X) => x \notin X
           /\ \A X, Y : x \in X /\ x \in Y => LastIn(q', X, Y)
      /\ \A X : NoneIn(q', X) => NoneIn(q, X)
      /\ missed => missed'
      /\ Lists => Lists'
      /\ \A u : Followed(u) => Followed(u)'
      /\ Connects' \/ missed' \/ manager_ = "live"
  BY <1>2, <1>3, <1>4, TechnologySent DEF ToManager
<1>7. x \in Added(t) /\ x \in Of(t) /\ x \in Right(t, FALSE)
  BY <1>3 DEF Added, Of, Right
<1>8. ASSUME NEW u \in techs, NEW Y, LastIn(q, Of(u), Y)
      PROVE  LastIn(q', Of(u), Y) /\ (u \in sharing' <=> u \in sharing)
  BY <1>1, <1>3, <1>6, <1>8
<1>9. Right(t, t \in sharing') = Right(t, FALSE) BY <1>5 DEF Right
<1>10. \A u \in techs : Right(u, u \in sharing') = Right(u, u \in sharing)
  BY <1>1 DEF Right
<1>11. LastTethering'
  <2>1. LastIn(q', Of(t), Tetherings(t) \cup Right(t, t \in sharing'))
    <3>1. Of(t) \subseteq Tetherings(t) \cup Right(t, FALSE)
      BY Contents DEF Of, Added, Right
    <3> QED BY <1>9, <3>1 DEF LastIn
  <2>2. ~missed' => \A u \in techs : LastIn(q', Of(u), Tetherings(u) \cup Right(u, u \in sharing'))
    BY <1>6, <1>8, <1>10 DEF InternetInv, LastTethering
  <2> QED BY <1>1, <2>1, <2>2 DEF LastTethering
<1>12. Tethered'
  <2> SUFFICES ASSUME ~missed', online # {}, ~Lists'
               PROVE  /\ \A u \in techs' :
                           /\ Followed(u)'
                           /\ LastIn(q', Of(u), Right(u, u \in sharing'))
                           /\ NoneIn(q', Of(u)) => (u \in tethering_ <=> u \in sharing')
                      /\ \E u \in Technologies : ~NoneIn(q', Added(u))
    BY <1>2, <1>5 DEF Tethered
  <2>1. \A u \in techs : /\ Followed(u)
                         /\ LastIn(q, Of(u), Right(u, u \in sharing))
                         /\ NoneIn(q, Of(u)) => (u \in tethering_ <=> u \in sharing)
    BY <1>2, <1>6 DEF InternetInv, Tethered
  <2>2. manager_ = "live" BY <1>6 DEF Lists
  <2>3. Subscribed(manager_, service_, technologies_, x)
    BY <1>3, <2>2 DEF Subscribed, ToManager
  <2>4. /\ ~NoneIn(q', Added(t)) /\ ~NoneIn(q', Of(t)) /\ Followed(t)'
        /\ LastIn(q', Of(t), Right(t, FALSE))
    BY <1>6, <1>7, <2>3 DEF Followed
  <2>5. ASSUME NEW u \in techs
        PROVE  /\ Followed(u)'
               /\ LastIn(q', Of(u), Right(u, u \in sharing'))
               /\ NoneIn(q', Of(u)) => (u \in tethering_ <=> u \in sharing')
    BY <1>6, <1>8, <1>10, <2>1
  <2> QED BY <1>1, <1>9, <2>4, <2>5
<1> QED BY <1>2, <1>3, <1>4, <1>5, <1>11, <1>12, TechnologyStep

\* A technology disappears.
LEMMA RemoveTechnologyStep == ASSUME InternetInv, RemoveTechnology PROVE InternetInv'
<1>1. PICK t \in techs : /\ techs' = techs \ {t}
                         /\ Send(Signal("TechnologyRemoved", t, None))
  BY DEF RemoveTechnology
<1>2. Move /\ up /\ UNCHANGED <<up, services, online, sharing>> BY DEF RemoveTechnology
<1> DEFINE x == Signal("TechnologyRemoved", t, None)
<1>3. x \in Message /\ x.on = "TechnologyRemoved"
  <2>1. t \in Technologies BY <1>1 DEF InternetInv, Types
  <2> QED BY <2>1, Sendings
<1>4. Send(x) BY <1>1
<1> HIDE DEF x
<1>5. /\ techs' \in SUBSET Technologies /\ sharing' \in SUBSET Technologies /\ techs' \subseteq techs
  BY <1>1, <1>2 DEF InternetInv, Types
<1>6. /\ \A u, Y : x \notin Of(u) /\ LastIn(q, Of(u), Y) => LastIn(q', Of(u), Y)
      /\ Subscribed(manager_, service_, technologies_, x) =>
           \A X : NoneIn(q', X) => x \notin X
      /\ missed => missed'
      /\ Connects' \/ missed' \/ manager_ = "live"
  BY <1>2, <1>3, <1>4, TechnologySent DEF ToManager
<1>7. x \in Removals /\ \A u : x \notin Of(u) BY <1>3 DEF Removals, Of, Added, Tetherings
<1>8. LastTethering' BY <1>2, <1>5, <1>6, <1>7 DEF InternetInv, LastTethering
<1>9. Lists' \/ missed'
  <2>1. manager_ = "live" => Subscribed(manager_, service_, technologies_, x)
    BY <1>3 DEF Subscribed, ToManager
  <2> QED BY <1>6, <1>7, <2>1 DEF Lists
<1>10. Tethered' BY <1>9 DEF Tethered
<1> QED BY <1>2, <1>3, <1>4, <1>5, <1>8, <1>10, TechnologyStep

\* A technology begins to share its network, or stops.
LEMMA SetTetheringStep == ASSUME InternetInv, SetTethering PROVE InternetInv'
<1>1. PICK t \in techs :
        /\ sharing' = IF t \in sharing THEN sharing \ {t} ELSE sharing \cup {t}
        /\ Send(Signal("Tethering", t, IF t \in sharing THEN "off" ELSE "on"))
  BY DEF SetTethering
<1>2. Move /\ up /\ UNCHANGED <<up, services, online, techs>> BY DEF SetTethering
<1> DEFINE x == Signal("Tethering", t, IF t \in sharing THEN "off" ELSE "on")
<1>3. t \in Technologies /\ techs \in SUBSET Technologies /\ sharing \in SUBSET Technologies
      /\ q \in Seq(Message)
  BY <1>1 DEF InternetInv, Types
<1>4. /\ x \in Message /\ x.on = "Tethering" /\ x.path = t
      /\ x.val = IF t \in sharing' THEN "on" ELSE "off"
  <2>1. t \in sharing' <=> t \notin sharing BY <1>1
  <2> QED BY <1>3, <2>1, Sendings
<1>5. Send(x) BY <1>1
<1> HIDE DEF x
<1>6. /\ sharing' \in SUBSET Technologies /\ techs' \in SUBSET Technologies
      /\ \A u : u # t => (u \in sharing' <=> u \in sharing)
      /\ UNCHANGED <<technologies_, tethering_, pub, todo>>
  BY <1>1, <1>2, <1>3 DEF Move, Change, bridge
<1>7. /\ \A u : x \in Of(u) => u = x.path
      /\ \A u, Y : x \notin Of(u) /\ LastIn(q, Of(u), Y) => LastIn(q', Of(u), Y)
      /\ Subscribed(manager_, service_, technologies_, x) =>
           /\ \A X : NoneIn(q', X) => x \notin X
           /\ \A X, Y : x \in X /\ x \in Y => LastIn(q', X, Y)
      /\ ~Subscribed(manager_, service_, technologies_, x) => q' = q
      /\ \A X : NoneIn(q', X) => NoneIn(q, X)
      /\ missed => missed'
      /\ Missing(x) => missed'
      /\ Lists => Lists'
      /\ \A u : Followed(u) => Followed(u)'
  BY <1>2, <1>4, <1>5, TechnologySent
<1>8. Subscribed(manager_, service_, technologies_, x) <=> t \in technologies_
  BY <1>4 DEF Subscribed, ToManager
<1>9. x \in Tetherings(t) /\ x \in Of(t) /\ x \in Right(t, t \in sharing')
  BY <1>4 DEF Tetherings, Of, Right
<1>10. t \notin technologies_ /\ ~NoneIn(q, Added(t)) => missed'
  <2>1. ~NoneIn(q, Added(t)) => Announced(t) BY DEF NoneIn, Added, Announced
  <2> QED BY <1>4, <1>7, <2>1 DEF Missing
<1>11. \A u \in techs : u # t => Right(u, u \in sharing') = Right(u, u \in sharing)
  BY <1>6 DEF Right
<1>12. LastTethering'
  <2> SUFFICES ASSUME ~missed', NEW u \in techs
               PROVE  LastIn(q', Of(u), Tetherings(u) \cup Right(u, u \in sharing'))
    BY <1>2 DEF LastTethering
  <2>1. CASE u # t
    <3>1. LastIn(q, Of(u), Tetherings(u) \cup Right(u, u \in sharing))
      BY <1>7 DEF InternetInv, LastTethering
    <3>2. x \notin Of(u) BY <1>4, <1>7, <2>1
    <3> QED BY <1>7, <1>11, <2>1, <3>1, <3>2
  <2>2. CASE u = t
    <3> DEFINE Y == Tetherings(t) \cup Right(t, t \in sharing')
    <3>0. x \in Y /\ Of(t) \subseteq Y \cup Added(t) BY <1>9 DEF Of
    <3> HIDE DEF Y
    <3>1. CASE t \in technologies_ BY <1>7, <1>8, <1>9, <2>2, <3>0, <3>1 DEF Y
    <3>2. CASE t \notin technologies_
      <4>1. NoneIn(q, Added(t)) BY <1>10, <3>2
      <4>2. LastIn(q, Of(t), Y) BY <3>0, <4>1, LastAll
      <4> QED BY <1>7, <1>8, <2>2, <3>2, <4>2 DEF Y
    <3> QED BY <3>1, <3>2
  <2> QED BY <2>1, <2>2
<1>13. Tethered'
  <2> SUFFICES ASSUME ~missed', online # {}, ~Lists'
               PROVE  /\ \A u \in techs :
                           /\ Followed(u)'
                           /\ LastIn(q', Of(u), Right(u, u \in sharing'))
                           /\ NoneIn(q', Of(u)) => (u \in tethering_ <=> u \in sharing')
                      /\ techs # {} => \/ \E u \in Technologies : ~NoneIn(q', Added(u))
                                       \/ pub.Tethering = tethering_
    BY <1>2, <1>6 DEF Tethered
  <2>1. /\ \A u \in techs : /\ Followed(u)
                            /\ LastIn(q, Of(u), Right(u, u \in sharing))
                            /\ NoneIn(q, Of(u)) => (u \in tethering_ <=> u \in sharing)
        /\ techs # {} => \/ \E u \in Technologies : ~NoneIn(q, Added(u))
                         \/ pub.Tethering = tethering_
    BY <1>2, <1>7 DEF InternetInv, Tethered
  <2>2. t \in technologies_
    <3>1. Waits(todo, "follow", t) => missed'
      <4>1. Waits(todo, "follow", t) => Missing(x) BY <1>4, StepTypes DEF Waits, Missing
      <4> QED BY <1>7, <4>1
    <3> QED BY <1>10, <2>1, <3>1 DEF Followed
  <2>3. LastIn(q', Of(t), Right(t, t \in sharing')) /\ ~NoneIn(q', Of(t))
    BY <1>7, <1>8, <1>9, <2>2
  <2>4. ASSUME NEW u \in techs, u # t
        PROVE  /\ LastIn(q', Of(u), Right(u, u \in sharing'))
               /\ NoneIn(q', Of(u)) => (u \in tethering_ <=> u \in sharing')
    <3>1. x \notin Of(u) BY <1>4, <1>7, <2>4
    <3> QED BY <1>6, <1>7, <1>11, <2>1, <2>4, <3>1
  <2>5. techs # {} => \/ \E u \in Technologies : ~NoneIn(q', Added(u))
                      \/ pub.Tethering = tethering_
    BY <1>7, <2>1
  <2>6. \A u \in techs : Followed(u)' BY <1>7, <2>1
  <2> QED BY <2>3, <2>4, <2>5, <2>6
<1> QED BY <1>2, <1>4, <1>5, <1>6, <1>12, <1>13, TechnologyStep

----------------------------------------------------------------------------
(* The bridge and the daemon from the start.                               *)

\* A bridge that starts has everything still to ask.
LEMMA InternetInit == ASSUME Init PROVE InternetInv
<1>1. PICK listed \in SUBSET Services : services = SetToSeq(listed) BY DEF Init
<1>2. /\ manager_ = "idle" /\ service_ = None /\ current_service_ = None
      /\ technologies_ = {} /\ tethering_ = {}
      /\ pub = defaults_ /\ todo = <<Step("init", None)>>
      /\ up \in BOOLEAN /\ online \in SUBSET Range(services)
      /\ techs \in SUBSET Technologies /\ sharing = {}
      /\ missed = FALSE /\ restarted = FALSE /\ q = <<>>
  BY DEF Init
<1>3. /\ services \in Seq(Services) /\ online \in SUBSET Services
      /\ \A s \in online : \E i \in 1..Len(services) : services[i] = s
  <2> DEFINE n == Cardinality(listed)
  <2>1. IsFiniteSet(listed) BY ConnmanAssumption, FS_Subset
  <2>2. n \in Nat /\ SetToSeq(listed) \in [1..n -> listed] BY <2>1, SetToSeqAll
  <2> HIDE DEF n
  <2>3. services \in Seq(Services) BY <1>1, <2>2
  <2> QED BY <1>2, <2>3 DEF Range
<1>4. /\ todo \in Seq(Steps) /\ Ordered(todo) /\ Does(todo, "init")
      /\ \A do : Does(todo, do) => do = "init"
      /\ \A do, a : Waits(todo, do, a) => do = "init"
  <2> DEFINE x == Step("init", None)
  <2>1. x \in Steps /\ x.do = "init" /\ \A do, a : x = Step(do, a) => do = "init"
    BY StepTypes
  <2> HIDE DEF x
  <2>2. todo = <<x>> BY <1>2 DEF x
  <2> QED BY <2>1, <2>2, StepsOne
<1>5. q \in Seq(Message) /\ \A X, Y : NoneIn(q, X) /\ LastIn(q, X, Y) BY <1>2, QueueEmpty
<1>6. manager_ # None BY <1>2 DEF None
<1>7. Types
  <2>1. pub = [f \in Fields |-> pub[f]] BY <1>2, Defaults
  <2> QED BY <1>2, <1>3, <1>4, <1>5, <2>1 DEF Types
<1>8. Lives BY <1>2 DEF Lives, Life, Paired, Behind
<1>9. Managing BY <1>2, <1>4, <1>5, <1>6 DEF Managing
<1>10. Alive BY <1>2, <1>5, <1>6 DEF Alive
<1>11. LastState /\ ReadState BY <1>4, <1>5 DEF LastState, ReadState
<1>12. Serving /\ Tethered BY <1>4 DEF Serving, Tethered, Lists, Connects
<1>13. Leaving BY <1>2, Defaults DEF Leaving, Behind
<1>14. LastTethering BY <1>5 DEF LastTethering
<1> QED BY <1>7, <1>8, <1>9, <1>10, <1>11, <1>12, <1>13, <1>14 DEF InternetInv

\* Nothing changes, in a step that leaves the variables alone.
LEMMA InternetStill == ASSUME InternetInv, UNCHANGED vars PROVE InternetInv'
<1>1. /\ UNCHANGED <<manager_, service_, current_service_, technologies_, tethering_, pub, todo>>
      /\ UNCHANGED <<up, services, online, techs, sharing, restarted, missed, q>>
  BY DEF vars, bridge, daemon
<1>2. /\ Ordered(todo)' <=> Ordered(todo)
      /\ \A do : Does(todo, do)' <=> Does(todo, do)
      /\ \A do, a : Waits(todo, do, a)' <=> Waits(todo, do, a)
      /\ State' = State
      /\ Restarts' <=> Restarts
      /\ \A t : Followed(t)' <=> Followed(t)
      /\ \A s : Shows(s)' <=> Shows(s)
  BY <1>1 DEF State, Restarts, Followed, Shows
<1>3. (Connects' <=> Connects) /\ (Lists' <=> Lists) BY <1>1, <1>2 DEF Connects, Lists
<1>4. Types' BY <1>1, <1>2 DEF InternetInv, Types
<1>5. Lives' /\ Managing' /\ Alive' BY <1>1, <1>2 DEF InternetInv, Lives, Managing, Alive
<1>6. LastState' /\ ReadState' BY <1>1, <1>2 DEF InternetInv, LastState, ReadState
<1>7. Serving' /\ Leaving' BY <1>1, <1>2, <1>3 DEF InternetInv, Serving, Leaving
<1>8. LastTethering' BY <1>1 DEF InternetInv, LastTethering
<1>9. Tethered' BY <1>1, <1>2, <1>3 DEF InternetInv, Tethered
<1> QED BY <1>4, <1>5, <1>6, <1>7, <1>8, <1>9 DEF InternetInv

\* Every step keeps the invariant.
LEMMA InternetStep == ASSUME InternetInv, [Next]_vars PROVE InternetInv'
<1>1. CASE Handler BY <1>1, HandlerSteps
<1>2. CASE Running BY <1>2, RunningSteps
<1>3. CASE Daemon
  BY <1>3, StartStep, StopStep, AddServiceStep, RemoveServiceStep, ServiceOnlineStep,
     ServiceOfflineStep, AddTechnologyStep, RemoveTechnologyStep, SetTetheringStep DEF Daemon
<1>4. CASE UNCHANGED vars BY <1>4, InternetStill
<1> QED BY <1>1, <1>2, <1>3, <1>4 DEF Next, Loop

\* InternetInv holds in every state of the bridge and the daemon, however many
\* services and technologies there are and however often they change.
THEOREM InternetInvHolds == Spec => []InternetInv
<1>1. Init => InternetInv BY InternetInit
<1>2. InternetInv /\ [Next]_vars => InternetInv' BY InternetStep
<1> QED BY <1>1, <1>2, PTL DEF Spec

\* A service's signal is handled, and services or technologies are read, only
\* while there is a manager's proxy, over any stops and restarts: the calls at
\* 144 and 220 never go through null, although a service that is still followed
\* may call back after reset_manager (127-132, 177-179).
THEOREM ManagerThereHolds == Spec => []ManagerThere
<1>1. InternetInv => ManagerThere
  <2> SUFFICES ASSUME InternetInv PROVE ManagerThere OBVIOUS
  <2>1. ASSUME todo = <<>>, q # <<>>, Head(q).on = "ServiceState" PROVE manager_ # None
    <3>1. Head(q) \notin Starts(Message) BY <2>1 DEF Starts
    <3> QED BY <2>1, <3>1, Handling
  <2>2. todo # <<>> => manager_ # None BY DEF InternetInv, Managing
  <2> QED BY <2>1, <2>2 DEF ManagerThere, Doing
<1> QED BY <1>1, InternetInvHolds, PTL

\* When the handlers are done and the daemon is gone, nothing is shown of it:
\* what a handler that was running read of it does not outlive it (127-132).
THEOREM DefaultsShownHolds == Spec => []DefaultsShown
<1>1. InternetInv => DefaultsShown BY DEF InternetInv, Managing, DefaultsShown, Settled
<1> QED BY <1>1, InternetInvHolds, PTL

\* When the handlers are done and no change fell between a read and its
\* connect: while a service is online, "connected" is shown, with the name and
\* the type of one that is online and followed, and the tethering; and with none
\* online "connected" is not shown, unless the daemon has restarted
\* (RestartShown).  The order in which the changes and the reads of them came
\* does not matter (62-263).  Which of several online services is shown is left
\* open: it need not be ConnMan's default one, the first of the list (208-217).
THEOREM InternetShownHolds == Spec => []InternetShown
<1>1. InternetInv => InternetShown
  <2> SUFFICES ASSUME InternetInv, Settled, up
               PROVE  /\ online # {} => pub.NetworkState = "connected"
                      /\ pub.NetworkState = "connected" /\ ~restarted => online # {}
                      /\ online # {} => /\ service_ \in online /\ current_service_ = service_
                                        /\ pub.NetworkName = service_
                                        /\ pub.NetworkType = net_type(TypeOf[service_])
                      /\ online # {} /\ techs # {} =>
                           /\ pub.Tethering = tethering_
                           /\ tethering_ \cap techs = sharing \cap techs
    BY DEF InternetShown, StateShown, ServiceShown, TetheringShown
  <2>1. todo = <<>> /\ q = <<>> /\ ~missed BY DEF Settled
  <2>2. /\ \A X : NoneIn(q, X)
        /\ \A do, a : ~Does(todo, do) /\ ~Waits(todo, do, a)
    BY <2>1, QueueEmpty, StepsNone
  <2>3. ~Connects /\ ~Lists BY <2>2 DEF Connects, Lists, Restarts
  <2>4. online # {} => /\ current_service_ \in online /\ Shows(current_service_)
                       /\ service_ = current_service_
    BY <2>1, <2>2, <2>3 DEF InternetInv, Serving
  <2>5. ~restarted /\ online = {} => pub.NetworkState # "connected"
    BY <2>1, <2>2 DEF InternetInv, Leaving
  <2>6. online # {} => /\ \A t \in techs : t \in tethering_ <=> t \in sharing
                       /\ techs # {} => pub.Tethering = tethering_
    BY <2>1, <2>2, <2>3 DEF InternetInv, Tethered
  <2> QED BY <2>4, <2>5, <2>6 DEF Shows
<1> QED BY <1>1, InternetInvHolds, PTL

=============================================================================
