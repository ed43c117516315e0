---------------------------- MODULE MirrorProofs ----------------------------
(***************************************************************************)
(* Proofs about the bridges to profiled and MCE, as Providers composes     *)
(* them: what they show when everything is handled, and that they never    *)
(* show an older value than they have shown.                               *)
(***************************************************************************)
EXTENDS Providers, SignalsProofs

----------------------------------------------------------------------------
(* Profile: the invariant, in terms of the queue.                          *)

Owner == [on : {"registered", "unregistered"}, active : {FALSE}, name : {NoName},
          number : {0}]
Changed == [on : {"profile_changed"}, active : BOOLEAN, name : Profiles, number : Nat]
Active == {d \in Changed : d.active}

Told == Owner \cup Changed
numbers == [d \in Told |-> d.number]

OnlyOwners(ds) == NoneIn(ds, Changed)
NoOwner(ds) == NoneIn(ds, Owner)

\* the numbers of the changes that wait never decrease
InOrder(ds, from, upto) == Rising(ds, Changed, numbers, from, upto)

\* the last news about the owner of the name tells whether it is there
Saying(there) == {d \in Owner : d.on = "registered" <=> there}
LastOwner(ds, there) == LastIn(ds, Owner, Saying(there))

\* the last change that waits has the active profile, and so has the property
\* when none waits
Naming(name) == {d \in Active : d.name = name}
LastActive(ds, shown, name) == /\ LastIn(ds, Active, Naming(name))
                               /\ NoneIn(ds, Active) => shown = name

ProfileType ==
  /\ profiled_ \in {"none", "idle", "live"}
  /\ initConn \in {init_conn, <<"connect">>, <<>>}
  /\ Name \in Profiles \cup {NoName} /\ active \in Profiles
  /\ running \in BOOLEAN /\ unheard \in BOOLEAN
  /\ number \in Nat /\ NameNumber \in -1..number
  /\ deliveries \in Seq(Told)

\* nothing but news about the owner comes to a proxy that is not connected
Disconnected ==
  /\ initConn # <<>> => profiled_ = "idle"
  /\ profiled_ # "live" => OnlyOwners(deliveries)

\* the property follows the daemon unless news about its owner wait
Settling ==
  NoOwner(deliveries) =>
    IF running
    THEN /\ initConn = <<>> => profiled_ = "live"
         /\ ~unheard /\ initConn # init_conn => LastActive(deliveries, Name, active)
    ELSE Name = NoName /\ deliveries = <<>>

ProfileInv ==
  /\ ProfileType
  /\ Disconnected
  /\ InOrder(deliveries, NameNumber, number)
  /\ LastOwner(deliveries, running)
  /\ Settling

----------------------------------------------------------------------------
(* Profile: lemmas about the queue.                                        *)

\* What waits is news about the owner or a change, and a change has a number.
LEMMA ToldSets ==
  /\ \A d \in Told : d \in Owner <=> d \notin Changed
  /\ \A d \in Told : d \in Owner <=> d.on # "profile_changed"
  /\ \A d \in Told : d \in Active <=> d \in Changed /\ d.active
  /\ Owner \subseteq Told /\ Active \subseteq Changed /\ Changed \subseteq Told
  /\ \A d \in Changed : d.on = "profile_changed" /\ d.name \in Profiles /\ d.number \in Nat
  /\ \A d \in Told : d.number \in Nat
  /\ \A d \in Told : numbers[d] = d.number
  /\ numbers \in [Told -> Int]
<1>1. \A d \in Owner : d.on # "profile_changed" /\ d.number \in Nat BY DEF Owner
<1>2. \A d \in Changed : d.on = "profile_changed" /\ d.name \in Profiles /\ d.number \in Nat
  BY DEF Changed
<1>3. \A d \in Told : d.number \in Nat BY <1>1, <1>2 DEF Told
<1>4. numbers \in [Told -> Int] /\ \A d \in Told : numbers[d] = d.number
  BY <1>3 DEF numbers
<1> QED BY <1>1, <1>2, <1>3, <1>4 DEF Told, Active

\* Where neither news about the owner nor a change waits, nothing does.
LEMMA OnlyNews ==
  \A ds \in Seq(Told) : NoneIn(ds, Owner) /\ NoneIn(ds, Changed) => ds = <<>>
<1> SUFFICES ASSUME NEW ds \in Seq(Told), NoneIn(ds, Owner), NoneIn(ds, Changed)
             PROVE  ds = <<>>
  OBVIOUS
<1>1. NoneIn(ds, Told) BY DEF NoneIn, Told
<1> QED BY <1>1, QueueEmpty

\* Owners, by which a proxy's signals are lost with it (46-65), keeps all
\* news about the owner, and no other signal.
LEMMA OwnersLeft ==
  ASSUME NEW ds \in Seq(Told)
  PROVE  /\ Owners(ds) \in Seq(Told)
         /\ OnlyOwners(Owners(ds))
         /\ \A there : LastOwner(ds, there) => LastOwner(Owners(ds), there)
         /\ NoOwner(Owners(ds)) => NoOwner(ds) /\ Owners(ds) = <<>>
<1> DEFINE out == Owners(ds)
           gone == {"profile_changed"}
<1>1. \A d \in Changed : d.on \in gone BY ToldSets
<1>2. \A d \in Owner : d.on \notin gone BY ToldSets
<1>3. out = Without(ds, gone) BY DEF Owners
<1> HIDE DEF out, gone
<1>4. /\ out \in Seq(Told) /\ OnlyOwners(out)
      /\ \A there : LastOwner(ds, there) => LastOwner(out, there)
      /\ NoOwner(out) => NoOwner(ds)
  BY <1>1, <1>2, <1>3, QueueWithout DEF OnlyOwners, LastOwner, NoOwner
<1>5. NoOwner(out) => out = <<>>
  BY <1>4, OnlyNews DEF OnlyOwners, NoOwner
<1> QED BY <1>4, <1>5 DEF out

\* What a signal more does to the parts of the invariant.
LEMMA DeliveryAppended ==
  ASSUME NEW ds \in Seq(Told), NEW d \in Told, NEW there, NEW shown, NEW name
  PROVE  /\ Append(ds, d) \in Seq(Told)
         /\ OnlyOwners(ds) /\ d \in Owner => OnlyOwners(Append(ds, d))
         /\ NoOwner(Append(ds, d)) <=> NoOwner(ds) /\ d \notin Owner
         /\ d \in Owner /\ (d.on = "registered" <=> there) => LastOwner(Append(ds, d), there)
         /\ d \in Changed /\ LastOwner(ds, there) => LastOwner(Append(ds, d), there)
         /\ d \in Active => LastActive(Append(ds, d), shown, d.name)
         /\ d \notin Active /\ LastActive(ds, shown, name)
              => LastActive(Append(ds, d), shown, name)
<1> DEFINE s == Append(ds, d)
<1>1. /\ s \in Seq(Told)
      /\ \A X : NoneIn(s, X) <=> NoneIn(ds, X) /\ d \notin X
      /\ \A X, Y : d \in X /\ d \in Y => LastIn(s, X, Y)
      /\ \A X, Y : d \notin X /\ LastIn(ds, X, Y) => LastIn(s, X, Y)
  BY QueueAppended
<1>2. d \in Owner <=> d \notin Changed BY ToldSets
<1>3. d \in Owner /\ (d.on = "registered" <=> there) => d \in Saying(there) BY DEF Saying
<1>4. d \in Active => d \in Naming(d.name) BY DEF Naming
<1> HIDE DEF s
<1>5. /\ OnlyOwners(ds) /\ d \in Owner => OnlyOwners(s)
      /\ NoOwner(s) <=> NoOwner(ds) /\ d \notin Owner
  BY <1>1, <1>2 DEF OnlyOwners, NoOwner
<1>6. /\ d \in Owner /\ (d.on = "registered" <=> there) => LastOwner(s, there)
      /\ d \in Changed /\ LastOwner(ds, there) => LastOwner(s, there)
  BY <1>1, <1>2, <1>3 DEF LastOwner
<1>7. /\ d \in Active => LastActive(s, shown, d.name)
      /\ d \notin Active /\ LastActive(ds, shown, name) => LastActive(s, shown, name)
  BY <1>1, <1>4 DEF LastActive
<1> QED BY <1>1, <1>5, <1>6, <1>7 DEF s

\* What it does to the order of the changes.
LEMMA ChangeInOrder ==
  ASSUME NEW ds \in Seq(Told), NEW d \in Told, NEW from \in Int, NEW upto \in Int,
         NEW now \in Int, upto <= now, InOrder(ds, from, upto),
         d \in Changed => from <= d.number /\ upto <= d.number /\ d.number <= now
  PROVE  InOrder(Append(ds, d), from, now)
BY ToldSets, RisingAppended DEF InOrder

\* What the handling of the first signal does to them.
LEMMA DeliveryHandled ==
  ASSUME NEW ds \in Seq(Told), ds # <<>>, NEW from \in Int, NEW upto \in Int,
         InOrder(ds, from, upto)
  PROVE  /\ Tail(ds) \in Seq(Told) /\ Head(ds) \in Told
         /\ OnlyOwners(ds) => OnlyOwners(Tail(ds)) /\ Head(ds) \in Owner
         /\ NoOwner(ds) <=> NoOwner(Tail(ds)) /\ Head(ds) \notin Owner
         /\ InOrder(Tail(ds), from, upto)
         /\ Head(ds) \in Changed =>
              /\ from <= Head(ds).number /\ Head(ds).number <= upto
              /\ InOrder(Tail(ds), Head(ds).number, upto)
         /\ \A there : LastOwner(ds, there) =>
              /\ LastOwner(Tail(ds), there)
              /\ NoOwner(Tail(ds)) /\ Head(ds) \in Owner =>
                   (Head(ds).on = "registered" <=> there)
         /\ \A shown, name : LastActive(ds, shown, name) =>
              /\ Head(ds) \notin Active => LastActive(Tail(ds), shown, name)
              /\ Head(ds) \in Active => LastActive(Tail(ds), Head(ds).name, name)
<1> DEFINE s == Tail(ds)
           d == Head(ds)
<1>1. /\ s \in Seq(Told) /\ d \in Told
      /\ \A X : NoneIn(ds, X) <=> NoneIn(s, X) /\ d \notin X
      /\ \A X, Y : LastIn(ds, X, Y) =>
              /\ LastIn(s, X, Y)
              /\ NoneIn(s, X) /\ d \in X => d \in Y
  BY QueueHandled
<1>2. /\ InOrder(s, from, upto)
      /\ d \in Changed => /\ from <= d.number /\ d.number <= upto
                          /\ InOrder(s, d.number, upto)
  <2>1. /\ numbers \in [Told -> Int] /\ Rising(ds, Changed, numbers, from, upto)
        /\ numbers[d] = d.number
    BY <1>1, ToldSets DEF InOrder
  <2>2. /\ Rising(s, Changed, numbers, from, upto)
        /\ d \in Changed => /\ from <= numbers[d] /\ numbers[d] <= upto
                            /\ Rising(s, Changed, numbers, numbers[d], upto)
    BY <2>1, RisingHandled
  <2> HIDE DEF s, d
  <2> QED BY <2>1, <2>2 DEF InOrder
<1>3. d \in Owner <=> d \notin Changed BY <1>1, ToldSets
<1> HIDE DEF s, d
<1>4. /\ OnlyOwners(ds) => OnlyOwners(s) /\ d \in Owner
      /\ NoOwner(ds) <=> NoOwner(s) /\ d \notin Owner
  BY <1>1, <1>3 DEF OnlyOwners, NoOwner
<1>5. \A there : LastOwner(ds, there) =>
              /\ LastOwner(s, there)
              /\ NoOwner(s) /\ d \in Owner => d \in Saying(there)
  BY <1>1 DEF LastOwner, NoOwner
<1>6. \A there : d \in Saying(there) => (d.on = "registered" <=> there) BY DEF Saying
<1>7. \A shown, name : LastActive(ds, shown, name) =>
              /\ d \notin Active => LastActive(s, shown, name)
              /\ d \in Active => LastActive(s, d.name, name)
  <2>1. \A name : d \in Naming(name) => d.name = name BY DEF Naming
  <2> QED BY <1>1, <2>1 DEF LastActive
<1> QED BY <1>1, <1>2, <1>4, <1>5, <1>6, <1>7 DEF s, d

----------------------------------------------------------------------------
(* Profile: the invariant holds initially and is preserved.                *)

\* The invariant holds when the bridge is constructed.
LEMMA ProfileInvInit == ProfileInit => ProfileInv
<1> SUFFICES ASSUME ProfileInit PROVE ProfileInv OBVIOUS
<1> USE DEF ProfileInit
<1>1. ProfileType
  <2>1. number \in Nat /\ NameNumber \in -1..number /\ deliveries \in Seq(Told) OBVIOUS
  <2>2. initConn \in {init_conn, <<"connect">>, <<>>} OBVIOUS
  <2> QED BY <2>1, <2>2 DEF ProfileType
<1>3. Disconnected BY QueueEmpty DEF Disconnected, OnlyOwners
<1>4. InOrder(deliveries, NameNumber, number) BY QueueEmpty DEF InOrder
<1>5. LastOwner(deliveries, running) BY QueueEmpty DEF LastOwner
<1>6. Settling BY DEF Settling, init_conn
<1> QED BY <1>1, <1>3, <1>4, <1>5, <1>6 DEF ProfileInv

\* The three values of initConn are distinct, and what Head and Tail make of
\* them.
LEMMA InitConn ==
  /\ init_conn # <<>> /\ <<"connect">> # <<>> /\ init_conn # <<"connect">>
  /\ Head(init_conn) = "get_profile" /\ Tail(init_conn) = <<"connect">>
  /\ Head(<<"connect">>) = "connect" /\ Tail(<<"connect">>) = <<>>
BY DEF init_conn

\* Numbers of changes are integers, -1 where there is none.
LEMMA NumberIsInt ==
  ProfileType => number \in Int /\ NameNumber \in Int /\ -1 \in Int
BY DEF ProfileType

\* init_conn reads the profile (63): the property has the value and the number
\* the daemon has now, and nothing but owner news waits.
LEMMA GetProfileKeeps == ProfileInv /\ GetProfile => ProfileInv'
<1> SUFFICES ASSUME ProfileInv, GetProfile PROVE ProfileInv' OBVIOUS
<1> USE DEF ProfileInv, GetProfile, profiled
<1>1. initConn = init_conn /\ initConn' = <<"connect">>
  BY InitConn DEF ProfileType
<1>2. profiled_ = "idle" /\ OnlyOwners(deliveries)
  BY <1>1, InitConn DEF Disconnected
<1>3. ProfileType'
  <2>1. Name' \in Profiles \cup {NoName} /\ NameNumber' \in -1..number
    BY DEF ProfileType
  <2> QED BY <1>1, <2>1 DEF ProfileType
<1>4. Disconnected' BY <1>2 DEF Disconnected, OnlyOwners
<1>5. InOrder(deliveries, NameNumber, number)'
  BY <1>2, QueueNone DEF InOrder, OnlyOwners
<1>6. LastOwner(deliveries, running)' OBVIOUS
<1>7. Settling'
  <2> SUFFICES ASSUME NoOwner(deliveries)
               PROVE  IF running THEN LastActive(deliveries, Name', active)
                      ELSE Name' = NoName /\ deliveries = <<>>
    BY <1>1, InitConn DEF Settling
  <2>1. deliveries = <<>> BY <1>2, OnlyNews DEF NoOwner, OnlyOwners, ProfileType
  <2>2. CASE running BY <2>1, <2>2, QueueEmpty DEF LastActive
  <2>3. CASE ~running BY <2>3 DEF Settling
  <2> QED BY <2>2, <2>3
<1> QED BY <1>3, <1>4, <1>5, <1>6, <1>7

\* init_conn connects the proxy (64-65): a change since the read is unheard.
LEMMA ConnectProfileKeeps == ProfileInv /\ ConnectProfile => ProfileInv'
<1> SUFFICES ASSUME ProfileInv, ConnectProfile PROVE ProfileInv' OBVIOUS
<1> USE DEF ProfileInv, ConnectProfile, profiled
<1>1. initConn = <<"connect">> /\ initConn' = <<>>
  BY InitConn DEF ProfileType
<1>2. ProfileType' BY <1>1 DEF ProfileType
<1>3. Disconnected' BY <1>1 DEF Disconnected
<1>4. Settling' BY <1>1, InitConn DEF Settling
<1> QED BY <1>2, <1>3, <1>4

\* The daemon came, or another instance of it (62, 74): the proxy is replaced,
\* and the signals for the old one are lost.
LEMMA OnProfiledRegisteredKeeps ==
  ProfileInv /\ OnProfiledRegistered => ProfileInv'
<1> SUFFICES ASSUME ProfileInv, OnProfiledRegistered PROVE ProfileInv' OBVIOUS
<1> USE DEF ProfileInv, OnProfiledRegistered, HandleDelivery, profiled
<1> DEFINE rest == Tail(deliveries)
<1>0. deliveries \in Seq(Told) /\ number \in Int /\ NameNumber \in Int
      /\ deliveries # <<>> /\ LastOwner(deliveries, running)
      /\ InOrder(deliveries, NameNumber, number)
  BY NumberIsInt DEF ProfileType
<1>1. /\ rest \in Seq(Told) /\ Head(deliveries) \in Owner
      /\ LastOwner(rest, running)
      /\ NoOwner(rest) => running
  <2>1. Head(deliveries) \in Told /\ Head(deliveries).on = "registered" BY <1>0, Tailed
  <2>2. Head(deliveries) \in Owner BY <2>1, ToldSets
  <2> HIDE DEF OnProfiledRegistered, HandleDelivery, ProfileInv
  <2>3. /\ rest \in Seq(Told) /\ LastOwner(rest, running)
        /\ NoOwner(rest) => (Head(deliveries).on = "registered" <=> running)
    BY <1>0, <2>2, DeliveryHandled
  <2> QED BY <2>1, <2>2, <2>3
<1> HIDE DEF rest
<1>2. /\ deliveries' = Owners(rest) /\ deliveries' \in Seq(Told)
      /\ OnlyOwners(deliveries') /\ LastOwner(deliveries', running)
      /\ NoOwner(deliveries') => NoOwner(rest)
  BY <1>1, OwnersLeft DEF rest
<1>3. ProfileType' BY <1>2 DEF ProfileType
<1>4. Disconnected' BY <1>2 DEF Disconnected
<1>5. InOrder(deliveries, NameNumber, number)' BY <1>2, QueueNone DEF InOrder, OnlyOwners
<1>6. LastOwner(deliveries, running)' BY <1>2
<1>7. Settling' BY <1>1, <1>2, InitConn DEF Settling
<1> QED BY <1>3, <1>4, <1>5, <1>6, <1>7

\* The daemon went (70-73, reset_all): the proxy and the value go.
LEMMA OnProfiledUnregisteredKeeps ==
  ProfileInv /\ OnProfiledUnregistered => ProfileInv'
<1> SUFFICES ASSUME ProfileInv, OnProfiledUnregistered PROVE ProfileInv' OBVIOUS
<1> USE DEF ProfileInv, OnProfiledUnregistered, HandleDelivery, profiled
<1> DEFINE rest == Tail(deliveries)
<1>0. deliveries \in Seq(Told) /\ number \in Int /\ NameNumber \in Int
      /\ deliveries # <<>> /\ LastOwner(deliveries, running)
      /\ InOrder(deliveries, NameNumber, number)
  BY NumberIsInt DEF ProfileType
<1>1. /\ rest \in Seq(Told) /\ Head(deliveries) \in Owner
      /\ LastOwner(rest, running)
      /\ NoOwner(rest) => ~running
  <2>1. Head(deliveries) \in Told /\ Head(deliveries).on = "unregistered" BY <1>0, Tailed
  <2>2. Head(deliveries) \in Owner BY <2>1, ToldSets
  <2> HIDE DEF OnProfiledUnregistered, HandleDelivery, ProfileInv
  <2>3. /\ rest \in Seq(Told) /\ LastOwner(rest, running)
        /\ NoOwner(rest) => (Head(deliveries).on = "registered" <=> running)
    BY <1>0, <2>2, DeliveryHandled
  <2> QED BY <2>1, <2>2, <2>3
<1> HIDE DEF rest
<1>2. /\ deliveries' = Owners(rest) /\ deliveries' \in Seq(Told)
      /\ OnlyOwners(deliveries') /\ LastOwner(deliveries', running)
      /\ NoOwner(deliveries') => NoOwner(rest) /\ deliveries' = <<>>
  BY <1>1, OwnersLeft DEF rest
<1>3. ProfileType' BY <1>2 DEF ProfileType
<1>4. Disconnected' BY <1>2 DEF Disconnected
<1>5. InOrder(deliveries, NameNumber, number)' BY <1>2, QueueNone DEF InOrder, OnlyOwners
<1>6. LastOwner(deliveries, running)' BY <1>2
<1>7. Settling' BY <1>1, <1>2 DEF Settling
<1> QED BY <1>3, <1>4, <1>5, <1>6, <1>7

\* A signal of a change (51-61), of the active profile or another.
LEMMA OnProfileChangedKeeps ==
  ProfileInv /\ OnProfileChanged => ProfileInv'
<1> SUFFICES ASSUME ProfileInv, OnProfileChanged PROVE ProfileInv' OBVIOUS
<1> USE DEF ProfileInv, OnProfileChanged, HandleDelivery, profiled
<1> DEFINE rest == Tail(deliveries)
           d == Head(deliveries)
<1>0. deliveries \in Seq(Told) /\ number \in Int /\ NameNumber \in Int
  BY NumberIsInt DEF ProfileType
<1>1. /\ rest \in Seq(Told) /\ d \in Told
      /\ OnlyOwners(deliveries) => OnlyOwners(rest) /\ d \in Owner
      /\ NoOwner(rest) /\ d \notin Owner => NoOwner(deliveries)
      /\ InOrder(rest, NameNumber, number)
      /\ d \in Changed =>
              /\ NameNumber <= d.number /\ d.number <= number
              /\ InOrder(rest, d.number, number)
      /\ LastOwner(rest, running)
  BY <1>0, DeliveryHandled
<1>2. LastActive(deliveries, Name, active) =>
              /\ d \notin Active => LastActive(rest, Name, active)
              /\ d \in Active => LastActive(rest, d.name, active)
  BY <1>0, DeliveryHandled
<1>3. d \in Changed /\ (d \in Active <=> d.active) /\ d.name \in Profiles /\ d \notin Owner
  BY <1>1, ToldSets
<1>4. deliveries' = rest OBVIOUS
<1>5. d.number \in Nat BY <1>1, ToldSets
<1> HIDE DEF rest
<1>6. NameNumber' \in -1..number /\ Name' \in Profiles \cup {NoName}
  BY <1>1, <1>3, <1>5 DEF ProfileType
<1>7. ProfileType' BY <1>1, <1>4, <1>6 DEF ProfileType
<1>8. Disconnected' BY <1>1, <1>3 DEF Disconnected
<1>9. InOrder(deliveries, NameNumber, number)' BY <1>1, <1>3, <1>4
<1>10. LastOwner(deliveries, running)' BY <1>1, <1>4
<1>11. Settling'
  <2> SUFFICES ASSUME NoOwner(rest)
               PROVE  /\ running
                      /\ initConn = <<>> => profiled_ = "live"
                      /\ ~unheard /\ initConn # init_conn => LastActive(rest, Name', active)
    BY <1>4 DEF Settling
  <2>1. NoOwner(deliveries) BY <1>1, <1>3
  <2>2. running BY <2>1 DEF Settling
  <2> QED BY <1>2, <1>3, <2>1, <2>2 DEF Settling
<1> QED BY <1>7, <1>8, <1>9, <1>10, <1>11

\* What the daemon sends are signals the bridge may be told, and a change it
\* makes does not touch the bridge.
LEMMA DeliveryTold ==
  /\ \A on \in {"registered", "unregistered"} :
       LET d == Delivery(on, FALSE, NoName, 0)
       IN  d \in Told /\ d \in Owner /\ d \notin Changed /\ d.on = on
  /\ \A isActive \in BOOLEAN, name \in Profiles, n \in Nat :
       LET d == Delivery("profile_changed", isActive, name, n)
       IN  d \in Told /\ d \in Changed /\ (d \in Active <=> isActive)
           /\ d.name = name /\ d.number = n
<1>1. ASSUME NEW on \in {"registered", "unregistered"}
      PROVE  Delivery(on, FALSE, NoName, 0) \in Owner /\ Delivery(on, FALSE, NoName, 0).on = on
  BY DEF Delivery, Owner
<1>2. ASSUME NEW isActive \in BOOLEAN, NEW name \in Profiles, NEW n \in Nat
      PROVE  LET d == Delivery("profile_changed", isActive, name, n)
             IN  d \in Changed /\ (d \in Active <=> isActive) /\ d.name = name /\ d.number = n
  BY DEF Delivery, Changed, Active
<1>3. /\ \A d \in Owner : d \in Told /\ d \notin Changed
      /\ \A d \in Changed : d \in Told
  BY ToldSets
<1>4. ASSUME NEW on \in {"registered", "unregistered"}
      PROVE  LET d == Delivery(on, FALSE, NoName, 0)
             IN  d \in Told /\ d \in Owner /\ d \notin Changed /\ d.on = on
  BY <1>1, <1>3
<1>5. ASSUME NEW isActive \in BOOLEAN, NEW name \in Profiles, NEW n \in Nat
      PROVE  LET d == Delivery("profile_changed", isActive, name, n)
             IN  d \in Told /\ d \in Changed /\ (d \in Active <=> isActive)
                 /\ d.name = name /\ d.number = n
  BY <1>2, <1>3
<1> QED BY <1>4, <1>5, Zenon

\* The daemon starts or is replaced: the last owner news say it is there.
LEMMA StartProfiledKeeps == ProfileInv /\ StartProfiled => ProfileInv'
<1> SUFFICES ASSUME ProfileInv, StartProfiled PROVE ProfileInv' OBVIOUS
<1> USE DEF ProfileInv, StartProfiled, ProfileMove, profileBridge
<1> DEFINE d == Delivery("registered", FALSE, NoName, 0)
<1>0. /\ deliveries \in Seq(Told) /\ number \in Int /\ NameNumber \in Int
      /\ number + 1 \in Int /\ number <= number + 1
  BY NumberIsInt DEF ProfileType
<1>1. d \in Told /\ d \in Owner /\ d \notin Changed /\ d.on = "registered"
  BY DeliveryTold
<1>2. deliveries' = Append(deliveries, d) OBVIOUS
<1> HIDE DEF d
<1>3. /\ deliveries' \in Seq(Told)
      /\ OnlyOwners(deliveries) => OnlyOwners(deliveries')
      /\ ~NoOwner(deliveries')
      /\ InOrder(deliveries', NameNumber, number + 1)
      /\ LastOwner(deliveries', TRUE)
  <2> HIDE DEF StartProfiled, StopProfiled
  <2>1. (d.on = "registered" <=> TRUE) BY <1>1
  <2> QED BY <1>0, <1>1, <1>2, <2>1, DeliveryAppended, ChangeInOrder
<1>4. ProfileType'
  <2>1. number' \in Nat /\ NameNumber' \in -1..number' BY DEF ProfileType
  <2> QED BY <1>3, <2>1 DEF ProfileType
<1>5. Disconnected' BY <1>3 DEF Disconnected
<1>6. InOrder(deliveries, NameNumber, number)' BY <1>3
<1>7. LastOwner(deliveries, running)' BY <1>3
<1>8. Settling' BY <1>3 DEF Settling
<1> QED BY <1>4, <1>5, <1>6, <1>7, <1>8

\* The daemon stops: the last owner news say it is gone.
LEMMA StopProfiledKeeps == ProfileInv /\ StopProfiled => ProfileInv'
<1> SUFFICES ASSUME ProfileInv, StopProfiled PROVE ProfileInv' OBVIOUS
<1> USE DEF ProfileInv, StopProfiled, ProfileMove, profileBridge
<1> DEFINE d == Delivery("unregistered", FALSE, NoName, 0)
<1>0. /\ deliveries \in Seq(Told) /\ number \in Int /\ NameNumber \in Int
      /\ number <= number
  BY NumberIsInt DEF ProfileType
<1>1. d \in Told /\ d \in Owner /\ d \notin Changed /\ d.on # "registered"
  BY DeliveryTold
<1>2. deliveries' = Append(deliveries, d) OBVIOUS
<1> HIDE DEF d
<1>3. /\ deliveries' \in Seq(Told)
      /\ OnlyOwners(deliveries) => OnlyOwners(deliveries')
      /\ ~NoOwner(deliveries')
      /\ InOrder(deliveries', NameNumber, number)
      /\ LastOwner(deliveries', FALSE)
  <2> HIDE DEF StartProfiled, StopProfiled
  <2>1. (d.on = "registered" <=> FALSE) BY <1>1
  <2> QED BY <1>0, <1>1, <1>2, <2>1, DeliveryAppended, ChangeInOrder
<1>4. ProfileType' BY <1>3 DEF ProfileType
<1>5. Disconnected' BY <1>3 DEF Disconnected
<1>6. LastOwner(deliveries, running)' BY <1>3
<1>7. Settling' BY <1>3 DEF Settling
<1> QED BY <1>3, <1>4, <1>5, <1>6, <1>7

\* A signal of a change reaches the bridge exactly when it is connected.
LEMMA SignalledKeeps ==
  ASSUME ProfileInv, NEW isActive \in BOOLEAN, NEW name \in Profiles,
         NEW n \in Nat, number <= n, Signalled(isActive, name, n), UNCHANGED profileBridge
  PROVE  /\ deliveries' \in Seq(Told)
         /\ profiled_ # "live" => OnlyOwners(deliveries') /\ deliveries' = deliveries
         /\ InOrder(deliveries', NameNumber, n)
         /\ LastOwner(deliveries', running)
         /\ NoOwner(deliveries') => NoOwner(deliveries)
         /\ profiled_ = "live" /\ isActive => LastActive(deliveries', Name, name)
         /\ ~isActive /\ LastActive(deliveries, Name, active)
              => LastActive(deliveries', Name, active)
<1> USE DEF ProfileInv
<1> DEFINE d == Delivery("profile_changed", isActive, name, n)
<1>0. /\ deliveries \in Seq(Told) /\ number \in Int /\ NameNumber \in Int
      /\ n \in Int
  BY NumberIsInt DEF ProfileType
<1>1. /\ d \in Told /\ d \in Changed /\ d \notin Owner /\ (d \in Active <=> isActive) /\ d.name = name
      /\ d.number = n
  BY DeliveryTold, ToldSets
<1>2. deliveries' = IF profiled_ = "live" THEN Append(deliveries, d) ELSE deliveries
  BY DEF Signalled
<1> HIDE DEF d
<1>3. NameNumber <= n BY <1>0 DEF ProfileType
<1>4. CASE profiled_ = "live"
  <2>1. InOrder(deliveries', NameNumber, n)
    BY <1>0, <1>1, <1>2, <1>3, <1>4, ChangeInOrder
  <2>2. /\ deliveries' \in Seq(Told) /\ LastOwner(deliveries', running)
        /\ NoOwner(deliveries') => NoOwner(deliveries)
        /\ isActive => LastActive(deliveries', Name, name)
        /\ ~isActive /\ LastActive(deliveries, Name, active)
              => LastActive(deliveries', Name, active)
    BY <1>0, <1>1, <1>2, <1>4, DeliveryAppended
  <2> QED BY <1>4, <2>1, <2>2
<1>5. CASE profiled_ # "live"
  <2>1. InOrder(deliveries', NameNumber, n) /\ OnlyOwners(deliveries')
    BY <1>2, <1>5, QueueNone DEF InOrder, Disconnected, OnlyOwners
  <2> QED BY <1>0, <1>2, <1>5, <2>1
<1> QED BY <1>4, <1>5

\* Another profile becomes active.
LEMMA SetProfileKeeps == ProfileInv /\ SetProfile => ProfileInv'
<1> SUFFICES ASSUME ProfileInv, SetProfile PROVE ProfileInv' OBVIOUS
<1> USE DEF ProfileInv, SetProfile, ProfileMove
<1>0. /\ number' \in Nat /\ number <= number' /\ active' \in Profiles
      /\ UNCHANGED profileBridge /\ Signalled(TRUE, active', number')
      /\ UNCHANGED running
  <2>1. number' \in Nat /\ number <= number' BY DEF ProfileType
  <2> QED BY Zenon, <2>1
<1>1. /\ deliveries' \in Seq(Told)
      /\ profiled_ # "live" => OnlyOwners(deliveries') /\ deliveries' = deliveries
      /\ InOrder(deliveries', NameNumber, number')
      /\ LastOwner(deliveries', running)
      /\ NoOwner(deliveries') => NoOwner(deliveries)
      /\ profiled_ = "live" => LastActive(deliveries', Name, active')
  BY <1>0, SignalledKeeps
<1>2. UNCHANGED <<profiled_, initConn, Name, NameNumber>> BY DEF profileBridge
<1>3. ProfileType'
  <2>1. NameNumber' \in -1..number' BY <1>0, <1>2 DEF ProfileType
  <2>2. unheard' \in BOOLEAN BY DEF ProfileType
  <2> QED BY <1>0, <1>1, <1>2, <2>1, <2>2 DEF ProfileType
<1>4. Disconnected' BY <1>1, <1>2 DEF Disconnected
<1>5. Settling'
  <2> SUFFICES ASSUME NoOwner(deliveries')
               PROVE  /\ initConn = <<>> => profiled_ = "live"
                      /\ ~unheard' /\ initConn # init_conn =>
                           LastActive(deliveries', Name, active')
    BY <1>0, <1>2 DEF Settling
  <2>1. initConn = <<>> => profiled_ = "live" BY <1>1 DEF Settling
  <2>2. ~unheard' /\ initConn # init_conn => initConn = <<>> BY DEF ProfileType
  <2> QED BY <1>1, <2>1, <2>2
<1> QED BY <1>0, <1>1, <1>2, <1>3, <1>4, <1>5

\* The values of a profile change.
LEMMA ChangeValuesKeeps == ProfileInv /\ ChangeValues => ProfileInv'
<1> SUFFICES ASSUME ProfileInv, ChangeValues PROVE ProfileInv' OBVIOUS
<1> USE DEF ProfileInv, ChangeValues, ProfileMove
<1>1. PICK p \in Profiles : Signalled(p = active, p, number) OBVIOUS
<1>2. /\ number \in Nat /\ number <= number /\ (p = active) \in BOOLEAN
      /\ UNCHANGED profileBridge /\ UNCHANGED <<running, active, number, unheard>>
  BY DEF ProfileType
<1>3. /\ deliveries' \in Seq(Told)
      /\ profiled_ # "live" => OnlyOwners(deliveries') /\ deliveries' = deliveries
      /\ InOrder(deliveries', NameNumber, number)
      /\ LastOwner(deliveries', running)
      /\ NoOwner(deliveries') => NoOwner(deliveries)
      /\ profiled_ = "live" /\ p = active => LastActive(deliveries', Name, p)
      /\ p # active /\ LastActive(deliveries, Name, active)
              => LastActive(deliveries', Name, active)
  BY <1>1, <1>2, SignalledKeeps
<1>4. UNCHANGED <<profiled_, initConn, Name, NameNumber>> BY <1>2 DEF profileBridge
<1>5. ProfileType' BY <1>2, <1>3, <1>4 DEF ProfileType
<1>6. Disconnected' BY <1>3, <1>4 DEF Disconnected
<1>7. Settling' BY <1>2, <1>3, <1>4 DEF Settling
<1> QED BY <1>2, <1>3, <1>4, <1>5, <1>6, <1>7

\* Every step of the bridge and the daemon keeps the invariant.
LEMMA ProfileInvNext == ProfileInv /\ [ProfileNext]_profileVars => ProfileInv'
<1> SUFFICES ASSUME ProfileInv, [ProfileNext]_profileVars PROVE ProfileInv' OBVIOUS
<1>1. CASE GetProfile BY <1>1, GetProfileKeeps
<1>2. CASE ConnectProfile BY <1>2, ConnectProfileKeeps
<1>3. CASE OnProfiledRegistered BY <1>3, OnProfiledRegisteredKeeps
<1>4. CASE OnProfiledUnregistered BY <1>4, OnProfiledUnregisteredKeeps
<1>5. CASE OnProfileChanged BY <1>5, OnProfileChangedKeeps
<1>6. CASE StartProfiled BY <1>6, StartProfiledKeeps
<1>7. CASE StopProfiled BY <1>7, StopProfiledKeeps
<1>8. CASE SetProfile BY <1>8, SetProfileKeeps
<1>9. CASE ChangeValues BY <1>9, ChangeValuesKeeps
<1>10. CASE UNCHANGED profileVars
  BY <1>10 DEF profileVars, profileBridge, profiled, ProfileInv, ProfileType,
               Disconnected, Settling
<1> QED
  BY <1>1, <1>2, <1>3, <1>4, <1>5, <1>6, <1>7, <1>8, <1>9, <1>10
  DEF ProfileNext, ProfileLoop, Profiled

\* With nothing left to do or to hear, the invariant is what is promised.
LEMMA ProfileInvShown == ProfileInv => ProfileShown
<1> SUFFICES ASSUME ProfileInv, initConn = <<>>, deliveries = <<>>, ~unheard
             PROVE  Name = IF running THEN active ELSE NoName
  BY DEF ProfileShown
<1>2. NoOwner(deliveries) BY QueueEmpty DEF NoOwner
<1>3. NoneIn(deliveries, Active) BY QueueEmpty
<1> QED BY <1>2, <1>3, InitConn DEF ProfileInv, Settling, LastActive

----------------------------------------------------------------------------
(* Profile: the name mirrors the daemon's.                                 *)

\* A name comes from the daemon: it is not NoName.
LEMMA NotNoName == \A p \in Profiles : p # NoName
BY ProfileAssumption

\* A step of the bridge or the daemon shows the value of a change that is not
\* older than what was shown, or forgets it, or is a change of the daemon.
LEMMA NameMirrorStep ==
  ASSUME ProfileInv, [ProfileNext]_profileVars
  PROVE  [NameMirror!Next]_(NameMirror!mirror)
<1> USE DEF NameMirror!Next, NameMirror!Show, NameMirror!Forget, NameMirror!Change,
            NameMirror!mirror, NameMirror!Nothing
<1>0. number \in Nat /\ NameNumber \in -1..number /\ active \in Profiles
  BY DEF ProfileInv, ProfileType
<1>1. CASE GetProfile
  <2>1. CASE running
    <3>1. Name' # NoName /\ NameNumber' = number /\ number' = number
      BY <1>0, <1>1, <2>1, NotNoName DEF GetProfile, profiled
    <3> QED BY <1>0, <3>1
  <2>2. CASE ~running BY <1>1, <2>2 DEF GetProfile, profiled
  <2> QED BY <2>1, <2>2
<1>2. CASE OnProfileChanged
  <2> DEFINE d == Head(deliveries)
  <2>1. deliveries \in Seq(Told) /\ deliveries # <<>> /\ d.on = "profile_changed"
        /\ number' = number
    BY <1>2 DEF OnProfileChanged, HandleDelivery, ProfileInv, ProfileType, profiled
  <2>2. d \in Told /\ NameNumber <= d.number /\ d.number <= number /\ d.name \in Profiles
    <3>1. number \in Int /\ NameNumber \in Int BY <1>0
    <3>2. d \in Told BY <2>1, Tailed
    <3>3. d \in Changed /\ d.name \in Profiles BY <2>1, <3>2, ToldSets
    <3> QED BY <2>1, <3>1, <3>2, <3>3, DeliveryHandled DEF ProfileInv
  <2>3. d.number \in Nat BY <2>2, ToldSets
  <2>4. CASE d.active
    <3>1. Name' # NoName /\ NameNumber' = d.number
      BY <1>2, <2>2, <2>4, NotNoName DEF OnProfileChanged
    <3> QED BY <1>0, <2>1, <2>2, <2>3, <3>1
  <2>5. CASE ~d.active BY <1>2, <2>1, <2>5 DEF OnProfileChanged
  <2> QED BY <2>4, <2>5
<1>3. CASE OnProfiledUnregistered
  BY <1>3 DEF OnProfiledUnregistered, HandleDelivery, profiled
<1>4. CASE StartProfiled \/ SetProfile
  <2>1. number' = number + 1 /\ ProfileMove BY <1>4, Zenon DEF StartProfiled, SetProfile
  <2>2. Name' = Name /\ NameNumber' = NameNumber BY <2>1 DEF ProfileMove, profileBridge
  <2>3. number' > number BY <1>0, <2>1
  <2> QED BY <2>2, <2>3
<1>5. CASE StopProfiled \/ ChangeValues
  BY <1>5 DEF StopProfiled, ChangeValues, ProfileMove, profileBridge
<1>6. CASE ConnectProfile \/ OnProfiledRegistered
  BY <1>6 DEF ConnectProfile, OnProfiledRegistered, HandleDelivery, profiled
<1>7. CASE UNCHANGED profileVars BY <1>7 DEF profileVars, profileBridge, profiled
<1> QED
  BY <1>1, <1>2, <1>3, <1>4, <1>5, <1>6, <1>7 DEF ProfileNext, ProfileLoop, Profiled

\* Initially nothing has been shown.
LEMMA NameMirrorInit == ProfileInit => NameMirror!Init
BY DEF ProfileInit, NameMirror!Init, NameMirror!Nothing

\* Among the providers, the one for profiled takes its own steps or none.
LEMMA ProvidersProfile ==
  /\ ProvidersInit => ProfileInit
  /\ [ProvidersNext]_allVars => [ProfileNext]_profileVars
<1>1. ProvidersInit => ProfileInit BY DEF ProvidersInit
<1>2. [ProvidersNext]_allVars => [ProfileNext]_profileVars
  BY Zenon DEF ProvidersNext, allVars, BackCoverStep, BmeStep, KeyboardStep, MceStep, ProfileStep
<1> QED BY <1>1, <1>2

----------------------------------------------------------------------------
(* Mce: the invariant, in terms of the calls left and the queue.           *)

\* the places in init_request of the calls that read and connect a kind
place == [psm |-> 1, display |-> 2, radio |-> 3]
Calls == [do : {"get", "signal", "connect"}, kind : Kinds \cup {"all"}]
IsRest(r) == /\ r \in Seq(Calls) /\ Len(r) <= 7
             /\ \A i \in 1..Len(r) : r[i] = init_request[7 - Len(r) + i]

\* the place of the call whose turn it is, 8 when all are done
turn == 8 - Len(initRequest)

SystemFields == {"PowerSaveMode", "OfflineMode", "InternetEnabled", "WlanEnabled"}
IsSystem(p) == p = [f \in SystemFields |-> p[f]]

Agrees(s, c, k, v) == systemWith(s, k, v) = s /\ screenWith(c, k, v) = c

News == [on : {"registered", "unregistered"}, kind : {"all"}, value : {FALSE}, stamp : {0}]
Of(k) == [on : {"indication"}, kind : {k}, value : ValueOf[k], stamp : Nat]
Sent == News \cup UNION {Of(k) : k \in Kinds}
stamps == [i \in Sent |-> i.stamp]

\* news that MCE is there, or not; indications of one value
There(up) == {i \in News : i.on = "registered" <=> up}
With(k, v) == {i \in Of(k) : i.value = v}

MceType ==
  /\ signal_ \in SUBSET Kinds /\ unseen \in SUBSET Kinds
  /\ IsRest(initRequest) /\ IsSystem(System)
  /\ mceUp \in BOOLEAN
  /\ value = [k \in Kinds |-> value[k]] /\ \A k \in Kinds : value[k] \in ValueOf[k]
  /\ stamp \in [Kinds -> Nat] /\ stampShown \in [Kinds -> Int]
  /\ indications \in Seq(Sent)

\* a kind is connected once its turn has passed, and nothing waits for one that
\* is not
Connected ==
  \A k \in Kinds :
    /\ turn > 4 + place[k] /\ mceUp /\ NoneIn(indications, News) => k \in signal_
    /\ turn > 4 /\ k \notin signal_ => NoneIn(indications, Of(k))

\* what was read is shown or, once it is connected, the last that waits tells
\* it, unless MCE is gone or news about it wait
Following ==
  \A k \in Kinds \ unseen :
    mceUp /\ NoneIn(indications, News) /\ turn > place[k] =>
      IF turn <= 4 THEN Agrees(System, Screen, k, value[k])
      ELSE /\ LastIn(indications, Of(k), With(k, value[k]))
           /\ NoneIn(indications, Of(k)) => Agrees(System, Screen, k, value[k])

\* the numbers that wait never decrease, nor are they older than what is shown,
\* unless they are about to be lost
Stamps ==
  \A k \in Kinds :
    /\ stampShown[k] \in -1..stamp[k]
    /\ Rising(indications, Of(k), stamps, 0, stamp[k])
    /\ turn > 4 => Rising(indications, Of(k), stamps, stampShown[k], stamp[k])

MceInv ==
  /\ MceType
  /\ LastIn(indications, News, There(mceUp))
  /\ Connected
  /\ Following
  /\ Stamps

----------------------------------------------------------------------------
(* Mce: lemmas about the calls, the properties and the queue.              *)

\* The calls of init_request (48-75) and their places.
LEMMA InitRequest ==
  /\ init_request \in Seq(Calls) /\ Len(init_request) = 7
  /\ \A k \in Kinds : /\ place[k] \in 1..3 /\ init_request[place[k]] = Call("get", k)
                      /\ init_request[4 + place[k]] = Call("connect", k)
  /\ init_request[4] = Call("signal", "all")
<1>1. init_request \in Seq(Calls) /\ Len(init_request) = 7
  BY DEF init_request, Calls, Call, Kinds
<1>2. /\ init_request[1] = Call("get", "psm") /\ init_request[2] = Call("get", "display")
      /\ init_request[3] = Call("get", "radio") /\ init_request[4] = Call("signal", "all")
      /\ init_request[5] = Call("connect", "psm") /\ init_request[6] = Call("connect", "display")
      /\ init_request[7] = Call("connect", "radio")
  BY DEF init_request
<1>3. place["psm"] = 1 /\ place["display"] = 2 /\ place["radio"] = 3
  BY DEF place
<1>4. \A k \in Kinds : k = "psm" \/ k = "display" \/ k = "radio" BY DEF Kinds
<1> QED BY <1>1, <1>2, <1>3, <1>4

\* The head of what is left is the call whose turn it is, and its tail is what
\* is left after it.
LEMMA Rests ==
  ASSUME NEW r, IsRest(r), r # <<>>, NEW at, at = 8 - Len(r)
  PROVE  /\ IsRest(Tail(r)) /\ Len(Tail(r)) = Len(r) - 1 /\ at \in 1..7
         /\ Head(r) = init_request[at] 
         /\ Head(r).do = "get" => at \in 1..3 /\ Head(r).kind \in Kinds /\ at = place[Head(r).kind]
         /\ Head(r).do = "signal" => at = 4
         /\ Head(r).do = "connect" => at \in 5..7 /\ Head(r).kind \in Kinds /\ at = 4 + place[Head(r).kind]
<1>1. /\ Tail(r) \in Seq(Calls) /\ Len(Tail(r)) = Len(r) - 1 /\ Head(r) = r[1] /\ 1 \in 1..Len(r)
      /\ \A i \in 1..Len(Tail(r)) : i + 1 \in 1..Len(r) /\ Tail(r)[i] = r[i + 1]
  BY DEF IsRest
<1>2. Head(r) = init_request[at] /\ at \in 1..7
  BY <1>1 DEF IsRest
<1>3. IsRest(Tail(r))
  BY <1>1 DEF IsRest
<1>4. /\ init_request[1] = Call("get", "psm") /\ init_request[2] = Call("get", "display")
      /\ init_request[3] = Call("get", "radio") /\ init_request[4] = Call("signal", "all")
      /\ init_request[5] = Call("connect", "psm") /\ init_request[6] = Call("connect", "display")
      /\ init_request[7] = Call("connect", "radio")
  BY DEF init_request
<1>5. place["psm"] = 1 /\ place["display"] = 2 /\ place["radio"] = 3
  BY DEF place
<1>6. at = 1 \/ at = 2 \/ at = 3 \/ at = 4 \/ at = 5 \/ at = 6 \/ at = 7 BY <1>2
<1> QED BY <1>1, <1>2, <1>3, <1>4, <1>5, <1>6, SMTT(20) DEF Call, Kinds

\* A kind is read at its place, and nowhere else.
LEMMA GetPlace ==
  \A j \in 1..7, k \in Kinds : init_request[j] = Call("get", k) => j = place[k]
<1> SUFFICES ASSUME NEW j \in 1..7, NEW k \in Kinds, init_request[j] = Call("get", k)
             PROVE  j = place[k]
  OBVIOUS
<1>1. /\ init_request[1] = Call("get", "psm") /\ init_request[2] = Call("get", "display")
      /\ init_request[3] = Call("get", "radio") /\ init_request[4] = Call("signal", "all")
      /\ init_request[5] = Call("connect", "psm") /\ init_request[6] = Call("connect", "display")
      /\ init_request[7] = Call("connect", "radio")
  BY DEF init_request
<1>2. place["psm"] = 1 /\ place["display"] = 2 /\ place["radio"] = 3 BY DEF place
<1>3. j = 1 \/ j = 2 \/ j = 3 \/ j = 4 \/ j = 5 \/ j = 6 \/ j = 7 OBVIOUS
<1> QED BY <1>1, <1>2, <1>3 DEF Call

\* Kinds have places of their own.
LEMMA Places ==
  /\ \A k \in Kinds : place[k] \in 1..3
  /\ \A k, k2 \in Kinds : place[k] = place[k2] => k = k2
BY DEF place, Kinds

\* The turn is one of the seven calls, or all are done.
LEMMA TurnType ==
  MceType => turn \in 1..8 /\ (turn = 8 <=> initRequest = <<>>)
<1> SUFFICES ASSUME MceType PROVE turn \in 1..8 /\ (turn = 8 <=> initRequest = <<>>)
  OBVIOUS
<1>1. initRequest \in Seq(Calls) /\ Len(initRequest) <= 7 /\ Len(initRequest) \in Nat
  BY DEF MceType, IsRest
<1> QED BY <1>1 DEF turn

\* A change between the read and the connect is one the model calls unseen.
LEMMA Between ==
  ASSUME MceType, NEW k \in Kinds, turn > place[k], turn <= 4 + place[k]
  PROVE  BetweenReadAndConnect(k)
<1> DEFINE r == initRequest
           i0 == 4 + place[k] - turn + 1
<1>1. /\ r \in Seq(Calls) /\ Len(r) <= 7 /\ Len(r) \in Nat /\ turn = 8 - Len(r)
      /\ \A i \in 1..Len(r) : r[i] = init_request[7 - Len(r) + i]
  BY DEF MceType, IsRest, turn
<1>2. place[k] \in 1..3 BY Places
<1>3. i0 \in 1..Len(r) /\ 7 - Len(r) + i0 = 4 + place[k] BY <1>1, <1>2, SMTT(20)
<1>4. r[i0] = Call("connect", k) BY <1>1, <1>3, InitRequest
<1>5. ASSUME NEW i \in 1..Len(r), r[i] = Call("get", k) PROVE FALSE
  <2> DEFINE j == 7 - Len(r) + i
  <2>1. j \in 1..7 /\ j >= turn /\ r[i] = init_request[j] BY <1>1
  <2> HIDE DEF j
  <2>2. init_request[j] = Call("get", k) BY <1>5, <2>1
  <2>3. j = place[k] BY <2>1, <2>2, GetPlace
  <2> QED BY <1>1, <1>2, <2>1, <2>3
<1>6. DOMAIN r = 1..Len(r) BY <1>1
<1> QED BY <1>3, <1>4, <1>5, <1>6 DEF BetweenReadAndConnect

\* Two systems are the same when their fields are.
LEMMA SameSystem ==
  ASSUME NEW p, NEW q, IsSystem(p), IsSystem(q)
  PROVE  /\ p.PowerSaveMode = q.PowerSaveMode /\ p.OfflineMode = q.OfflineMode
            /\ p.InternetEnabled = q.InternetEnabled /\ p.WlanEnabled = q.WlanEnabled
           => p = q
BY DEF IsSystem, SystemFields

\* on_psm sets one field (provider_mce.cpp 52-54).
LEMMA PsmWith ==
  ASSUME NEW p, IsSystem(p), NEW v
  PROVE  LET q == systemWith(p, "psm", v)
         IN  /\ IsSystem(q) /\ q.PowerSaveMode = v /\ q.OfflineMode = p.OfflineMode
             /\ q.InternetEnabled = p.InternetEnabled /\ q.WlanEnabled = p.WlanEnabled
BY DEF systemWith, IsSystem, SystemFields

\* on_radio sets the three others (60-64).
LEMMA RadioWith ==
  ASSUME NEW p, IsSystem(p), NEW v
  PROVE  LET q == systemWith(p, "radio", v)
         IN  /\ IsSystem(q) /\ q.PowerSaveMode = p.PowerSaveMode
             /\ q.OfflineMode = ("CELLULAR" \notin v)
             /\ q.InternetEnabled = ("MASTER" \in v) /\ q.WlanEnabled = ("WLAN" \in v)
<1> DEFINE a == "CELLULAR" \notin v
           b == "WLAN" \in v
           c == "MASTER" \in v
           q == [p EXCEPT !.OfflineMode = a, !.WlanEnabled = b, !.InternetEnabled = c]
<1>1. systemWith(p, "radio", v) = q BY DEF systemWith
<1> HIDE DEF a, b, c
<1>2. /\ IsSystem(q) /\ q.PowerSaveMode = p.PowerSaveMode
      /\ q.OfflineMode = a /\ q.InternetEnabled = c /\ q.WlanEnabled = b
  BY DEF IsSystem, SystemFields
<1> QED BY <1>1, <1>2 DEF a, b, c

\* What is published shows, and publishing one kind leaves the others shown.
LEMMA SystemWith ==
  ASSUME NEW p, IsSystem(p), NEW k \in Kinds, NEW v
  PROVE  /\ IsSystem(systemWith(p, k, v))
         /\ systemWith(systemWith(p, k, v), k, v) = systemWith(p, k, v)
         /\ \A k2 \in Kinds : \A v2 : k2 # k /\ systemWith(p, k2, v2) = p =>
                systemWith(systemWith(p, k, v), k2, v2) = systemWith(p, k, v)
<1>1. \A q, w : systemWith(q, "display", w) = q BY DEF systemWith
<1> DEFINE q == systemWith(p, k, v)
<1>2. IsSystem(q) BY <1>1, PsmWith, RadioWith DEF Kinds
<1> HIDE DEF q
<1>3. systemWith(q, k, v) = q
  <2>1. CASE k = "psm"
    <3>1. IsSystem(systemWith(q, k, v)) BY <1>2, <2>1, PsmWith
    <3> QED BY <1>2, <2>1, <3>1, PsmWith, SameSystem DEF q
  <2>2. CASE k = "radio"
    <3>1. IsSystem(systemWith(q, k, v)) BY <1>2, <2>2, RadioWith
    <3> QED BY <1>2, <2>2, <3>1, RadioWith, SameSystem DEF q
  <2> QED BY <1>1, <2>1, <2>2 DEF Kinds
<1>4. ASSUME NEW k2 \in Kinds, NEW v2, k2 # k, systemWith(p, k2, v2) = p
      PROVE  systemWith(q, k2, v2) = q
  <2>1. CASE k2 = "psm" /\ k = "radio"
    <3>1. IsSystem(systemWith(q, k2, v2)) BY <1>2, <2>1, PsmWith
    <3>2. p.PowerSaveMode = v2 BY <1>4, <2>1, PsmWith
    <3>3. q.PowerSaveMode = v2 BY <2>1, <3>2, RadioWith DEF q
    <3> QED BY <1>2, <2>1, <3>1, <3>3, PsmWith, SameSystem
  <2>2. CASE k2 = "radio" /\ k = "psm"
    <3>1. IsSystem(systemWith(q, k2, v2)) BY <1>2, <2>2, RadioWith
    <3>2. /\ p.OfflineMode = ("CELLULAR" \notin v2)
          /\ p.InternetEnabled = ("MASTER" \in v2) /\ p.WlanEnabled = ("WLAN" \in v2)
      BY <1>4, <2>2, RadioWith
    <3>3. /\ q.OfflineMode = p.OfflineMode
          /\ q.InternetEnabled = p.InternetEnabled /\ q.WlanEnabled = p.WlanEnabled
      BY <2>2, PsmWith DEF q
    <3> QED BY <1>2, <2>2, <3>1, <3>2, <3>3, RadioWith, SameSystem
  <2>3. CASE k2 = "display" BY <1>1, <2>3
  <2>4. CASE k = "display" BY <1>1, <1>4, <2>4 DEF q
  <2> QED BY <1>4, <2>1, <2>2, <2>3, <2>4 DEF Kinds
<1> QED BY <1>2, <1>3, <1>4 DEF q

\* The same for the screen, whose one field only on_display sets.
LEMMA ScreenWith ==
  ASSUME NEW p, NEW k, NEW v
  PROVE  /\ screenWith(screenWith(p, k, v), k, v) = screenWith(p, k, v)
         /\ \A k2 \in Kinds : \A v2 : k2 # k /\ screenWith(p, k2, v2) = p =>
                screenWith(screenWith(p, k, v), k2, v2) = screenWith(p, k, v)
<1> QED BY DEF screenWith
\* What Publish makes of the properties.
LEMMA Published ==
  ASSUME NEW k \in Kinds, NEW v, NEW n, IsSystem(System), Publish(k, v, n)
  PROVE  /\ IsSystem(System')
         /\ Agrees(System', Screen', k, v)
         /\ \A k2 \in Kinds : \A v2 : k2 # k /\ Agrees(System, Screen, k2, v2) =>
              Agrees(System', Screen', k2, v2)
         /\ stampShown' = [stampShown EXCEPT ![k] = n]
BY SystemWith, ScreenWith DEF Publish, Agrees

\* What waits is news about MCE or an indication of one kind, with a value of
\* that kind and a number.
LEMMA SentSets ==
  /\ \A k \in Kinds : Of(k) \subseteq Sent /\ \A i \in Of(k) : i \notin News
  /\ \A k \in Kinds : \A i \in Of(k) : i.on = "indication" /\ i.kind = k
  /\ \A i \in News : i.on # "indication" /\ i \in Sent
  /\ \A i \in Sent : i \in News \/ (i.kind \in Kinds /\ i \in Of(i.kind))
  /\ \A i \in Sent : i.stamp \in Nat /\ stamps[i] = i.stamp
  /\ stamps \in [Sent -> Int]
<1>1. \A i \in News : i.on # "indication" /\ i.stamp \in Nat BY DEF News
<1>2. \A k \in Kinds : \A i \in Of(k) : i.on = "indication" /\ i.kind = k /\ i.stamp \in Nat
  BY DEF Of
<1>3. \A i \in Sent : i \in News \/ \E k \in Kinds : i \in Of(k) BY DEF Sent
<1>4. /\ \A k \in Kinds : Of(k) \subseteq Sent
      /\ \A i \in News : i \in Sent
  BY DEF Sent
<1>5. \A i \in Sent : i.stamp \in Nat BY <1>1, <1>2, <1>3
<1>6. stamps \in [Sent -> Int] /\ \A i \in Sent : stamps[i] = i.stamp
  BY <1>5 DEF stamps
<1> QED BY <1>1, <1>2, <1>3, <1>4, <1>5, <1>6

\* OwnerNews, by which the indications are lost with their proxy (71, 79-82),
\* keeps all news about MCE and no indication.
LEMMA NewsLeft ==
  ASSUME NEW is \in Seq(Sent)
  PROVE  /\ OwnerNews(is) \in Seq(Sent)
         /\ \A k \in Kinds : NoneIn(OwnerNews(is), Of(k))
         /\ NoneIn(OwnerNews(is), News) => NoneIn(is, News)
         /\ \A Y : LastIn(is, News, Y) => LastIn(OwnerNews(is), News, Y)
<1>1. /\ \A k \in Kinds : \A i \in Of(k) : i.on \in {"indication"}
      /\ \A i \in News : i.on \notin {"indication"}
  BY SentSets
<1> QED BY <1>1, QueueWithout DEF OwnerNews

----------------------------------------------------------------------------
(* Mce: the invariant holds initially and is preserved.                    *)

\* The invariant holds when the bridge is constructed.
LEMMA MceInvInit == MceInit => MceInv
<1> SUFFICES ASSUME MceInit PROVE MceInv OBVIOUS
<1> USE DEF MceInit
<1>1. IsRest(initRequest) /\ turn = 1 BY InitRequest DEF IsRest, turn
<1>2. \A k \in Kinds : stamp[k] = 0 /\ stampShown[k] = -1 /\ place[k] >= 1 BY Places
<1>3. \A k \in Kinds : ~(1 > place[k]) /\ ~(1 > 4 + place[k]) /\ ~(1 > 4) BY Places
<1>4. MceType
  <2>1. IsSystem(System) BY DEF default_values, IsSystem, SystemFields
  <2>2. value = [k \in Kinds |-> value[k]] /\ \A k \in Kinds : value[k] \in ValueOf[k]
    <3>1. value = [k \in Kinds |-> value[k]] BY DEF Kinds
    <3>2. /\ value["psm"] \in BOOLEAN /\ value["display"] \in {"on", "off"}
          /\ value["radio"] \in SUBSET Radios
      OBVIOUS
    <3>3. /\ ValueOf["psm"] = BOOLEAN /\ ValueOf["display"] = {"on", "dimmed", "off"}
          /\ ValueOf["radio"] = SUBSET Radios
      BY DEF ValueOf
    <3>4. \A k \in Kinds : k = "psm" \/ k = "display" \/ k = "radio" BY DEF Kinds
    <3> HIDE DEF MceInit
    <3>5. \A k \in Kinds : value[k] \in ValueOf[k] BY <3>2, <3>3, <3>4
    <3> QED BY <3>1, <3>5
  <2>3. stamp \in [Kinds -> Nat] /\ stampShown \in [Kinds -> Int] OBVIOUS
  <2>4. indications \in Seq(Sent) OBVIOUS
  <2>5. signal_ \in SUBSET Kinds /\ unseen \in SUBSET Kinds /\ mceUp \in BOOLEAN OBVIOUS
  <2> QED BY <1>1, <2>1, <2>2, <2>3, <2>4, <2>5 DEF MceType
<1>5. Connected BY Zenon, <1>1, <1>3 DEF Connected
<1>6. Following BY Zenon, <1>1, <1>3 DEF Following
<1>7. Stamps BY <1>1, <1>2, QueueEmpty DEF Stamps
<1>8. LastIn(indications, News, There(mceUp)) BY QueueEmpty
<1> QED BY <1>4, <1>5, <1>6, <1>7, <1>8 DEF MceInv

\* A call that is made is the one whose turn it is, and the next one follows.
LEMMA CallMade ==
  ASSUME MceType, Called, initRequest # <<>>
  PROVE  /\ IsRest(initRequest)' /\ turn' = turn + 1
         /\ Calling("get") => called \in Kinds /\ turn = place[called] /\ turn \in 1..3
         /\ Calling("signal") => turn = 4
         /\ Calling("connect") => called \in Kinds /\ turn = 4 + place[called] /\ turn \in 5..7
<1>1. IsRest(initRequest) /\ initRequest' = Tail(initRequest) /\ Len(initRequest) \in Nat
  BY DEF MceType, Called, IsRest
<1> QED BY <1>1, Rests DEF turn, Calling, called

\* init_request reads a kind (67-69), and publishes what MCE has.
LEMMA GetStateKeeps == MceInv /\ GetState => MceInv'
<1> SUFFICES ASSUME MceInv, GetState PROVE MceInv' OBVIOUS
<1> USE DEF MceInv
<1> DEFINE k == called
<1>1. /\ IsRest(initRequest)' /\ turn' = turn + 1
      /\ k \in Kinds /\ turn = place[k] /\ turn \in 1..3
  BY CallMade DEF GetState, Calling
<1>2. /\ UNCHANGED <<mceUp, value, stamp, signal_, indications>>
      /\ unseen' = unseen \ {k}
  BY DEF GetState, Called, mce
<1>3. /\ IsSystem(System') /\ stampShown' \in [Kinds -> Int]
      /\ \A k2 \in Kinds : stampShown'[k2] \in -1..stamp[k2]
      /\ mceUp => Agrees(System', Screen', k, value[k])
      /\ \A k2 \in Kinds : \A v2 : k2 # k /\ Agrees(System, Screen, k2, v2) =>
           Agrees(System', Screen', k2, v2)
  <2>1. /\ IsSystem(System) /\ stampShown \in [Kinds -> Int] /\ stamp \in [Kinds -> Nat]
        /\ \A k2 \in Kinds : stampShown[k2] \in -1..stamp[k2]
    BY DEF MceType, Stamps
  <2>2. CASE mceUp
    <3>1. Publish(k, value[k], stamp[k]) BY <2>2 DEF GetState
    <3>2. stampShown' = [stampShown EXCEPT ![k] = stamp[k]]
      BY <1>1, <2>1, <3>1, Published
    <3>3. \A k2 \in Kinds : stampShown'[k2] \in -1..stamp[k2] /\ stampShown'[k2] \in Int
      BY <1>1, <2>1, <3>2
    <3>4. stampShown' \in [Kinds -> Int] BY <1>1, <2>1, <3>2
    <3> HIDE DEF k
    <3> QED BY <1>1, <2>1, <3>1, <3>3, <3>4, Published
  <2>3. CASE ~mceUp BY <2>1, <2>3 DEF GetState
  <2> QED BY <2>2, <2>3
<1> HIDE DEF k
<1>4. MceType' BY <1>1, <1>2, <1>3 DEF MceType
<1>5. Connected' BY <1>1, <1>2, Places DEF Connected
<1>6. Following'
  <2> SUFFICES ASSUME NEW k2 \in Kinds \ unseen', mceUp, NoneIn(indications, News),
                      turn' > place[k2]
               PROVE  Agrees(System', Screen', k2, value[k2])
    BY <1>1, <1>2 DEF Following
  <2>1. CASE k2 = k BY <1>3, <2>1
  <2>2. CASE k2 # k
    <3>1. turn > place[k2] /\ turn <= 4 BY <1>1, <2>2, Places
    <3>2. k2 \in Kinds \ unseen BY <1>2, <2>2
    <3>3. Agrees(System, Screen, k2, value[k2]) BY <3>1, <3>2 DEF Following
    <3> QED BY <1>3, <2>2, <3>3
  <2> QED BY <2>1, <2>2
<1>7. Stamps' BY <1>1, <1>2, <1>3 DEF Stamps
<1> QED BY <1>2, <1>4, <1>5, <1>6, <1>7

\* init_request replaces the proxy signal_ (71): the indications that wait are
\* lost, and what was read is shown.
LEMMA ResetSignalKeeps == MceInv /\ ResetSignal => MceInv'
<1> SUFFICES ASSUME MceInv, ResetSignal PROVE MceInv' OBVIOUS
<1> USE DEF MceInv
<1>1. IsRest(initRequest)' /\ turn' = turn + 1 /\ turn = 4
  BY CallMade DEF ResetSignal, Calling
<1>2. UNCHANGED <<mceUp, value, stamp, System, Screen, stampShown, unseen>> /\ signal_' = {}
  BY DEF ResetSignal, Called, mce
<1>3. /\ indications' \in Seq(Sent)
      /\ \A k \in Kinds : NoneIn(indications', Of(k))
      /\ NoneIn(indications', News) => NoneIn(indications, News)
      /\ LastIn(indications', News, There(mceUp))
  BY NewsLeft DEF ResetSignal, MceType
<1>4. MceType' BY <1>1, <1>2, <1>3 DEF MceType
<1>5. Connected' BY <1>1, <1>3, Places DEF Connected
<1>6. Following'
  <2> SUFFICES ASSUME NEW k \in Kinds \ unseen, mceUp, NoneIn(indications', News)
               PROVE  /\ LastIn(indications', Of(k), With(k, value[k]))
                      /\ Agrees(System, Screen, k, value[k])
    BY <1>2 DEF Following
  <2>1. turn > place[k] /\ turn <= 4 BY <1>1, Places
  <2>2. Agrees(System, Screen, k, value[k]) BY <1>3, <2>1 DEF Following
  <2> QED BY <1>3, <2>2, QueueNone
<1>7. Stamps' BY <1>2, <1>3, QueueNone DEF Stamps
<1> QED BY <1>2, <1>3, <1>4, <1>5, <1>6, <1>7

\* init_request connects a kind (72-74).
LEMMA ConnectIndicationKeeps == MceInv /\ ConnectIndication => MceInv'
<1> SUFFICES ASSUME MceInv, ConnectIndication PROVE MceInv' OBVIOUS
<1> USE DEF MceInv
<1> DEFINE k == called
<1>1. /\ IsRest(initRequest)' /\ turn' = turn + 1
      /\ k \in Kinds /\ turn = 4 + place[k] /\ turn \in 5..7
  BY CallMade DEF ConnectIndication, Calling
<1>2. /\ UNCHANGED <<mceUp, value, stamp, System, Screen, stampShown, unseen, indications>>
      /\ signal_' = signal_ \cup {k}
  BY DEF ConnectIndication, Called, mce
<1> HIDE DEF k
<1>3. MceType' BY <1>1, <1>2 DEF MceType
<1>4. Connected'
  <2> SUFFICES ASSUME NEW k2 \in Kinds
               PROVE  /\ turn' > 4 + place[k2] /\ mceUp /\ NoneIn(indications, News)
                           => k2 \in signal_'
                      /\ k2 \notin signal_' => NoneIn(indications, Of(k2))
    BY <1>2 DEF Connected
  <2>1. CASE k2 = k BY <1>2, <2>1
  <2>2. CASE k2 # k
    <3>1. turn' > 4 + place[k2] => turn > 4 + place[k2] BY <1>1, <2>2, Places
    <3>2. turn > 4 BY <1>1
    <3> QED BY <1>2, <2>2, <3>1, <3>2 DEF Connected
  <2> QED BY <2>1, <2>2
<1>5. Following'
  <2> SUFFICES ASSUME NEW k2 \in Kinds \ unseen, mceUp, NoneIn(indications, News)
               PROVE  /\ LastIn(indications, Of(k2), With(k2, value[k2]))
                      /\ NoneIn(indications, Of(k2)) => Agrees(System, Screen, k2, value[k2])
    BY <1>1, <1>2 DEF Following
  <2>1. turn > place[k2] /\ ~(turn <= 4) BY <1>1, Places
  <2> QED BY <2>1 DEF Following
<1>6. Stamps' BY <1>1, <1>2 DEF Stamps
<1> QED BY <1>2, <1>3, <1>4, <1>5, <1>6

\* A signal that is handled was the first of the queue.
LEMMA Handled ==
  ASSUME MceInv, NEW on, HandleIndication(on)
  PROVE  LET i == Head(indications)
         IN  /\ turn = 8 /\ initRequest = <<>> /\ indications # <<>>
             /\ UNCHANGED <<mceUp, value, stamp, unseen>>
             /\ i \in Sent /\ i.on = on /\ Tail(indications) \in Seq(Sent)
             /\ \A X : NoneIn(indications, X) <=> NoneIn(Tail(indications), X) /\ i \notin X
             /\ \A X, Y : LastIn(indications, X, Y) =>
                  /\ LastIn(Tail(indications), X, Y)
                  /\ NoneIn(Tail(indications), X) /\ i \in X => i \in Y
<1>1. indications \in Seq(Sent) /\ indications # <<>> /\ initRequest = <<>>
  BY DEF MceInv, MceType, HandleIndication
<1>2. turn = 8 BY <1>1, TurnType DEF MceInv
<1>3. UNCHANGED <<mceUp, value, stamp, unseen>> /\ Head(indications).on = on
  BY DEF HandleIndication, mce
<1> QED BY <1>1, <1>2, <1>3, QueueHandled

\* MCE came, or another instance of it (83): everything is read anew.
LEMMA OnMceRegisteredKeeps == MceInv /\ OnMceRegistered => MceInv'
<1> SUFFICES ASSUME MceInv, OnMceRegistered PROVE MceInv' OBVIOUS
<1> USE DEF MceInv
<1> DEFINE rest == Tail(indications)
<1>0. HandleIndication("registered") BY DEF OnMceRegistered
<1>1. /\ UNCHANGED <<mceUp, value, stamp, unseen, signal_, System, Screen, stampShown>>
      /\ indications # <<>> /\ rest \in Seq(Sent) /\ indications' = rest
      /\ LastIn(rest, News, There(mceUp))
      /\ initRequest' = init_request
  BY <1>0, Handled DEF OnMceRegistered
<1>2. IsRest(initRequest)' /\ turn' = 1 BY <1>1, InitRequest DEF IsRest, turn
<1>3. \A k \in Kinds : Rising(rest, Of(k), stamps, 0, stamp[k])
  BY <1>1, SentSets, RisingHandled DEF Stamps, MceType
<1> HIDE DEF rest
<1>4. MceType' BY <1>1, <1>2 DEF MceType
<1>5. \A k \in Kinds : ~(1 > place[k]) /\ ~(1 > 4 + place[k]) /\ ~(1 > 4) BY Places
<1>6. Connected' BY Zenon, <1>2, <1>5 DEF Connected
<1>7. Following' BY Zenon, <1>2, <1>5 DEF Following
<1>8. Stamps' BY <1>1, <1>2, <1>3 DEF Stamps
<1> QED BY <1>1, <1>4, <1>6, <1>7, <1>8

\* MCE went (79-82): the proxies go, with the indications that wait.
LEMMA OnMceUnregisteredKeeps == MceInv /\ OnMceUnregistered => MceInv'
<1> SUFFICES ASSUME MceInv, OnMceUnregistered PROVE MceInv' OBVIOUS
<1> USE DEF MceInv
<1> DEFINE rest == Tail(indications)
           i == Head(indications)
<1>0. HandleIndication("unregistered") BY DEF OnMceUnregistered
<1>1. /\ UNCHANGED <<mceUp, value, stamp, unseen, initRequest, System, Screen, stampShown>>
      /\ rest \in Seq(Sent) /\ indications' = OwnerNews(rest) /\ signal_' = {}
      /\ i \in Sent /\ i.on = "unregistered"
      /\ LastIn(rest, News, There(mceUp))
      /\ NoneIn(rest, News) /\ i \in News => i \in There(mceUp)
  BY <1>0, Handled DEF OnMceUnregistered
<1>2. i \in News
  <2>1. i \notin News => i.on = "indication" BY <1>1, SentSets
  <2> QED BY <1>1, <2>1
<1>3. i \in There(mceUp) => ~mceUp BY <1>1 DEF There
<1> HIDE DEF rest
<1>4. /\ indications' \in Seq(Sent)
      /\ \A k \in Kinds : NoneIn(indications', Of(k))
      /\ NoneIn(indications', News) => NoneIn(rest, News)
      /\ LastIn(indications', News, There(mceUp))
  BY <1>1, NewsLeft
<1>5. turn' = turn BY <1>1 DEF turn
<1>6. ~(mceUp /\ NoneIn(indications', News)) BY <1>1, <1>2, <1>3, <1>4
<1>7. MceType' BY <1>1, <1>4 DEF MceType
<1>8. Connected' BY <1>1, <1>4, <1>6 DEF Connected
<1>9. Following' BY <1>1, <1>6 DEF Following
<1>10. Stamps' BY <1>1, <1>4, QueueNone DEF Stamps
<1> QED BY <1>1, <1>4, <1>7, <1>8, <1>9, <1>10

\* An indication (52-64): what it tells is published.
LEMMA OnIndicationKeeps == MceInv /\ OnIndication => MceInv'
<1> SUFFICES ASSUME MceInv, OnIndication PROVE MceInv' OBVIOUS
<1> USE DEF MceInv
<1> DEFINE rest == Tail(indications)
           i == Head(indications)
           k == i.kind
<1>0. HandleIndication("indication") BY DEF OnIndication
<1>1. /\ UNCHANGED <<mceUp, value, stamp, unseen, initRequest, signal_>>
      /\ indications # <<>> /\ indications \in Seq(Sent) /\ turn = 8
      /\ rest \in Seq(Sent) /\ indications' = rest /\ i \in Sent /\ i.on = "indication"
      /\ Publish(k, i.value, i.stamp)
  BY <1>0, Handled DEF OnIndication, MceType
<1>2. /\ \A X : NoneIn(indications, X) <=> NoneIn(rest, X) /\ i \notin X
      /\ \A X, Y : LastIn(indications, X, Y) =>
           LastIn(rest, X, Y) /\ (NoneIn(rest, X) /\ i \in X => i \in Y)
  BY <1>0, Handled
<1>3. k \in Kinds /\ i \in Of(k) /\ i \notin News /\ i.stamp \in Nat /\ stamps[i] = i.stamp
  <2>1. i \notin News BY <1>1, SentSets
  <2> QED BY <1>1, <2>1, SentSets
<1>4. \A k2 \in Kinds : k2 # k => i \notin Of(k2) BY SentSets
<1>5. \A k2 \in Kinds : /\ Rising(rest, Of(k2), stamps, 0, stamp[k2])
                        /\ Rising(rest, Of(k2), stamps, stampShown[k2], stamp[k2])
  BY <1>1, SentSets, RisingHandled DEF Stamps
<1>6. /\ Rising(rest, Of(k), stamps, i.stamp, stamp[k])
      /\ stampShown[k] <= i.stamp /\ i.stamp <= stamp[k]
  <2>1. Rising(indications, Of(k), stamps, stampShown[k], stamp[k]) BY <1>1, <1>3 DEF Stamps
  <2>2. stamps \in [Sent -> Int] BY SentSets
  <2> HIDE DEF k
  <2> QED BY <1>1, <1>3, <2>1, <2>2, RisingHandled
<1> HIDE DEF rest, i
<1>7. /\ IsSystem(System') /\ Agrees(System', Screen', k, i.value)
      /\ \A k2 \in Kinds : \A v2 : k2 # k /\ Agrees(System, Screen, k2, v2) =>
              Agrees(System', Screen', k2, v2)
      /\ stampShown' = [stampShown EXCEPT ![k] = i.stamp]
  BY <1>1, <1>3, Published DEF MceType
<1> HIDE DEF k
<1>8. turn' = turn BY <1>1 DEF turn
<1>9. MceType'
  <2>1. stampShown' \in [Kinds -> Int] BY <1>3, <1>7 DEF MceType
  <2> QED BY <1>1, <1>7, <2>1 DEF MceType
<1>10. Connected' BY <1>1, <1>2, <1>3, <1>8 DEF Connected
<1>11. Following'
  <2> SUFFICES ASSUME NEW k2 \in Kinds \ unseen, mceUp, NoneIn(rest, News)
               PROVE  /\ LastIn(rest, Of(k2), With(k2, value[k2]))
                      /\ NoneIn(rest, Of(k2)) => Agrees(System', Screen', k2, value[k2])
    BY <1>1, <1>8 DEF Following
  <2>1. turn > place[k2] /\ ~(turn <= 4) /\ NoneIn(indications, News) BY <1>1, <1>2, <1>3, Places
  <2>2. /\ LastIn(indications, Of(k2), With(k2, value[k2]))
        /\ NoneIn(indications, Of(k2)) => Agrees(System, Screen, k2, value[k2])
    BY <2>1 DEF Following
  <2>3. CASE k2 = k
    <3>1. NoneIn(rest, Of(k)) => i \in With(k, value[k]) BY <1>2, <1>3, <2>2, <2>3
    <3>2. i \in With(k, value[k]) => i.value = value[k] BY DEF With
    <3> QED BY <1>2, <1>7, <2>2, <2>3, <3>1, <3>2
  <2>4. CASE k2 # k BY <1>2, <1>4, <1>7, <2>2, <2>4
  <2> QED BY <2>3, <2>4
<1>12. Stamps'
  <2> SUFFICES ASSUME NEW k2 \in Kinds
               PROVE  /\ stampShown'[k2] \in -1..stamp[k2]
                      /\ Rising(rest, Of(k2), stamps, 0, stamp[k2])
                      /\ Rising(rest, Of(k2), stamps, stampShown'[k2], stamp[k2])
    BY <1>1 DEF Stamps
  <2>1. stampShown \in [Kinds -> Int] /\ stamp \in [Kinds -> Nat] BY DEF MceType
  <2>2. CASE k2 = k
    <3>1. stampShown'[k2] = i.stamp BY <1>3, <1>7, <2>1, <2>2
    <3>2. stampShown'[k2] \in -1..stamp[k2] BY <1>3, <1>6, <2>1, <2>2, <3>1
    <3> QED BY <1>5, <1>6, <2>2, <3>1, <3>2
  <2>3. CASE k2 # k
    <3>1. stampShown'[k2] = stampShown[k2] BY <1>7, <2>1, <2>3
    <3> QED BY <1>5, <3>1 DEF Stamps
  <2> QED BY <2>2, <2>3
<1>13. LastIn(indications, News, There(mceUp))' BY <1>1, <1>2
<1> QED BY <1>9, <1>10, <1>11, <1>12, <1>13

\* The bridge stays as it is while MCE moves.
LEMMA MceMoved ==
  ASSUME MceInv, MceMove
  PROVE  /\ UNCHANGED <<signal_, initRequest, System, Screen, stampShown>>
         /\ turn' = turn /\ indications \in Seq(Sent)
         /\ stamp \in [Kinds -> Nat] /\ stampShown \in [Kinds -> Int]
BY DEF MceMove, mceBridge, turn, MceInv, MceType

\* News about MCE change neither what is connected nor what numbers wait.
LEMMA NewsKeep ==
  ASSUME MceInv, MceMove, NEW i \in News, indications' = Append(indications, i),
         stamp' \in [Kinds -> Nat], \A k \in Kinds : stamp[k] <= stamp'[k]
  PROVE  /\ indications' \in Seq(Sent) /\ ~NoneIn(indications', News)
         /\ \A up : (i.on = "registered" <=> up) => LastIn(indications', News, There(up))
         /\ Connected' /\ Following' /\ Stamps'
<1>1. /\ UNCHANGED <<signal_, initRequest, System, Screen, stampShown>>
      /\ turn' = turn /\ indications \in Seq(Sent)
      /\ stamp \in [Kinds -> Nat] /\ stampShown \in [Kinds -> Int]
  BY MceMoved
<1>2. i \in Sent /\ \A k \in Kinds : i \notin Of(k) BY SentSets
<1>3. /\ indications' \in Seq(Sent) /\ ~NoneIn(indications', News)
      /\ \A k \in Kinds : NoneIn(indications, Of(k)) => NoneIn(indications', Of(k))
  BY <1>1, <1>2, QueueAppended
<1>4. ASSUME NEW up, i.on = "registered" <=> up PROVE LastIn(indications', News, There(up))
  <2>1. i \in There(up) BY <1>4 DEF There
  <2> QED BY <1>1, <1>2, <2>1, QueueAppended
<1>5. Connected' BY <1>1, <1>3 DEF Connected, MceInv
<1>6. Following' BY <1>3 DEF Following
<1>7. Stamps'
  <2> SUFFICES ASSUME NEW k \in Kinds
               PROVE  /\ stampShown[k] \in -1..stamp'[k]
                      /\ Rising(indications', Of(k), stamps, 0, stamp'[k])
                      /\ turn > 4 => Rising(indications', Of(k), stamps, stampShown[k], stamp'[k])
    BY <1>1 DEF Stamps
  <2>1. /\ stampShown[k] \in -1..stamp[k]
        /\ Rising(indications, Of(k), stamps, 0, stamp[k])
        /\ turn > 4 => Rising(indications, Of(k), stamps, stampShown[k], stamp[k])
    BY DEF MceInv, Stamps
  <2>2. /\ stamp[k] \in Int /\ stamp'[k] \in Int /\ stampShown[k] \in Int /\ stamp[k] <= stamp'[k]
        /\ stamps \in [Sent -> Int] /\ i \notin Of(k) /\ 0 \in Int
    BY <1>1, <1>2, SentSets
  <2>3. ASSUME NEW from \in Int, Rising(indications, Of(k), stamps, from, stamp[k])
        PROVE  Rising(indications', Of(k), stamps, from, stamp'[k])
    BY <1>1, <1>2, <2>2, <2>3, RisingAppended
  <2>4. stampShown[k] \in -1..stamp'[k] BY <2>1, <2>2
  <2> QED BY <2>1, <2>2, <2>3, <2>4
<1> QED BY <1>3, <1>4, <1>5, <1>6, <1>7

\* What MCE says when it starts and when it stops.
LEMMA OwnerNewsSent ==
  \A on \in {"registered", "unregistered"} :
    Indication(on, "all", FALSE, 0) \in News /\ Indication(on, "all", FALSE, 0).on = on
BY DEF Indication, News

\* MCE starts or is replaced.
LEMMA StartMceKeeps == MceInv /\ StartMce => MceInv'
<1> SUFFICES ASSUME MceInv, StartMce PROVE MceInv' OBVIOUS
<1> DEFINE i == Indication("registered", "all", FALSE, 0)
<1>1. i \in News /\ i.on = "registered" BY OwnerNewsSent
<1>2. /\ MceMove /\ mceUp' = TRUE /\ UNCHANGED unseen
      /\ stamp' = [k \in Kinds |-> stamp[k] + 1]
      /\ indications' = Append(indications, i)
  BY Zenon DEF StartMce
<1> HIDE DEF i
<1>3. /\ UNCHANGED <<signal_, initRequest, System, Screen, stampShown>>
      /\ stamp \in [Kinds -> Nat]
  BY <1>2, MceMoved
<1>4. stamp' \in [Kinds -> Nat] /\ \A k \in Kinds : stamp[k] <= stamp'[k]
  BY <1>2, <1>3
<1>5. /\ indications' \in Seq(Sent) /\ Connected' /\ Following' /\ Stamps'
  BY <1>1, <1>2, <1>4, NewsKeep
<1>6. LastIn(indications', News, There(TRUE))
  <2>1. i.on = "registered" <=> TRUE BY <1>1
  <2> QED BY <1>1, <1>2, <1>4, <2>1, NewsKeep
<1>7. value' = [k \in Kinds |-> value'[k]] /\ \A k \in Kinds : value'[k] \in ValueOf[k]
  <2>1. PICK v \in ValueOf["display"] : value' = [value EXCEPT !["display"] = v] BY DEF StartMce
  <2>2. value = [k \in Kinds |-> value[k]] /\ \A k \in Kinds : value[k] \in ValueOf[k]
    BY DEF MceInv, MceType
  <2> QED BY <2>1, <2>2
<1>8. MceType' BY <1>2, <1>3, <1>4, <1>5, <1>7 DEF MceType, MceInv
<1> QED BY <1>2, <1>5, <1>6, <1>8 DEF MceInv

\* MCE stops.
LEMMA StopMceKeeps == MceInv /\ StopMce => MceInv'
<1> SUFFICES ASSUME MceInv, StopMce PROVE MceInv' OBVIOUS
<1> DEFINE i == Indication("unregistered", "all", FALSE, 0)
<1>1. i \in News /\ i.on # "registered" BY OwnerNewsSent
<1>2. /\ MceMove /\ mceUp' = FALSE /\ UNCHANGED <<value, stamp, unseen>>
      /\ indications' = Append(indications, i)
  BY DEF StopMce
<1> HIDE DEF i
<1>3. /\ UNCHANGED <<signal_, initRequest, System, Screen, stampShown>>
      /\ stamp \in [Kinds -> Nat]
  BY <1>2, MceMoved
<1>4. stamp' \in [Kinds -> Nat] /\ \A k \in Kinds : stamp[k] <= stamp'[k]
  BY <1>2, <1>3
<1>5. /\ indications' \in Seq(Sent) /\ Connected' /\ Following' /\ Stamps'
  BY <1>1, <1>2, <1>4, NewsKeep
<1>6. LastIn(indications', News, There(FALSE))
  <2>1. i.on = "registered" <=> FALSE BY <1>1
  <2> QED BY <1>1, <1>2, <1>4, <2>1, NewsKeep
<1>7. MceType' BY <1>2, <1>3, <1>5 DEF MceType, MceInv
<1> QED BY <1>2, <1>5, <1>6, <1>7 DEF MceInv

\* A value changes: it is indicated when its kind is connected, and unseen when
\* it was read and is not.
LEMMA ChangeStateKeeps == MceInv /\ ChangeState => MceInv'
<1> SUFFICES ASSUME MceInv, ChangeState PROVE MceInv' OBVIOUS
<1>1. PICK k \in Kinds :
        /\ \E v \in ValueOf[k] \ {value[k]} : value' = [value EXCEPT ![k] = v]
        /\ stamp' = [stamp EXCEPT ![k] = @ + 1]
        /\ indications' = IF k \in signal_
                          THEN Append(indications,
                                      Indication("indication", k, value'[k], stamp'[k]))
                          ELSE indications
        /\ unseen' = IF BetweenReadAndConnect(k) THEN unseen \cup {k} ELSE unseen
  BY Zenon DEF ChangeState
<1> DEFINE e == Indication("indication", k, value'[k], stamp'[k])
<1>2. MceMove /\ mceUp /\ UNCHANGED mceUp BY DEF ChangeState
<1>3. /\ UNCHANGED <<signal_, initRequest, System, Screen, stampShown>>
      /\ turn' = turn /\ indications \in Seq(Sent)
      /\ stamp \in [Kinds -> Nat] /\ stampShown \in [Kinds -> Int]
  BY <1>2, MceMoved
<1>4. /\ value' = [k2 \in Kinds |-> value'[k2]]
      /\ \A k2 \in Kinds : value'[k2] \in ValueOf[k2]
      /\ \A k2 \in Kinds : k2 # k => value'[k2] = value[k2]
  <2>1. PICK v \in ValueOf[k] : value' = [value EXCEPT ![k] = v] BY <1>1
  <2>2. value = [k2 \in Kinds |-> value[k2]] /\ \A k2 \in Kinds : value[k2] \in ValueOf[k2]
    BY DEF MceInv, MceType
  <2> QED BY <2>1, <2>2
<1>5. /\ stamp' \in [Kinds -> Nat] /\ stamp'[k] = stamp[k] + 1
      /\ \A k2 \in Kinds : stamp[k2] <= stamp'[k2]
  BY <1>1, <1>3
<1>6. /\ e \in Of(k) /\ e \in With(k, value'[k]) /\ stamps[e] = stamp'[k]
      /\ e \in Sent /\ e \notin News /\ \A k2 \in Kinds : k2 # k => e \notin Of(k2)
  <2>1. e \in Of(k) /\ e.value = value'[k] /\ e.stamp = stamp'[k]
    BY <1>4, <1>5 DEF Indication, Of
  <2> HIDE DEF e
  <2> QED BY <2>1, SentSets DEF With
<1>7. indications' = IF k \in signal_ THEN Append(indications, e) ELSE indications
  BY <1>1
<1> HIDE DEF e
<1>8. /\ indications' \in Seq(Sent)
      /\ NoneIn(indications', News) <=> NoneIn(indications, News)
      /\ LastIn(indications', News, There(mceUp))
      /\ k \in signal_ => ~NoneIn(indications', Of(k))
                         /\ LastIn(indications', Of(k), With(k, value'[k]))
      /\ \A k2 \in Kinds : k2 # k =>
           /\ NoneIn(indications', Of(k2)) <=> NoneIn(indications, Of(k2))
           /\ \A Y : LastIn(indications, Of(k2), Y) => LastIn(indications', Of(k2), Y)
  <2>1. CASE k \in signal_ BY <1>3, <1>6, <1>7, <2>1, QueueAppended DEF MceInv
  <2>2. CASE k \notin signal_ BY <1>3, <1>7, <2>2 DEF MceInv
  <2> QED BY <2>1, <2>2
<1>9. MceType'
  <2>1. unseen' \in SUBSET Kinds BY <1>1 DEF MceInv, MceType
  <2> QED BY <1>2, <1>3, <1>4, <1>5, <1>8, <2>1 DEF MceInv, MceType
<1>10. Connected'
  <2> SUFFICES ASSUME NEW k2 \in Kinds
               PROVE  /\ turn > 4 + place[k2] /\ mceUp /\ NoneIn(indications', News)
                           => k2 \in signal_
                      /\ turn > 4 /\ k2 \notin signal_ => NoneIn(indications', Of(k2))
    BY <1>2, <1>3 DEF Connected
  <2>1. /\ turn > 4 + place[k2] /\ mceUp /\ NoneIn(indications, News) => k2 \in signal_
        /\ turn > 4 /\ k2 \notin signal_ => NoneIn(indications, Of(k2))
    BY DEF MceInv, Connected
  <2>2. k2 \notin signal_ => (NoneIn(indications, Of(k2)) => NoneIn(indications', Of(k2)))
    BY <1>7, <1>8
  <2> QED BY <1>8, <2>1, <2>2
<1>11. Following'
  <2> SUFFICES ASSUME NEW k2 \in Kinds \ unseen', NoneIn(indications', News), turn > place[k2]
               PROVE  IF turn <= 4 THEN Agrees(System, Screen, k2, value'[k2])
                      ELSE /\ LastIn(indications', Of(k2), With(k2, value'[k2]))
                           /\ NoneIn(indications', Of(k2)) => Agrees(System, Screen, k2, value'[k2])
    BY <1>2, <1>3 DEF Following
  <2>1. k2 \in Kinds \ unseen BY <1>1
  <2>2. CASE k2 = k
    <3>1. ~BetweenReadAndConnect(k) BY <1>1, <2>2
    <3>2. turn > 4 + place[k] /\ ~(turn <= 4)
      <4>1. ~(turn <= 4 + place[k]) BY <2>2, <3>1, Between DEF MceInv
      <4>2. turn \in 1..8 /\ place[k] \in 1..3 BY Places, TurnType DEF MceInv
      <4> QED BY <4>1, <4>2
    <3>3. k \in signal_ BY <1>2, <1>8, <3>2 DEF MceInv, Connected
    <3> QED BY <1>8, <2>2, <3>2, <3>3
  <2>3. CASE k2 # k
    <3>1. IF turn <= 4 THEN Agrees(System, Screen, k2, value[k2])
          ELSE /\ LastIn(indications, Of(k2), With(k2, value[k2]))
               /\ NoneIn(indications, Of(k2)) => Agrees(System, Screen, k2, value[k2])
      BY <1>2, <1>8, <2>1 DEF MceInv, Following
    <3>2. value'[k2] = value[k2] BY <1>4, <2>3
    <3> QED BY <1>8, <2>3, <3>1, <3>2
  <2> QED BY <2>2, <2>3
<1>12. Stamps'
  <2> SUFFICES ASSUME NEW k2 \in Kinds
               PROVE  /\ stampShown[k2] \in -1..stamp'[k2]
                      /\ Rising(indications', Of(k2), stamps, 0, stamp'[k2])
                      /\ turn > 4 => Rising(indications', Of(k2), stamps, stampShown[k2], stamp'[k2])
    BY <1>3 DEF Stamps
  <2>1. /\ stampShown[k2] \in -1..stamp[k2]
        /\ Rising(indications, Of(k2), stamps, 0, stamp[k2])
        /\ turn > 4 => Rising(indications, Of(k2), stamps, stampShown[k2], stamp[k2])
    BY DEF MceInv, Stamps
  <2>2. /\ stamp[k2] \in Int /\ stamp'[k2] \in Int /\ stampShown[k2] \in Int
        /\ stamp[k2] <= stamp'[k2] /\ stamps \in [Sent -> Int] /\ 0 \in Int
        /\ 0 <= stamp'[k2] /\ stampShown[k2] <= stamp'[k2]
    BY <1>3, <1>5, <2>1, SentSets
  <2>3. ASSUME NEW from \in Int, from <= stamp'[k2],
               Rising(indications, Of(k2), stamps, from, stamp[k2])
        PROVE  Rising(indications', Of(k2), stamps, from, stamp'[k2])
    <3>1. e \in Of(k2) => from <= stamps[e] /\ stamp[k2] <= stamps[e] /\ stamps[e] <= stamp'[k2]
      BY <1>6, <2>2, <2>3
    <3>2. Rising(Append(indications, e), Of(k2), stamps, from, stamp'[k2])
      BY <1>3, <1>6, <2>2, <2>3, <3>1, RisingAppended
    <3>3. Rising(indications, Of(k2), stamps, from, stamp'[k2])
      BY <1>3, <2>2, <2>3, RisingWidened
    <3> QED BY <1>7, <3>2, <3>3
  <2>4. stampShown[k2] \in -1..stamp'[k2] BY <2>1, <2>2
  <2> QED BY <2>1, <2>2, <2>3, <2>4
<1> QED BY <1>2, <1>8, <1>9, <1>10, <1>11, <1>12 DEF MceInv

\* Every step of the bridge and of MCE keeps the invariant.
LEMMA MceInvNext == MceInv /\ [MceNext]_mceVars => MceInv'
<1> SUFFICES ASSUME MceInv, [MceNext]_mceVars PROVE MceInv' OBVIOUS
<1>1. CASE GetState BY <1>1, GetStateKeeps
<1>2. CASE ResetSignal BY <1>2, ResetSignalKeeps
<1>3. CASE ConnectIndication BY <1>3, ConnectIndicationKeeps
<1>4. CASE OnMceRegistered BY <1>4, OnMceRegisteredKeeps
<1>5. CASE OnMceUnregistered BY <1>5, OnMceUnregisteredKeeps
<1>6. CASE OnIndication BY <1>6, OnIndicationKeeps
<1>7. CASE StartMce BY <1>7, StartMceKeeps
<1>8. CASE StopMce BY <1>8, StopMceKeeps
<1>9. CASE ChangeState BY <1>9, ChangeStateKeeps
<1>10. CASE UNCHANGED mceVars
  BY <1>10 DEF mceVars, mceBridge, mce, MceInv, MceType, Connected, Following, Stamps, turn
<1> QED
  BY <1>1, <1>2, <1>3, <1>4, <1>5, <1>6, <1>7, <1>8, <1>9, <1>10
  DEF MceNext, MceLoop, MceDaemon

\* With nothing left to do or to hear, the invariant is what is promised.
LEMMA MceInvShown == MceInv => MceShown
<1> SUFFICES ASSUME MceInv, initRequest = <<>>, indications = <<>>, mceUp,
                    NEW k \in Kinds \ unseen
             PROVE  shows(k)
  BY DEF MceShown
<1>1. turn > place[k] /\ ~(turn <= 4) BY TurnType, Places DEF MceInv
<1>2. NoneIn(indications, News) /\ NoneIn(indications, Of(k)) BY QueueEmpty
<1> QED BY <1>1, <1>2 DEF MceInv, Following, Agrees, shows

\* What a step may do to the numbers of one kind: show one that is not older
\* than the one shown, or make a new one.
Mirrors(k) ==
  \/ stamp'[k] > stamp[k] /\ stampShown'[k] = stampShown[k]
  \/ stampShown'[k] \in stampShown[k]..stamp[k] /\ stampShown'[k] # -1 /\ stamp'[k] = stamp[k]
  \/ stamp'[k] = stamp[k] /\ stampShown'[k] = stampShown[k]

\* Every step mirrors every kind.
LEMMA MceMirrorStep ==
  ASSUME MceInv, [MceNext]_mceVars, NEW k \in Kinds
  PROVE  Mirrors(k)
<1>0. /\ stamp \in [Kinds -> Nat] /\ stampShown \in [Kinds -> Int]
      /\ stampShown[k] \in -1..stamp[k] /\ IsSystem(System)
  BY DEF MceInv, MceType, Stamps
<1>1. CASE GetState
  <2>1. called \in Kinds /\ UNCHANGED stamp BY <1>1, CallMade DEF GetState, Calling, Called, mce, MceInv
  <2>2. CASE mceUp
    <3>1. Publish(called, value[called], stamp[called]) BY <1>1, <2>2 DEF GetState
    <3>2. stampShown' = [stampShown EXCEPT ![called] = stamp[called]] BY <3>1 DEF Publish
    <3> QED BY <1>0, <2>1, <3>2 DEF Mirrors
  <2>3. CASE ~mceUp BY <1>1, <2>1, <2>3 DEF GetState, Mirrors
  <2> QED BY <2>2, <2>3
<1>2. CASE OnIndication
  <2> DEFINE i == Head(indications)
  <2>0. HandleIndication("indication") /\ Publish(i.kind, i.value, i.stamp)
    BY <1>2 DEF OnIndication
  <2>1. /\ UNCHANGED stamp /\ turn = 8 /\ indications # <<>> /\ indications \in Seq(Sent)
        /\ i \in Sent /\ i.on = "indication"
    BY <2>0, Handled DEF MceInv, MceType
  <2>2. i.kind \in Kinds /\ i \in Of(i.kind) /\ i.stamp \in Nat /\ stamps[i] = i.stamp
    <3>1. i \notin News BY <2>1, SentSets
    <3> QED BY <2>1, <3>1, SentSets
  <2>3. stampShown[i.kind] <= i.stamp /\ i.stamp <= stamp[i.kind]
    <3>1. Rising(indications, Of(i.kind), stamps, stampShown[i.kind], stamp[i.kind])
      BY <2>1, <2>2 DEF MceInv, Stamps
    <3>2. stamps \in [Sent -> Int] BY SentSets
    <3> DEFINE shownStamp == stampShown[i.kind]
               lastStamp == stamp[i.kind]
    <3>3. shownStamp <= stamps[i] /\ stamps[i] <= lastStamp
      <4> HIDE DEF shownStamp, lastStamp
      <4>1. Rising(indications, Of(i.kind), stamps, shownStamp, lastStamp) BY <3>1 DEF shownStamp, lastStamp
      <4> QED BY <2>1, <2>2, <3>2, <4>1, RisingHandled
    <3> QED BY <2>2, <3>3
  <2>4. stampShown' = [stampShown EXCEPT ![i.kind] = i.stamp] BY <2>0 DEF Publish
  <2> HIDE DEF i
  <2> QED BY <1>0, <2>1, <2>2, <2>3, <2>4 DEF Mirrors
<1>3. CASE StartMce
  <2>1. stamp' = [k2 \in Kinds |-> stamp[k2] + 1] /\ UNCHANGED stampShown
    BY <1>3, Zenon DEF StartMce, MceMove, mceBridge
  <2> QED BY <1>0, <2>1 DEF Mirrors
<1>4. CASE ChangeState
  <2>1. PICK k2 \in Kinds : stamp' = [stamp EXCEPT ![k2] = @ + 1] BY <1>4, Zenon DEF ChangeState
  <2>2. UNCHANGED stampShown BY <1>4 DEF ChangeState, MceMove, mceBridge
  <2> QED BY <1>0, <2>1, <2>2 DEF Mirrors
<1>5. CASE ResetSignal \/ ConnectIndication \/ OnMceRegistered \/ OnMceUnregistered
  <2>1. UNCHANGED <<stamp, stampShown>>
    BY <1>5 DEF ResetSignal, ConnectIndication, OnMceRegistered, OnMceUnregistered,
                HandleIndication, Called, mce
  <2> QED BY <2>1 DEF Mirrors
<1>6. CASE StopMce BY <1>6 DEF StopMce, MceMove, mceBridge, Mirrors
<1>7. CASE UNCHANGED mceVars BY <1>7 DEF mceVars, mceBridge, mce, Mirrors
<1> QED
  BY <1>1, <1>2, <1>3, <1>4, <1>5, <1>6, <1>7 DEF MceNext, MceLoop, MceDaemon

\* Each of the three mirrors is one of these.
LEMMA MceMirrorsStep ==
  ASSUME MceInv, [MceNext]_mceVars
  PROVE  /\ [PsmMirror!Next]_(PsmMirror!mirror)
         /\ [DisplayMirror!Next]_(DisplayMirror!mirror)
         /\ [RadioMirror!Next]_(RadioMirror!mirror)
<1>1. Mirrors("psm") /\ Mirrors("display") /\ Mirrors("radio")
  BY MceMirrorStep DEF Kinds
<1>2. [PsmMirror!Next]_(PsmMirror!mirror)
  BY <1>1 DEF Mirrors, PsmMirror!Next, PsmMirror!Show, PsmMirror!Change, PsmMirror!mirror,
              PsmMirror!Nothing
<1>3. [DisplayMirror!Next]_(DisplayMirror!mirror)
  BY <1>1 DEF Mirrors, DisplayMirror!Next, DisplayMirror!Show, DisplayMirror!Change,
              DisplayMirror!mirror, DisplayMirror!Nothing
<1>4. [RadioMirror!Next]_(RadioMirror!mirror)
  BY <1>1 DEF Mirrors, RadioMirror!Next, RadioMirror!Show, RadioMirror!Change,
              RadioMirror!mirror, RadioMirror!Nothing
<1> QED BY <1>2, <1>3, <1>4

\* Initially nothing has been shown of any kind.
LEMMA MceMirrorsInit ==
  MceInit => PsmMirror!Init /\ DisplayMirror!Init /\ RadioMirror!Init
BY DEF MceInit, Kinds, PsmMirror!Init, DisplayMirror!Init, RadioMirror!Init,
       PsmMirror!Nothing, DisplayMirror!Nothing, RadioMirror!Nothing

----------------------------------------------------------------------------
(* The bridges among the providers.                                        *)

\* The bridge to MCE takes its own steps or none.
LEMMA ProvidersMce ==
  /\ ProvidersInit => MceInit
  /\ [ProvidersNext]_allVars => [MceNext]_mceVars
<1>1. ProvidersInit => MceInit BY DEF ProvidersInit
<1>2. [ProvidersNext]_allVars => [MceNext]_mceVars
  BY Zenon DEF ProvidersNext, allVars, BackCoverStep, BmeStep, KeyboardStep, MceStep, ProfileStep
<1> QED BY <1>1, <1>2

\* The two invariants together are one of all the providers.
LEMMA MirrorsInv ==
  /\ ProvidersInit => ProfileInv /\ MceInv
  /\ ProfileInv /\ MceInv /\ [ProvidersNext]_allVars => ProfileInv' /\ MceInv'
BY ProvidersProfile, ProvidersMce, ProfileInvInit, MceInvInit, ProfileInvNext, MceInvNext

\* When everything is handled, Profile.Name is the active profile, and System
\* and Screen show the state of MCE.
THEOREM MirrorsAreShown == ProvidersSpec => []MirrorsShown
<1>1. ProfileInv /\ MceInv => MirrorsShown
  BY ProfileInvShown, MceInvShown DEF MirrorsShown
<1> QED BY <1>1, MirrorsInv, PTL DEF ProvidersSpec

\* Neither bridge ever shows a value its daemon did not have, nor goes back to an
\* older one, whatever was lost or replaced on the way.
THEOREM BridgesMirror == ProvidersSpec => ImplementsMirror
<1>1. ProvidersInit => /\ NameMirror!Init /\ PsmMirror!Init
                       /\ DisplayMirror!Init /\ RadioMirror!Init
  BY ProvidersProfile, ProvidersMce, NameMirrorInit, MceMirrorsInit
<1>2. ProfileInv /\ [ProvidersNext]_allVars => [NameMirror!Next]_(NameMirror!mirror)
  BY ProvidersProfile, NameMirrorStep
<1>3. MceInv /\ [ProvidersNext]_allVars =>
        /\ [PsmMirror!Next]_(PsmMirror!mirror)
        /\ [DisplayMirror!Next]_(DisplayMirror!mirror)
        /\ [RadioMirror!Next]_(RadioMirror!mirror)
  BY ProvidersMce, MceMirrorsStep
<1> QED
  BY <1>1, <1>2, <1>3, MirrorsInv, PTL
  DEF ProvidersSpec, ImplementsMirror, NameMirror!Spec, PsmMirror!Spec,
      DisplayMirror!Spec, RadioMirror!Spec
=============================================================================
