----------------------------- MODULE OfonoProofs ----------------------------
(***************************************************************************)
(* Proofs about OfonoBridge, for every set of modems, contexts, statuses   *)
(* and interface lists, and for every answer of oFono the bridge can meet; *)
(* then about OfonoSystem: what the bridge does at the signals of the      *)
(* daemon is what OfonoBridge allows, so that what is proved of the bridge *)
(* alone holds of it beside a daemon; and once it has handled them it      *)
(* shows what the daemon has (Beside, and CellularShownHolds at the end).  *)
(*                                                                         *)
(* The invariant is a predicate of a bridge x, because the functions of    *)
(* the code are operators on bridges: a handler is a composition of them,  *)
(* and each of them is shown to keep the invariant, or to restore it.      *)
(* The functions that take set_status as a parameter have two lemmas: one  *)
(* with the innermost set_status (suffix 0), used to prove set_status, and *)
(* one with the whole of it (suffix 1), used to prove the handlers.        *)
(***************************************************************************)
EXTENDS OfonoSystem, SignalsProofs

(* The statuses that claim a network.                                      *)
Known == {"home", "roam", "forbidden"}

(* Weak holds also between has_sim_ = v.toBool() and the set_status that    *)
(* follows it; NoSimKept is what that assignment breaks.                   *)

HonestStatus(x) ==
  x.pub.RegistrationStatus \in Known =>
    x.pub.RegistrationStatus = ckit_status_[x.status_]

OwnersKept(x) ==
  /\ x.operator_ => x.network_ /\ x.sim_ # None
  /\ x.modem_ = None => /\ x.sim_ = None
                        /\ ~x.network_
                        /\ ~x.connectionManager_
  /\ ~x.connectionManager_ => x.connectionContexts_ = NoContexts
  /\ x.mmsContext_ = first_mms(x.connectionContexts_)
  /\ x.pub.MMSContext \in {0, x.mmsContext_}

NoSimKept(x) ==
  ~x.has_sim_ => /\ x.status_ \in {"NoSim", "Unknown"}
                 /\ x.pub.RegistrationStatus \notin Known

Weak(x) == x \in Bridge /\ HonestStatus(x) /\ OwnersKept(x)
Good(x) == Weak(x) /\ NoSimKept(x)

\* the status after the network, or the SIM, is lost
Lost == {"NoSim", "Offline"}

(* What is shown as the status is the word of the status the bridge holds,  *)
(* or "no-sim" for Offline, after reset_sim has set up the SIM again; what  *)
(* a proxy published is shown only while it is there.                       *)
Exact(x) == \/ x.pub.RegistrationStatus = ckit_status_[x.status_]
            \/ x.pub.RegistrationStatus = "no-sim" /\ x.status_ = "Offline"

Owned(x) ==
  /\ x.pub.HomeMCC # defaults_.HomeMCC => x.sim_ # None
  /\ x.pub.StkIdleModeText # defaults_.StkIdleModeText => x.stk_ # None

(* What holds of the bridge before and after most of the functions.        *)
Follows(x, y) ==
  /\ Exact(y) \/ (~Exact(x) /\ y.status_ = x.status_)
  /\ Owned(x) => Owned(y)

Kept(x, y) == Good(y) /\ y.modem_ = x.modem_ /\ Follows(x, y)

----------------------------------------------------------------------------

\* The default properties have the types of the published ones.
LEMMA DefaultsType == defaults_ \in Published
BY DEF Published, defaults_, CkitStatus

\* Every status has a word, and only NoSim has "no-sim".
LEMMA CkitType == 
  ASSUME NEW s \in Status 
  PROVE  /\ ckit_status_[s] \in CkitStatus
         /\ ckit_status_[s] = "no-sim" <=> s = "NoSim"
BY DEF ckit_status_, Status, CkitStatus

\* map_status gives a status for every string (369-373).
LEMMA MapStatusType == ASSUME NEW v PROVE map_status(v) \in Status
BY DEF map_status, status_map_, Status

\* Kept holds of a function that does nothing, and of one function after
\* another.
LEMMA KeptLaws ==
  /\ \A x : Good(x) => Kept(x, x)
  /\ \A x, y : Kept(x, y) => Good(y) /\ y.modem_ = x.modem_
  /\ \A x, y, z : Kept(x, y) /\ Kept(y, z) => Kept(x, z)
<1>1. \A x : Follows(x, x) BY DEF Follows
<1>2. \A x, y, z : Follows(x, y) /\ Follows(y, z) => Follows(x, z)
  BY DEF Follows
<1> QED BY <1>1, <1>2 DEF Kept

\* set_status up to 402 restores NoSimKept when it is called with NoSim,
\* and keeps the rest; this is where has_sim_, status_ and the published
\* status are tied together.
LEMMA AssignGood ==
  ASSUME NEW x, NEW s \in Status, Weak(x), Good(x) \/ s = "NoSim"
  PROVE  /\ Kept(x, assign_status(x, s))
         /\ assign_status(x, s).network_ = x.network_
         /\ assign_status(x, s).has_sim_
              => x.has_sim_ /\ assign_status(x, s).status_ = s
         /\ s \in Lost => assign_status(x, s).status_ \in Lost
<1> DEFINE new == IF x.has_sim_ THEN s ELSE "NoSim"
           h == IF new = "NoSim" THEN FALSE ELSE x.has_sim_
           y == [x EXCEPT !.status_ = new, !.has_sim_ = h,
                          !.pub.RegistrationStatus = ckit_status_[new]]
<1>1. x \in Bridge BY DEF Weak
<1>2. new \in Status /\ h \in BOOLEAN BY <1>1 DEF Status, Bridge
<1>3. ckit_status_[new] \in CkitStatus BY <1>2, CkitType
<1>4. CASE s = x.status_ \/ new = x.status_
  <2>1. assign_status(x, s) = x BY <1>4 DEF assign_status
  <2>2. NoSimKept(x)
    BY <1>1, <1>4, CkitType DEF Good, Weak, NoSimKept, HonestStatus, Known, Bridge, ckit_status_
  <2>3. Good(x) BY <2>2 DEF Good
  <2>4. x.has_sim_ => x.status_ = s BY <1>4
  <2>5. s \in Lost => x.status_ \in Lost BY <1>4 DEF Lost
  <2> QED BY <2>1, <2>3, <2>4, <2>5, KeptLaws
<1>5. CASE ~(s = x.status_ \/ new = x.status_)
  <2>1. assign_status(x, s) = y BY <1>5 DEF assign_status
  <2> HIDE DEF new, h
  <2>2. y \in Bridge BY <1>1, <1>2, <1>3 DEF Bridge, Published
  <2>3. /\ y.status_ = new /\ y.has_sim_ = h
        /\ y.pub.RegistrationStatus = ckit_status_[new]
        /\ y.pub.MMSContext = x.pub.MMSContext
        /\ y.modem_ = x.modem_ /\ y.sim_ = x.sim_ /\ y.network_ = x.network_
        /\ y.operator_ = x.operator_ /\ y.stk_ = x.stk_
        /\ y.connectionManager_ = x.connectionManager_
        /\ y.connectionContexts_ = x.connectionContexts_
        /\ y.mmsContext_ = x.mmsContext_
        /\ y.pub.HomeMCC = x.pub.HomeMCC
        /\ y.pub.StkIdleModeText = x.pub.StkIdleModeText
    BY <1>1 DEF Bridge, Published
  <2> HIDE DEF y
  <2>4. HonestStatus(y) BY <2>3 DEF HonestStatus
  <2>5. OwnersKept(y) BY <2>3 DEF OwnersKept, Weak
  <2>6. NoSimKept(y)
    BY <2>3, <1>2, CkitType DEF NoSimKept, new, h, Known, ckit_status_
  <2>7. Follows(x, y) BY <2>3 DEF Follows, Exact, Owned
  <2>8. Kept(x, y) BY <2>2, <2>3, <2>4, <2>5, <2>6, <2>7 DEF Kept, Good, Weak
  <2>9. h => x.has_sim_ /\ new = s BY <1>1 DEF h, new, Bridge
  <2>10. s \in Lost => new \in Lost BY DEF new, Lost
  <2> QED BY <2>1, <2>3, <2>8, <2>9, <2>10
<1> QED BY <1>4, <1>5

----------------------------------------------------------------------------

\* The first MMS context is a context, or none: a non-empty set of paths
\* has a least one.
LEMMA FirstMms ==
  ASSUME NEW kinds \in [Contexts -> ContextKind]
  PROVE  first_mms(kinds) \in Contexts \cup {0}
<1> DEFINE mms == {c \in Contexts : kinds[c] = "mms"}
           R == OpToRel(<, Nat)
<1>1. CASE mms = {} BY <1>1 DEF first_mms
<1>2. CASE mms # {}
  <2>1. mms \subseteq Nat BY BridgeAssumption
  <2>2. IsWellFoundedOn(R, Nat) BY NatLessThanWellFounded
  <2>3. \A c, d \in Nat : <<d, c>> \in R <=> d < c BY Zenon DEF OpToRel
  <2> HIDE DEF R, mms
  <2>4. PICK c \in mms : \A d \in mms : ~(<<d, c>> \in R)
    BY <1>2, <2>1, <2>2, WFMin
  <2>5. \A d \in mms : c <= d
    <3> TAKE d \in mms
    <3>1. c \in Nat /\ d \in Nat BY <2>1
    <3>2. ~(d < c) BY <2>3, <2>4, <3>1
    <3> QED BY <3>1, <3>2
  <2>6. (CHOOSE e \in mms : \A d \in mms : e <= d) \in mms BY <2>5
  <2>7. mms \subseteq Contexts BY DEF mms
  <2>8. first_mms(kinds) = CHOOSE e \in mms : \A d \in mms : e <= d
    BY <1>2 DEF first_mms, mms
  <2> QED BY <2>6, <2>7, <2>8
<1> QED BY <1>1, <1>2

\* An empty cache has no MMS context.
LEMMA NoContextsMms ==
  /\ NoContexts \in [Contexts -> ContextKind]
  /\ first_mms(NoContexts) = 0
<1>1. {c \in Contexts : NoContexts[c] = "mms"} = {} BY DEF NoContexts
<1>2. NoContexts \in [Contexts -> ContextKind] BY DEF NoContexts, ContextKind
<1> QED BY <1>1, <1>2 DEF first_mms

\* Resetting the properties keeps the invariant and takes back what the
\* proxies published; the status shown is the bridge's again if it is
\* Offline, or if "no-sim" is shown (818-823).
LEMMA ResetPropertiesGood ==
  ASSUME NEW x, Good(x), NEW no_sim \in BOOLEAN
  PROVE  LET y == resetProperties(x, no_sim)
         IN  /\ Good(y) /\ Owned(y)
             /\ y.modem_ = x.modem_ /\ y.has_sim_ = x.has_sim_
             /\ y.status_ = x.status_
             /\ x.status_ \in Lost /\ (no_sim \/ x.status_ = "Offline") => Exact(y)
<1> DEFINE p == [defaults_ EXCEPT !.RegistrationStatus =
                                        IF no_sim THEN "no-sim" ELSE @]
           y == [x EXCEPT !.pub = p]
<1>0. x \in Bridge BY DEF Good, Weak
<1>1. /\ p \in Published
      /\ p.RegistrationStatus \notin Known
      /\ p.RegistrationStatus = (IF no_sim THEN "no-sim" ELSE "offline")
      /\ p.MMSContext = 0
      /\ p.HomeMCC = defaults_.HomeMCC
      /\ p.StkIdleModeText = defaults_.StkIdleModeText
  BY DefaultsType DEF Published, CkitStatus, Known, defaults_
<1> HIDE DEF p
<1>2. y \in Bridge BY <1>0, <1>1 DEF Bridge
<1>3. resetProperties(x, no_sim) = y BY DEF resetProperties, p
<1>4. /\ y.pub = p
      /\ y.status_ = x.status_ /\ y.has_sim_ = x.has_sim_
      /\ y.modem_ = x.modem_ /\ y.sim_ = x.sim_ /\ y.network_ = x.network_
      /\ y.operator_ = x.operator_
      /\ y.connectionManager_ = x.connectionManager_
      /\ y.connectionContexts_ = x.connectionContexts_
      /\ y.mmsContext_ = x.mmsContext_
  BY <1>0 DEF Bridge
<1> HIDE DEF y
<1>5. Good(y)
  BY <1>1, <1>2, <1>4 DEF Good, Weak, HonestStatus, OwnersKept, NoSimKept
<1>6. Owned(y) BY <1>1, <1>4 DEF Owned
<1>7. x.status_ \in Lost /\ (no_sim \/ x.status_ = "Offline") => Exact(y)
  BY <1>1, <1>4 DEF Exact, Lost, ckit_status_
<1> QED BY <1>3, <1>4, <1>5, <1>6, <1>7

\* operator_.reset(); network_.reset()
LEMMA DropNetworkGood ==
  ASSUME NEW x, Good(x)
  PROVE  LET y == [x EXCEPT !.operator_ = FALSE, !.network_ = FALSE]
         IN  Kept(x, y) /\ ~y.network_ /\ y.has_sim_ = x.has_sim_
BY DEF Good, Weak, HonestStatus, OwnersKept, NoSimKept, Bridge, Kept, Follows, Exact, Owned

\* network_.reset(new Network(...))
LEMMA NewNetworkGood ==
  ASSUME NEW x, Good(x), x.modem_ # None
  PROVE  LET y == [x EXCEPT !.network_ = TRUE]
         IN  Kept(x, y) /\ y.has_sim_ = x.has_sim_
BY DEF Good, Weak, HonestStatus, OwnersKept, NoSimKept, Bridge, Kept, Follows, Exact, Owned

\* operator_.reset(new Operator(...)), with a network and a SIM in place
LEMMA NewOperatorGood ==
  ASSUME NEW x, Good(x), x.network_, x.sim_ # None
  PROVE  LET y == [x EXCEPT !.operator_ = TRUE]
         IN  Kept(x, y) /\ y.sim_ = x.sim_
BY DEF Good, Weak, HonestStatus, OwnersKept, NoSimKept, Bridge, Kept, Follows, Exact, Owned

\* sim_.reset(new SimManager(...)), and its connection
LEMMA SimProxyGood ==
  ASSUME NEW x, Good(x), x.modem_ # None, NEW p \in {"idle", "live"}
  PROVE  LET y == [x EXCEPT !.sim_ = p]
         IN  /\ Kept(x, y) /\ y.sim_ = p
             /\ y.network_ = x.network_ /\ y.has_sim_ = x.has_sim_
             /\ y.status_ = x.status_
BY ZenonT(60)
   DEF Good, Weak, HonestStatus, OwnersKept, NoSimKept, Bridge, Kept, Follows, Exact, Owned,
       ProxyState, None

\* The bridge x with the toolkit's proxy p and the text t.
WithStk(x, p, t) == [x EXCEPT !.stk_ = p, !.pub.StkIdleModeText = t]

\* A toolkit's proxy and its text may be changed together, the text being
\* the default when there is no proxy.
LEMMA StkProxyGood ==
  ASSUME NEW x, Good(x), NEW p \in ProxyState, NEW t \in {"", "text"},
         p = None => t = ""
  PROVE  /\ Kept(x, WithStk(x, p, t)) /\ WithStk(x, p, t).stk_ = p
         /\ WithStk(x, p, t).status_ = x.status_
         /\ WithStk(x, p, t).has_sim_ = x.has_sim_
<1> DEFINE y == [x EXCEPT !.stk_ = p, !.pub.StkIdleModeText = t]
<1>1. x \in Bridge BY DEF Good, Weak
<1>2. y \in Bridge BY <1>1 DEF Bridge, Published
<1>3. /\ y.pub.RegistrationStatus = x.pub.RegistrationStatus
      /\ y.pub.MMSContext = x.pub.MMSContext
      /\ y.pub.HomeMCC = x.pub.HomeMCC
      /\ y.pub.StkIdleModeText = t
      /\ y.status_ = x.status_ /\ y.has_sim_ = x.has_sim_
      /\ y.modem_ = x.modem_ /\ y.sim_ = x.sim_ /\ y.network_ = x.network_
      /\ y.operator_ = x.operator_ /\ y.stk_ = p
      /\ y.connectionManager_ = x.connectionManager_
      /\ y.connectionContexts_ = x.connectionContexts_
      /\ y.mmsContext_ = x.mmsContext_
  BY <1>1 DEF Bridge, Published
<1> HIDE DEF y
<1>4. Good(y)
  BY <1>2, <1>3 DEF Good, Weak, HonestStatus, OwnersKept, NoSimKept
<1>5. Follows(x, y) BY <1>3 DEF Follows, Exact, Owned, defaults_
<1>6. y = WithStk(x, p, t) BY DEF WithStk, y
<1> QED BY <1>3, <1>4, <1>5, <1>6 DEF Kept

\* Publishing what has nothing to do with the status and belongs to no proxy.
LEMMA PubGood ==
  ASSUME NEW x, Good(x), NEW p \in Published,
         p.RegistrationStatus = x.pub.RegistrationStatus,
         p.MMSContext = x.pub.MMSContext,
         p.HomeMCC # x.pub.HomeMCC => x.sim_ # None,
         p.StkIdleModeText = x.pub.StkIdleModeText
  PROVE  LET y == [x EXCEPT !.pub = p]
         IN  /\ Kept(x, y) /\ y.pub = p
             /\ y.has_sim_ = x.has_sim_ /\ y.sim_ = x.sim_
             /\ y.network_ = x.network_ /\ y.status_ = x.status_
<1> DEFINE y == [x EXCEPT !.pub = p]
<1>0. x \in Bridge BY DEF Good, Weak
<1>1. y \in Bridge BY <1>0 DEF Bridge
<1>2. /\ y.pub = p
      /\ y.status_ = x.status_ /\ y.has_sim_ = x.has_sim_
      /\ y.modem_ = x.modem_ /\ y.sim_ = x.sim_ /\ y.network_ = x.network_
      /\ y.operator_ = x.operator_ /\ y.stk_ = x.stk_
      /\ y.connectionManager_ = x.connectionManager_
      /\ y.connectionContexts_ = x.connectionContexts_
      /\ y.mmsContext_ = x.mmsContext_
  BY <1>0 DEF Bridge
<1> HIDE DEF y
<1>3. Good(y)
  BY <1>1, <1>2 DEF Good, Weak, HonestStatus, OwnersKept, NoSimKept
<1>4. Exact(y) <=> Exact(x) BY <1>2 DEF Exact
<1>5. Owned(x) => Owned(y) BY <1>2 DEF Owned
<1>6. Follows(x, y) BY <1>2, <1>4, <1>5 DEF Follows
<1> QED BY <1>2, <1>3, <1>6 DEF Kept, y

\* The names the network and its operator report are kept apart from what is
\* published.
LEMMA CachedNameGood ==
  ASSUME NEW x, Good(x),
         NEW ns \in [first : {"", "net"}, second : {"", "op"}]
  PROVE  LET y == [x EXCEPT !.network_name_ = ns]
         IN  Kept(x, y) /\ y.has_sim_ = x.has_sim_ /\ y.pub = x.pub
BY DEF Good, Weak, HonestStatus, OwnersKept, NoSimKept, Bridge, Kept, Follows,
       Exact, Owned

\* Setting either of the two names keeps the invariant (342-367).
LEMMA NamesGood ==
  ASSUME NEW x, Good(x), NEW f \in {"", "net"}, NEW g \in {"", "op"}
  PROVE  /\ Kept(x, set_network_name(x, f))
         /\ set_network_name(x, f).has_sim_ = x.has_sim_
         /\ Kept(x, set_operator_name(x, g))
<1>0. x \in Bridge BY DEF Good, Weak
<1>1. ASSUME NEW ns \in [first : {"", "net"}, second : {"", "op"}]
      PROVE  LET y == set_name([x EXCEPT !.network_name_ = ns])
             IN  Kept(x, y) /\ y.has_sim_ = x.has_sim_
  <2> DEFINE t == IF ns.first # "" THEN ns.first ELSE ns.second
             y == [x EXCEPT !.network_name_ = ns]
             p == [y.pub EXCEPT !.NetworkName = t]
             z == [y EXCEPT !.pub = p]
  <2>1. t \in {"", "net", "op"} OBVIOUS
  <2>2. /\ Kept(x, y) /\ y.has_sim_ = x.has_sim_ /\ y.pub = x.pub
        /\ y.network_name_ = ns
    BY <1>0, CachedNameGood DEF Bridge
  <2>3. set_name(y) = z BY <2>2 DEF set_name
  <2> HIDE DEF t, y
  <2>4. /\ p \in Published
        /\ p.RegistrationStatus = y.pub.RegistrationStatus
        /\ p.MMSContext = y.pub.MMSContext
        /\ p.HomeMCC = y.pub.HomeMCC
        /\ p.StkIdleModeText = y.pub.StkIdleModeText
    BY <1>0, <2>1, <2>2 DEF Bridge, Published
  <2> HIDE DEF p
  <2>7. Good(y) BY <2>2, KeptLaws
  <2>5. Kept(y, z) /\ z.has_sim_ = y.has_sim_ BY <2>4, <2>7, PubGood, ZenonT(40)
  <2> HIDE DEF z
  <2>6. set_name([x EXCEPT !.network_name_ = ns]) = z BY <2>3 DEF y
  <2> QED BY <2>2, <2>5, <2>6, KeptLaws
<1>2. [x.network_name_ EXCEPT !.first = f] \in [first : {"", "net"}, second : {"", "op"}]
  BY <1>0 DEF Bridge
<1>3. [x.network_name_ EXCEPT !.second = g] \in [first : {"", "net"}, second : {"", "op"}]
  BY <1>0 DEF Bridge
<1>4. set_network_name(x, f)
        = set_name([x EXCEPT !.network_name_ = [x.network_name_ EXCEPT !.first = f]])
  BY DEF set_network_name
<1>5. set_operator_name(x, g)
        = set_name([x EXCEPT !.network_name_ = [x.network_name_ EXCEPT !.second = g]])
  BY DEF set_operator_name
<1> QED BY <1>1, <1>2, <1>3, <1>4, <1>5

\* So does publishing the network's status and technology, and whether
\* roaming is allowed; the SIM's home network may be published while its
\* proxy exists.
LEMMA NetPublishedGood ==
  ASSUME NEW x, Good(x)
  PROVE  /\ \A v \in NetStatuses :
              LET y == [x EXCEPT !.pub.Status = v]
              IN  Kept(x, y) /\ y.has_sim_ = x.has_sim_
         /\ LET y == [x EXCEPT !.pub.Technology = "lte"]
            IN  Kept(x, y) /\ y.has_sim_ = x.has_sim_
         /\ x.sim_ # None =>
              /\ Kept(x, sim_mcc(x))
              /\ sim_mcc(x).sim_ = x.sim_ /\ sim_mcc(x).network_ = x.network_
         /\ \A v \in {"0", "1"} :
              LET y == [x EXCEPT !.pub.DataRoamingAllowed = v] IN Kept(x, y)
<1>0. x \in Bridge BY DEF Good, Weak
<1>1. ASSUME NEW v \in NetStatuses
      PROVE  LET y == [x EXCEPT !.pub.Status = v]
             IN  Kept(x, y) /\ y.has_sim_ = x.has_sim_
  <2> DEFINE p == [x.pub EXCEPT !.Status = v]
  <2>1. /\ p \in Published
        /\ p.RegistrationStatus = x.pub.RegistrationStatus
        /\ p.MMSContext = x.pub.MMSContext
        /\ p.HomeMCC = x.pub.HomeMCC
        /\ p.StkIdleModeText = x.pub.StkIdleModeText
    BY <1>0 DEF Bridge, Published
  <2> QED BY <2>1, PubGood
<1>2. LET y == [x EXCEPT !.pub.Technology = "lte"]
      IN  Kept(x, y) /\ y.has_sim_ = x.has_sim_
  <2> DEFINE p == [x.pub EXCEPT !.Technology = "lte"]
  <2>1. /\ p \in Published
        /\ p.RegistrationStatus = x.pub.RegistrationStatus
        /\ p.MMSContext = x.pub.MMSContext
        /\ p.HomeMCC = x.pub.HomeMCC
        /\ p.StkIdleModeText = x.pub.StkIdleModeText
    BY <1>0 DEF Bridge, Published
  <2> QED BY <2>1, PubGood
<1>3. ASSUME x.sim_ # None
      PROVE  /\ Kept(x, sim_mcc(x))
             /\ sim_mcc(x).sim_ = x.sim_ /\ sim_mcc(x).network_ = x.network_
  <2> DEFINE p == [x.pub EXCEPT !.HomeMCC = "244"]
  <2>1. /\ p \in Published
        /\ p.RegistrationStatus = x.pub.RegistrationStatus
        /\ p.MMSContext = x.pub.MMSContext
        /\ p.StkIdleModeText = x.pub.StkIdleModeText
    BY <1>0 DEF Bridge, Published
  <2> QED BY <1>3, <2>1, PubGood DEF sim_mcc
<1>4. ASSUME NEW v \in {"0", "1"}
      PROVE  LET y == [x EXCEPT !.pub.DataRoamingAllowed = v] IN Kept(x, y)
  <2> DEFINE p == [x.pub EXCEPT !.DataRoamingAllowed = v]
  <2>1. /\ p \in Published
        /\ p.RegistrationStatus = x.pub.RegistrationStatus
        /\ p.MMSContext = x.pub.MMSContext
        /\ p.HomeMCC = x.pub.HomeMCC
        /\ p.StkIdleModeText = x.pub.StkIdleModeText
    BY <1>0 DEF Bridge, Published
  <2> QED BY <2>1, PubGood
<1> QED BY <1>1, <1>2, <1>3, <1>4

\* A value the network may report for the property n.
NetValue(n, v) == \/ n = "Name" /\ v \in {"", "net"}
                  \/ n = "Status" /\ v \in NetStatuses
                  \/ n = "Technology" /\ v = "lte"

\* The SIM toolkit never disturbs the invariant (646-681).
LEMMA SetupStkGood ==
  ASSUME NEW x, Good(x), NEW r
  PROVE  /\ x.stk_ # None => Kept(x, stk_update(x))
         /\ Kept(x, reset_stk(x))
         /\ LET y == setup_stk(x, r)
            IN  /\ Kept(x, y)
                /\ y.status_ = x.status_ /\ y.has_sim_ = x.has_sim_
<1> DEFINE Same(br, y) == y.status_ = br.status_ /\ y.has_sim_ = br.has_sim_
           text == x.pub.StkIdleModeText
           y == WithStk(x, "idle", text)
           z == stk_update(y)
           w == WithStk(z, "live", z.pub.StkIdleModeText)
<1>0. ASSUME NEW br, Good(br)
      PROVE  /\ br \in Bridge
             /\ br.pub.StkIdleModeText \in {"", "text"} /\ br.stk_ \in ProxyState
  BY <1>0 DEF Good, Weak, Bridge, Published
<1>1. None \in ProxyState /\ "idle" \in ProxyState /\ "live" \in ProxyState
      /\ "idle" # None /\ "live" # None
  BY DEF ProxyState, None
<1>2. ASSUME NEW br, Good(br), NEW p \in ProxyState, NEW t \in {"", "text"},
             p = None => t = ""
      PROVE  /\ Kept(br, WithStk(br, p, t)) /\ Same(br, WithStk(br, p, t))
             /\ WithStk(br, p, t).stk_ = p
  BY <1>2, StkProxyGood
<1>3. ASSUME NEW br, Good(br)
      PROVE  \/ stk_update(br) = WithStk(br, br.stk_, "text")
             \/ stk_update(br) = WithStk(br, None, "")
  BY <1>0, <1>3 DEF stk_update, WithStk, Bridge
<1>4. reset_stk(x) = WithStk(x, None, "") BY DEF reset_stk, WithStk
<1>5. [x EXCEPT !.stk_ = "idle"] = y BY <1>0 DEF WithStk, Bridge, Published
<1>6. ASSUME Good(z) PROVE [z EXCEPT !.stk_ = "live"] = w
  <2>1. z \in Bridge BY <1>0, <1>6
  <2> HIDE DEF z
  <2> QED BY <2>1 DEF WithStk, Bridge, Published
<1> HIDE DEF Same
<1>7. ASSUME NEW br, Good(br), br.stk_ # None
      PROVE  Kept(br, stk_update(br)) /\ Same(br, stk_update(br))
  <2>1. CASE stk_update(br) = WithStk(br, br.stk_, "text")
    BY <1>0, <1>2, <1>7, <2>1
  <2>2. CASE stk_update(br) = WithStk(br, None, "")
    BY <1>1, <1>2, <1>7, <2>2
  <2> QED BY <1>3, <1>7, <2>1, <2>2
<1>8. Kept(x, reset_stk(x)) BY <1>1, <1>2, <1>4
<1>9. Kept(x, y) /\ Same(x, y) /\ y.stk_ = "idle" BY <1>0, <1>1, <1>2
<1> HIDE DEF y
<1>10. Kept(y, z) /\ Same(y, z) BY <1>1, <1>7, <1>9, KeptLaws
<1>11. Good(z) BY <1>10, KeptLaws
<1> HIDE DEF z
<1>12. Kept(z, w) /\ Same(z, w) BY <1>0, <1>1, <1>2, <1>11
<1>13. setup_stk(x, r) \in {y, z, w}
  BY <1>5, <1>6, <1>11 DEF setup_stk, z
<1> HIDE DEF w
<1>14. Kept(x, setup_stk(x, r)) BY <1>9, <1>10, <1>12, <1>13, KeptLaws
<1>15. Same(x, setup_stk(x, r)) BY <1>9, <1>10, <1>12, <1>13 DEF Same
<1> QED BY <1>7, <1>8, <1>14, <1>15 DEF Same

----------------------------------------------------------------------------
(* What set_status calls, with the innermost set_status.                   *)

\* reset_network keeps the invariant (454-462), with the innermost
\* set_status: while there is a SIM the status it leaves is Offline.
LEMMA ResetNetwork0 ==
  ASSUME NEW x, Good(x)
  PROVE  LET y == reset_network_by(assign_status, x)
         IN  Kept(x, y) /\ (y.has_sim_ => x.has_sim_)
<1> DEFINE y == [x EXCEPT !.operator_ = FALSE, !.network_ = FALSE]
           z == assign_status(y, "Offline")
           no_sim == ~z.has_sim_
           w == resetProperties(z, no_sim)
<1>1. Kept(x, y) /\ y.has_sim_ = x.has_sim_ BY DropNetworkGood
<1> HIDE DEF y
<1>2. Good(y) /\ Weak(y) BY <1>1, KeptLaws DEF Good
<1>3. /\ Kept(y, z) /\ (z.has_sim_ => y.has_sim_ /\ z.status_ = "Offline")
      /\ z.status_ \in Lost
  BY <1>2, AssignGood DEF Status, Lost
<1>4. reset_network_by(assign_status, x) = w BY DEF reset_network_by, y, z
<1> HIDE DEF z
<1>5. Good(z) /\ z.modem_ = x.modem_ BY <1>1, <1>3, KeptLaws
<1>6. /\ no_sim \in BOOLEAN /\ (no_sim \/ z.status_ = "Offline")
      /\ z.status_ \in Lost
  BY <1>3
<1>7. /\ Good(w) /\ Owned(w) /\ Exact(w)
      /\ w.modem_ = z.modem_ /\ w.has_sim_ = z.has_sim_
  <2> HIDE DEF no_sim
  <2> QED BY <1>5, <1>6, ResetPropertiesGood
<1> HIDE DEF w
<1>8. Kept(x, w) BY <1>5, <1>7 DEF Kept, Follows
<1> QED BY <1>1, <1>3, <1>4, <1>7, <1>8

\* A property of the network keeps the invariant, SIM or not (615-622),
\* with the innermost set_status.
LEMMA NetUpdate0 ==
  ASSUME NEW x, Good(x), NEW n, NEW v, NetValue(n, v)
  PROVE  LET y == net_update_by(assign_status, x, n, v)
         IN  Kept(x, y) /\ (y.has_sim_ => x.has_sim_)
<1> DEFINE y == IF x.has_sim_ THEN x ELSE reset_network_by(assign_status, x)
           w == net_action(assign_status, y, n, v)
<1>1. Kept(x, y) /\ (y.has_sim_ => x.has_sim_) BY ResetNetwork0, KeptLaws
<1>2. net_update_by(assign_status, x, n, v) = w BY DEF net_update_by
<1> HIDE DEF y
<1>3. Good(y) BY <1>1, KeptLaws
<1>4. Kept(y, w) /\ (w.has_sim_ => y.has_sim_)
  <2>1. CASE n = "Name"
    <3>1. w = set_network_name(y, v) BY <2>1 DEF net_action
    <3> HIDE DEF w
    <3> QED BY <1>3, <2>1, <3>1, NamesGood DEF NetValue
  <2>2. CASE n = "Status"
    <3> DEFINE z == [y EXCEPT !.pub.Status = v]
               mapped == map_status(v)
    <3>1. Kept(y, z) /\ z.has_sim_ = y.has_sim_
      BY <1>3, <2>2, NetPublishedGood DEF NetValue
    <3>2. mapped \in Status BY MapStatusType
    <3>3. w = assign_status(z, mapped) BY <2>2 DEF net_action
    <3> HIDE DEF z, mapped, w
    <3>4. Good(z) /\ Weak(z) BY <3>1, KeptLaws DEF Good
    <3>5. Kept(z, w) /\ (w.has_sim_ => z.has_sim_)
      BY <3>2, <3>3, <3>4, AssignGood
    <3> QED BY <3>1, <3>5, KeptLaws
  <2>3. CASE n = "Technology"
    <3> DEFINE z == [y EXCEPT !.pub.Technology = "lte"]
    <3>1. w = z BY <2>3 DEF net_action, NetValue
    <3>2. Kept(y, z) /\ z.has_sim_ = y.has_sim_ BY <1>3, NetPublishedGood
    <3> HIDE DEF w, z
    <3> QED BY <3>1, <3>2
  <2> QED BY <2>1, <2>2, <2>3 DEF NetValue
<1> HIDE DEF w
<1> QED BY <1>1, <1>2, <1>4, KeptLaws

\* setup_network, the three properties it reads included (612-644), with
\* the innermost set_status.
LEMMA SetupNetwork0 ==
  ASSUME NEW x, Good(x), x.modem_ # None, NEW r \in Reply
  PROVE  LET y == setup_network_by(assign_status, x, r)
         IN  Kept(x, y) /\ (y.has_sim_ => x.has_sim_)
<1> DEFINE y == [x EXCEPT !.network_ = TRUE]
           u == net_update_by(assign_status, y, "Name", "net")
           status == r.net
           v == net_update_by(assign_status, u, "Status", status)
           w == net_update_by(assign_status, v, "Technology", "lte")
<1>1. Kept(x, y) /\ y.has_sim_ = x.has_sim_ BY NewNetworkGood
<1> HIDE DEF y
<1>2. CASE r.net = "error" BY <1>1, <1>2 DEF setup_network_by, y
<1>3. CASE r.net # "error"
  <2>1. r.net \in NetStatuses BY <1>3 DEF Reply
  <2>2. /\ NetValue("Name", "net") /\ NetValue("Status", status)
        /\ NetValue("Technology", "lte")
    BY <2>1 DEF NetValue
  <2>3. Kept(y, u) /\ (u.has_sim_ => y.has_sim_)
    BY <1>1, <2>2, NetUpdate0, KeptLaws
  <2> HIDE DEF u, status
  <2>4. Kept(u, v) /\ (v.has_sim_ => u.has_sim_)
    BY <2>2, <2>3, NetUpdate0, KeptLaws
  <2> HIDE DEF v
  <2>5. Kept(v, w) /\ (w.has_sim_ => v.has_sim_)
    BY <2>2, <2>4, NetUpdate0, KeptLaws
  <2> HIDE DEF w
  <2>6. setup_network_by(assign_status, x, r) = w
    BY <1>3 DEF setup_network_by, net_read_by, w, v, status, u, y
  <2> QED BY <1>1, <2>3, <2>4, <2>5, <2>6, KeptLaws
<1> QED BY <1>2, <1>3

\* has_sim_ = v.toBool(), before set_status follows (783).
LEMMA HasSimWeak ==
  ASSUME NEW x, Good(x), NEW inserted \in BOOLEAN
  PROVE  LET y == [x EXCEPT !.has_sim_ = inserted]
         IN  /\ Weak(y) /\ Follows(x, y) /\ (inserted => Good(y))
             /\ y.modem_ = x.modem_ /\ y.network_ = x.network_
<1> DEFINE y == [x EXCEPT !.has_sim_ = inserted]
<1>1. Weak(y) /\ y.modem_ = x.modem_ /\ y.network_ = x.network_
  BY DEF Good, Weak, HonestStatus, OwnersKept, Bridge
<1>2. inserted => NoSimKept(y) BY DEF Good, NoSimKept, Weak, Bridge
<1>3. Follows(x, y) BY DEF Good, Weak, Bridge, Follows, Exact, Owned
<1> QED BY <1>1, <1>2, <1>3 DEF Good

\* The property Present: the SIM comes or goes (782-790), with the
\* innermost set_status.
LEMMA SimPresent0 ==
  ASSUME NEW x, Good(x), NEW inserted \in BOOLEAN
  PROVE  LET y == sim_present_by(assign_status, x, inserted)
         IN  /\ Kept(x, y)
             /\ ~x.network_ => (y.has_sim_ => y.status_ = "Offline")
<1> DEFINE y == [x EXCEPT !.has_sim_ = inserted]
           s == IF inserted THEN "Offline" ELSE "NoSim"
           w == assign_status(y, s)
<1>1. /\ Weak(y) /\ Follows(x, y) /\ (inserted => Good(y))
      /\ y.modem_ = x.modem_ /\ y.network_ = x.network_
  BY HasSimWeak
<1>2. ~inserted => ~y.has_sim_ BY DEF Good, Weak, Bridge
<1> HIDE DEF y
<1>3. CASE inserted /\ x.network_
  <2>1. sim_present_by(assign_status, x, inserted) = y
    BY <1>3 DEF sim_present_by, y
  <2> QED BY <1>1, <1>3, <2>1 DEF Kept
<1>4. CASE ~(inserted /\ x.network_)
  <2>1. sim_present_by(assign_status, x, inserted) = w
    BY <1>4 DEF sim_present_by, y
  <2>2. s \in Status /\ (inserted => s = "Offline") /\ (~inserted => s = "NoSim")
    BY DEF Status
  <2> HIDE DEF s
  <2>3. Kept(y, w) /\ (w.has_sim_ => y.has_sim_ /\ w.status_ = s)
    BY <1>1, <2>2, AssignGood
  <2> HIDE DEF w
  <2>4. Kept(x, w) BY <1>1, <2>3 DEF Kept, Follows
  <2> QED BY <1>2, <2>1, <2>2, <2>3, <2>4
<1> QED BY <1>3, <1>4

\* setup_sim keeps the invariant (777-816), with the innermost set_status.
LEMMA SetupSim0 ==
  ASSUME NEW x, Good(x), x.modem_ # None, NEW r \in Reply
  PROVE  LET y == setup_sim_by(assign_status, x, r)
         IN  /\ Kept(x, y)
             /\ ~x.network_ /\ ~x.has_sim_
                  => (y.has_sim_ => y.status_ = "Offline")
<1> DEFINE y == [x EXCEPT !.sim_ = "idle"]
           m == sim_mcc(y)
           z == IF r.sim = "present"
                THEN sim_present_by(assign_status, m, TRUE)
                ELSE sim_present_by(assign_status, y, FALSE)
           c == [z EXCEPT !.sim_ = "live"]
           t == setup_stk(c, r)
           Offline(br) == ~x.network_ => (br.has_sim_ => br.status_ = "Offline")
<1>1. /\ Kept(x, y) /\ y.sim_ = "idle"
      /\ y.network_ = x.network_ /\ y.has_sim_ = x.has_sim_
  BY SimProxyGood
<1> HIDE DEF y
<1>2. Good(y) /\ y.modem_ # None BY <1>1, KeptLaws
<1>3. Kept(y, m) /\ m.network_ = x.network_
  BY <1>1, <1>2, NetPublishedGood DEF None
<1> HIDE DEF m
<1>4. Kept(y, z) /\ Offline(z)
  <2>1. CASE r.sim = "present"
    <3>1. Kept(m, z) /\ Offline(z) BY <1>3, <2>1, SimPresent0, KeptLaws
    <3> HIDE DEF z
    <3> QED BY <1>3, <3>1, KeptLaws
  <2>2. CASE r.sim # "present" BY <1>1, <1>2, <2>2, SimPresent0
  <2> QED BY <2>1, <2>2
<1>5. \/ setup_sim_by(assign_status, x, r) = y
      \/ setup_sim_by(assign_status, x, r) = c
      \/ setup_sim_by(assign_status, x, r) = t
  <2>1. CASE r.sim = "error" BY <2>1 DEF setup_sim_by, y
  <2>2. CASE r.sim # "error" /\ "SimToolkit" \in z.interfaces_
    BY <2>2 DEF setup_sim_by, t, c, z, m, y
  <2>3. CASE r.sim # "error" /\ "SimToolkit" \notin z.interfaces_
    BY <2>3 DEF setup_sim_by, c, z, m, y
  <2> QED BY <2>1, <2>2, <2>3
<1> HIDE DEF z
<1>6. Good(z) /\ z.modem_ # None BY <1>2, <1>4, KeptLaws
<1>7. Kept(z, c) /\ Offline(c) BY <1>4, <1>6, SimProxyGood
<1> HIDE DEF c
<1>8. Kept(c, t) /\ Offline(t) BY <1>7, SetupStkGood, KeptLaws
<1> HIDE DEF t
<1>9. Kept(x, y) /\ Kept(x, c) /\ Kept(x, t) BY <1>1, <1>4, <1>7, <1>8, KeptLaws
<1> QED BY <1>1, <1>5, <1>7, <1>8, <1>9

\* A property of the current operator (555-562), with the innermost
\* set_status.
LEMMA OperatorUpdate0 ==
  ASSUME NEW x, Good(x)
  PROVE  Kept(x, operator_update_by(assign_status, x))
<1> DEFINE y == IF x.sim_ = None THEN reset_network_by(assign_status, x) ELSE x
           w == set_operator_name(y, "op")
<1>1. Kept(x, y) BY ResetNetwork0, KeptLaws
<1>2. operator_update_by(assign_status, x) = w BY DEF operator_update_by
<1> HIDE DEF y
<1>3. Kept(y, w) BY <1>1, NamesGood, KeptLaws
<1> HIDE DEF w
<1> QED BY <1>1, <1>2, <1>3, KeptLaws

\* enumerate_operators, called with a SIM and a network (762-775).
LEMMA EnumerateOperators0 ==
  ASSUME NEW x, Good(x), x.sim_ # None, NEW r \in Reply
  PROVE  Kept(x, enumerate_operators(x, r))
<1> DEFINE y == [x EXCEPT !.operator_ = TRUE]
           w == operator_update_by(assign_status, y)
<1>1. CASE x.network_ /\ r.ops = "current"
  <2>1. Kept(x, y) BY <1>1, NewOperatorGood
  <2>2. enumerate_operators(x, r) = w BY <1>1 DEF enumerate_operators
  <2> HIDE DEF y
  <2>3. Kept(y, w) BY <2>1, OperatorUpdate0, KeptLaws
  <2> HIDE DEF w
  <2> QED BY <2>1, <2>2, <2>3, KeptLaws
<1>2. CASE ~(x.network_ /\ r.ops = "current")
  BY <1>2, KeptLaws DEF enumerate_operators
<1> QED BY <1>1, <1>2

\* The whole set_status keeps the invariant, or restores it when called
\* with NoSim, although it may set up the SIM or the network; called with
\* Offline, as reset_network does, it leaves that status or no SIM (375-419).
LEMMA SetStatusGood ==
  ASSUME NEW x, NEW s \in Status, Weak(x), Good(x) \/ s = "NoSim", NEW r \in Reply
  PROVE  LET z == set_status(x, s, r)
         IN  /\ Kept(x, z)
             /\ s = "Offline" /\ ~x.network_
                  => (z.has_sim_ => z.status_ = "Offline")
<1> DEFINE y == assign_status(x, s)
           Offline(br) == s = "Offline" /\ ~x.network_
                           => (br.has_sim_ => br.status_ = "Offline")
<1>1. /\ Kept(x, y) /\ y.network_ = x.network_
      /\ y.has_sim_ => x.has_sim_ /\ y.status_ = s
  BY AssignGood
<1> HIDE DEF y
<1>2. Good(y) BY <1>1, KeptLaws
<1>3. CASE ~BecameRegistered(x, y) \/ y.modem_ = None
  BY <1>1, <1>3 DEF set_status, y
<1>4. CASE BecameRegistered(x, y) /\ y.modem_ # None
  <2>0. s = "Offline" => ~y.has_sim_
    BY <1>1, <1>4 DEF BecameRegistered, status_registered_, StatusOrder
  <2>1. CASE y.sim_ = None
    <3> DEFINE z == setup_sim_by(assign_status, y, r)
    <3>1. set_status(x, s, r) = z BY <1>4, <2>1 DEF set_status, y
    <3>2. Kept(y, z) /\ Offline(z) BY <1>1, <1>2, <1>4, <2>0, SetupSim0
    <3> HIDE DEF z
    <3> QED BY <1>1, <3>1, <3>2, KeptLaws
  <2>2. CASE y.sim_ # None /\ ~y.network_
    <3> DEFINE z == setup_network_by(assign_status, y, r)
    <3>1. set_status(x, s, r) = z BY <1>4, <2>2 DEF set_status, y
    <3>2. Kept(y, z) /\ Offline(z) BY <1>2, <1>4, <2>0, SetupNetwork0
    <3> HIDE DEF z
    <3> QED BY <1>1, <3>1, <3>2, KeptLaws
  <2>3. CASE y.sim_ # None /\ y.network_
    <3> DEFINE z == enumerate_operators(y, r)
    <3>1. set_status(x, s, r) = z BY <1>4, <2>3 DEF set_status, y
    <3>2. Kept(y, z) BY <1>2, <2>3, EnumerateOperators0
    <3> HIDE DEF z
    <3> QED BY <1>1, <2>3, <3>1, <3>2, KeptLaws
  <2> QED BY <2>1, <2>2, <2>3
<1> QED BY <1>3, <1>4

----------------------------------------------------------------------------
(* What the functions do to the proxies and to the status, beyond what they *)
(* keep: what a daemon's signals find when they are handled depends on it.  *)

\* the objects that only the modem's and the manager's handlers change
Framed(x, y) ==
  /\ y.manager_ = x.manager_ /\ y.modem_ = x.modem_
  /\ y.interfaces_ = x.interfaces_
  /\ y.connectionManager_ = x.connectionManager_
  /\ y.connectionContexts_ = x.connectionContexts_

\* the SIM, the network and its status
SameRadio(x, y) ==
  /\ y.sim_ = x.sim_ /\ y.network_ = x.network_
  /\ y.has_sim_ = x.has_sim_ /\ y.status_ = x.status_

Alike(x, y) == Framed(x, y) /\ SameRadio(x, y)

\* nothing is known yet, not even that there is no SIM
Blank(x) == ~x.has_sim_ /\ x.status_ = "Unknown"

\* the status is one of a network
Registered(x) == x.status_ \in {"Registered", "Denied", "Roaming"}

\* Functions that do nothing of this, one after another, do nothing of it.
LEMMA AlikeLaws ==
  /\ \A x : Framed(x, x) /\ Alike(x, x)
  /\ \A x, y, z : Framed(x, y) /\ Framed(y, z) => Framed(x, z)
  /\ \A x, y, z : Alike(x, y) /\ Alike(y, z) => Alike(x, z)
BY DEF Alike, Framed, SameRadio

\* A registered status has the word of a network, and no other has.
LEMMA RegisteredWord ==
  ASSUME NEW x, x.status_ \in Status
  PROVE  Registered(x) <=> ckit_status_[x.status_] \in Known
BY DEF Registered, ckit_status_, Known, Status

\* A status that oFono reports is never NoSim (369-373).
LEMMA MapStatusSim == \A v : map_status(v) \in Status /\ map_status(v) # "NoSim"
BY DEF map_status, status_map_, Status

\* What is published, and the operator's proxy, are none of this.
LEMMA PublishedAlike ==
  ASSUME NEW x \in Bridge
  PROVE  /\ \A p : Alike(x, [x EXCEPT !.pub = p])
         /\ \A v : Alike(x, [x EXCEPT !.pub.Status = v])
         /\ \A v : Alike(x, [x EXCEPT !.pub.Technology = v])
         /\ Alike(x, [x EXCEPT !.operator_ = TRUE])
         /\ Alike(x, sim_mcc(x))
         /\ \A c : Alike(x, resetProperties(x, c))
BY DEF Bridge, Alike, Framed, SameRadio, sim_mcc, resetProperties

\* Nor are the names of the network and of the operator.
LEMMA NamesAlike ==
  ASSUME NEW x \in Bridge, NEW n
  PROVE  Alike(x, set_network_name(x, n)) /\ Alike(x, set_operator_name(x, n))
<1>1. \A ns : Alike(x, set_name([x EXCEPT !.network_name_ = ns]))
  BY DEF Bridge, Alike, Framed, SameRadio, set_name
<1>2. \E ns : set_network_name(x, n) = set_name([x EXCEPT !.network_name_ = ns])
  BY DEF set_network_name
<1>3. \E ns : set_operator_name(x, n) = set_name([x EXCEPT !.network_name_ = ns])
  BY DEF set_operator_name
<1> QED BY <1>1, <1>2, <1>3

\* Nor is the SIM toolkit.
LEMMA StkAlike ==
  ASSUME NEW x \in Bridge, NEW r
  PROVE  Alike(x, setup_stk(x, r)) /\ Alike(x, reset_stk(x))
<1>1. ASSUME NEW y, NEW p, NEW t, y \in Bridge
      PROVE  Alike(y, [y EXCEPT !.stk_ = p, !.pub.StkIdleModeText = t])
  BY <1>1 DEF Bridge, Alike, Framed, SameRadio
<1>2. Alike(x, reset_stk(x)) BY DEF Bridge, Alike, Framed, SameRadio, reset_stk
<1>3. ASSUME NEW p, NEW q1, NEW t
      PROVE  /\ Alike(x, [x EXCEPT !.stk_ = p])
             /\ Alike(x, [[x EXCEPT !.stk_ = p] EXCEPT !.pub.StkIdleModeText = t])
             /\ Alike(x, [[x EXCEPT !.stk_ = p] EXCEPT !.stk_ = None, !.pub.StkIdleModeText = t])
             /\ Alike(x, [[[x EXCEPT !.stk_ = p] EXCEPT !.pub.StkIdleModeText = t] EXCEPT !.stk_ = q1])
             /\ Alike(x, [[[x EXCEPT !.stk_ = p] EXCEPT !.stk_ = None, !.pub.StkIdleModeText = t] EXCEPT !.stk_ = q1])
  BY DEF Bridge, Alike, Framed, SameRadio
<1>4. Alike(x, setup_stk(x, r)) BY <1>3 DEF setup_stk, stk_update
<1> QED BY <1>2, <1>4

\* set_status up to 402, exactly.
LEMMA AssignEffect ==
  ASSUME NEW x \in Bridge, NEW s
  PROVE  LET y == assign_status(x, s)
         IN  /\ Framed(x, y) /\ y.sim_ = x.sim_ /\ y.network_ = x.network_
             /\ x.has_sim_ => y.status_ = s
             /\ ~x.has_sim_ => y.status_ = IF s = x.status_ THEN s ELSE "NoSim"
             /\ y.has_sim_ <=> x.has_sim_ /\ (s # "NoSim" \/ x.status_ = "NoSim")
<1> DEFINE new == IF x.has_sim_ THEN s ELSE "NoSim"
           y == [x EXCEPT !.status_ = new,
                          !.has_sim_ = IF new = "NoSim" THEN FALSE ELSE x.has_sim_,
                          !.pub.RegistrationStatus = ckit_status_[new]]
<1>1. /\ Framed(x, y) /\ y.sim_ = x.sim_ /\ y.network_ = x.network_
      /\ y.status_ = new
      /\ y.has_sim_ = IF new = "NoSim" THEN FALSE ELSE x.has_sim_
  BY DEF Bridge, Framed
<1>2. assign_status(x, s) = IF s = x.status_ \/ new = x.status_ THEN x ELSE y
  BY DEF assign_status
<1> HIDE DEF y
<1> DEFINE z == assign_status(x, s)
<1>3. CASE s = x.status_ \/ new = x.status_
  <2>1. z = x /\ Framed(x, x) BY <1>2, <1>3, AlikeLaws
  <2> HIDE DEF z
  <2> QED BY <1>3, <2>1 DEF z
<1>4. CASE ~(s = x.status_ \/ new = x.status_)
  <2>1. z = y BY <1>2, <1>4
  <2> HIDE DEF z
  <2>2. CASE x.has_sim_
    <3>1. new = s BY <2>2
    <3> QED BY <1>1, <1>4, <2>1, <2>2, <3>1 DEF z
  <2>3. CASE ~x.has_sim_ BY <1>1, <1>4, <2>1, <2>3 DEF z
  <2> QED BY <2>2, <2>3
<1> QED BY <1>3, <1>4

----------------------------------------------------------------------------
(* The functions with the innermost set_status.                            *)

\* Without its proxies a bridge has the same objects but for the network.
LEMMA DropNetworkEffect ==
  ASSUME NEW x \in Bridge
  PROVE  LET y == [x EXCEPT !.operator_ = FALSE, !.network_ = FALSE]
         IN  /\ y \in Bridge /\ Framed(x, y) /\ ~y.network_ /\ y.sim_ = x.sim_
             /\ y.has_sim_ = x.has_sim_ /\ y.status_ = x.status_
BY DEF Bridge, Framed

\* A reset of the network loses the status and nothing else.
LEMMA ResetNetworkEffect0 ==
  ASSUME NEW x, Good(x)
  PROVE  LET y == reset_network_by(assign_status, x)
         IN  /\ Framed(x, y) /\ y.sim_ = x.sim_ /\ ~y.network_
             /\ y.has_sim_ = x.has_sim_
             /\ y.status_ = IF x.has_sim_ THEN "Offline" ELSE "NoSim"
<1> DEFINE y == [x EXCEPT !.operator_ = FALSE, !.network_ = FALSE]
           z == assign_status(y, "Offline")
           no_sim == ~z.has_sim_
           w == resetProperties(z, no_sim)
<1>0. x \in Bridge /\ (~x.has_sim_ => x.status_ # "Offline")
  BY DEF Good, Weak, NoSimKept
<1>1. /\ y \in Bridge /\ Framed(x, y) /\ ~y.network_ /\ y.sim_ = x.sim_
      /\ y.has_sim_ = x.has_sim_ /\ y.status_ = x.status_
  BY <1>0, DropNetworkEffect
<1>2. Kept(x, y) BY DropNetworkGood
<1> HIDE DEF y
<1>3. Good(y) /\ Weak(y) BY <1>2, KeptLaws DEF Good
<1>4. Kept(y, z) BY <1>3, AssignGood DEF Status
<1>5. /\ Framed(y, z) /\ z.sim_ = y.sim_ /\ z.network_ = y.network_
      /\ z.has_sim_ = y.has_sim_
      /\ z.status_ = IF x.has_sim_ THEN "Offline" ELSE "NoSim"
  <2>1. z.has_sim_ \in BOOLEAN /\ y.has_sim_ \in BOOLEAN
    BY <1>3, <1>4, KeptLaws DEF Good, Weak, Bridge
  <2> QED BY <1>0, <1>1, <2>1, AssignEffect
<1> HIDE DEF z
<1>6. z \in Bridge BY <1>4, KeptLaws DEF Good, Weak
<1>7. Alike(z, w) BY <1>6, PublishedAlike
<1>8. reset_network_by(assign_status, x) = w
  BY DEF reset_network_by, w, no_sim, z, y
<1> HIDE DEF w
<1> QED BY <1>1, <1>5, <1>7, <1>8, AlikeLaws DEF Alike, SameRadio

\* net_action of set_status(x, s), for any set_status, is what it is of the
\* innermost one but for the property Status.
LEMMA NetUpdateEffect0 ==
  ASSUME NEW x, Good(x), NEW n, NEW v, NetValue(n, v)
  PROVE  LET y == net_update_by(assign_status, x, n, v)
         IN  /\ Framed(x, y) /\ y.sim_ = x.sim_ /\ y.has_sim_ = x.has_sim_
             /\ x.has_sim_ => /\ y.network_ = x.network_
                              /\ n # "Status" => y.status_ = x.status_
                              /\ n = "Status" => y.status_ = map_status(v)
             /\ ~x.has_sim_ => ~y.network_ /\ y.status_ = "NoSim"
<1> DEFINE y == IF x.has_sim_ THEN x ELSE reset_network_by(assign_status, x)
           w == net_action(assign_status, y, n, v)
<1>1. /\ Framed(x, y) /\ y.sim_ = x.sim_ /\ y.has_sim_ = x.has_sim_
      /\ x.has_sim_ => y.network_ = x.network_ /\ y.status_ = x.status_
      /\ ~x.has_sim_ => ~y.network_ /\ y.status_ = "NoSim"
  <2>1. CASE x.has_sim_ BY <2>1, AlikeLaws
  <2>2. CASE ~x.has_sim_ BY <2>2, ResetNetworkEffect0
  <2> QED BY <2>1, <2>2
<1>2. net_update_by(assign_status, x, n, v) = w BY DEF net_update_by
<1>3. Good(y) /\ y \in Bridge /\ y.has_sim_ \in BOOLEAN
  <2>1. Good(y) BY ResetNetwork0, KeptLaws
  <2> HIDE DEF y
  <2> QED BY <2>1 DEF Good, Weak, Bridge
<1> HIDE DEF y
<1>4. /\ Framed(y, w) /\ w.sim_ = y.sim_ /\ w.has_sim_ = y.has_sim_
      /\ w.network_ = y.network_
      /\ y.has_sim_ => /\ n # "Status" => w.status_ = y.status_
                       /\ n = "Status" => w.status_ = map_status(v)
      /\ ~y.has_sim_ /\ y.status_ = "NoSim" => w.status_ = "NoSim"
  <2>1. CASE n = "Name"
    <3>1. w = set_network_name(y, v) BY <2>1 DEF net_action
    <3> HIDE DEF w
    <3> QED BY <1>3, <2>1, <3>1, NamesAlike DEF Alike, SameRadio
  <2>2. CASE n = "Status"
    <3> DEFINE z == [y EXCEPT !.pub.Status = v]
               mapped == map_status(v)
    <3>1. Alike(y, z) /\ z \in Bridge
      BY <1>3, <2>2, PublishedAlike DEF Bridge, Published, NetValue
    <3>2. mapped \in Status /\ mapped # "NoSim" BY MapStatusSim
    <3>3. w = assign_status(z, mapped) BY <2>2 DEF net_action
    <3> HIDE DEF z, w, mapped
    <3>4. /\ Framed(z, w) /\ w.sim_ = z.sim_ /\ w.network_ = z.network_
          /\ z.has_sim_ => w.status_ = mapped
          /\ ~z.has_sim_ /\ z.status_ = "NoSim" => w.status_ = "NoSim"
          /\ w.has_sim_ <=> z.has_sim_
      BY <3>1, <3>2, <3>3, AssignEffect
    <3>5. w.has_sim_ = z.has_sim_ 
      <4>2. Kept(y, z) /\ z.has_sim_ = y.has_sim_
        BY <1>3, <2>2, NetPublishedGood DEF NetValue, z
      <4>3. Kept(z, w) 
        BY <3>2, <3>3, <4>2, KeptLaws, AssignGood DEF Good
      <4>4. Good(w) /\ Good(z) BY <4>2, <4>3, KeptLaws
      <4>5. w.has_sim_ \in BOOLEAN /\ z.has_sim_ \in BOOLEAN
        BY <4>4 DEF Good, Weak, Bridge
      <4> QED BY <3>4, <4>5
    <3> QED BY <2>2, <3>1, <3>4, <3>5, AlikeLaws DEF Alike, SameRadio, mapped
  <2>3. CASE n = "Technology"
    <3>1. w = [y EXCEPT !.pub.Technology = v] BY <2>3 DEF net_action
    <3> HIDE DEF w
    <3> QED BY <1>3, <2>3, <3>1, PublishedAlike DEF Alike, SameRadio
  <2> QED BY <2>1, <2>2, <2>3 DEF NetValue
<1> HIDE DEF w
<1> QED BY <1>1, <1>2, <1>3, <1>4, AlikeLaws

\* setup_network, when set_status has just found no SIM or there is one.
LEMMA SetupNetworkEffect0 ==
  ASSUME NEW x, Good(x), x.modem_ # None, NEW r \in Reply,
         x.has_sim_ \/ x.status_ = "NoSim"
  PROVE  LET y == setup_network_by(assign_status, x, r)
         IN  /\ Framed(x, y) /\ y.sim_ = x.sim_ /\ y.has_sim_ = x.has_sim_
             /\ r.net = "error" => y.network_ /\ y.status_ = x.status_
             /\ r.net # "error" /\ x.has_sim_
                  => y.network_ /\ y.status_ = map_status(r.net)
             /\ r.net # "error" /\ ~x.has_sim_
                  => ~y.network_ /\ y.status_ = "NoSim"
<1> DEFINE y == [x EXCEPT !.network_ = TRUE]
           u == net_update_by(assign_status, y, "Name", "net")
           status == r.net
           v == net_update_by(assign_status, u, "Status", status)
           w == net_update_by(assign_status, v, "Technology", "lte")
<1>1. Kept(x, y) BY NewNetworkGood
<1>2. /\ Framed(x, y) /\ y.network_ /\ y.sim_ = x.sim_
      /\ y.has_sim_ = x.has_sim_ /\ y.status_ = x.status_
  BY DEF Good, Weak, Bridge, Framed
<1> HIDE DEF y
<1>3. CASE r.net = "error"
  <2>1. setup_network_by(assign_status, x, r) = y
    BY <1>3 DEF setup_network_by, y
  <2> QED BY <1>2, <1>3, <2>1
<1>4. CASE r.net # "error"
  <2>1. r.net \in NetStatuses BY <1>4 DEF Reply
  <2>2. /\ NetValue("Name", "net") /\ NetValue("Status", status)
        /\ NetValue("Technology", "lte")
    BY <2>1 DEF NetValue
  <2>3. Kept(y, u) BY <1>1, <2>2, NetUpdate0, KeptLaws
  <2>4. /\ Framed(y, u) /\ u.sim_ = y.sim_ /\ u.has_sim_ = y.has_sim_
        /\ y.has_sim_ => u.network_ = y.network_
        /\ ~y.has_sim_ => ~u.network_ /\ u.status_ = "NoSim"
    BY <1>1, <2>2, NetUpdateEffect0, KeptLaws
  <2> HIDE DEF u, status
  <2>5. Kept(u, v) BY <2>2, <2>3, NetUpdate0, KeptLaws
  <2>6. /\ Framed(u, v) /\ v.sim_ = u.sim_ /\ v.has_sim_ = u.has_sim_
        /\ u.has_sim_ => v.network_ = u.network_ /\ v.status_ = map_status(status)
        /\ ~u.has_sim_ => ~v.network_ /\ v.status_ = "NoSim"
    BY <2>2, <2>3, NetUpdateEffect0, KeptLaws
  <2> HIDE DEF v
  <2>7. /\ Framed(v, w) /\ w.sim_ = v.sim_ /\ w.has_sim_ = v.has_sim_
        /\ v.has_sim_ => w.network_ = v.network_ /\ w.status_ = v.status_
        /\ ~v.has_sim_ => ~w.network_ /\ w.status_ = "NoSim"
    BY <2>2, <2>5, NetUpdateEffect0, KeptLaws
  <2> HIDE DEF w
  <2>8. setup_network_by(assign_status, x, r) = w
    BY <1>4 DEF setup_network_by, net_read_by, w, v, status, u, y
  <2>9. Framed(x, w) BY <1>2, <2>4, <2>6, <2>7, AlikeLaws
  <2> QED BY <1>2, <1>4, <2>4, <2>6, <2>7, <2>8, <2>9 DEF status
<1> QED BY <1>3, <1>4

\* The property Present, with the innermost set_status.
LEMMA SimPresentEffect0 ==
  ASSUME NEW x, Good(x), NEW inserted \in BOOLEAN
  PROVE  LET y == sim_present_by(assign_status, x, inserted)
         IN  /\ Framed(x, y) /\ y.sim_ = x.sim_ /\ y.network_ = x.network_
             /\ y.has_sim_ = inserted
             /\ inserted /\ x.network_ => y.status_ = x.status_
             /\ inserted /\ ~x.network_ => y.status_ = "Offline"
             /\ ~inserted => y.status_ = "NoSim"
<1> DEFINE y == [x EXCEPT !.has_sim_ = inserted]
           w == sim_present_by(assign_status, x, inserted)
<1>1. /\ y \in Bridge /\ Framed(x, y) /\ y.sim_ = x.sim_
      /\ y.network_ = x.network_
      /\ y.has_sim_ = inserted /\ y.status_ = x.status_
  BY DEF Good, Weak, Bridge, Framed
<1>2. /\ inserted /\ x.network_ => w = y
      /\ inserted /\ ~x.network_ => w = assign_status(y, "Offline")
      /\ ~inserted => w = assign_status(y, "NoSim")
  BY DEF sim_present_by
<1>3. Kept(x, w) BY SimPresent0
<1> HIDE DEF y, w
<1>4. w.has_sim_ \in BOOLEAN BY <1>3 DEF Kept, Good, Weak, Bridge
<1>5. CASE inserted /\ x.network_ BY <1>1, <1>2, <1>5 DEF w
<1>6. CASE inserted /\ ~x.network_
  <2>1. w = assign_status(y, "Offline") /\ y.has_sim_ BY <1>1, <1>2, <1>6
  <2>2. /\ Framed(y, w) /\ w.sim_ = y.sim_ /\ w.network_ = y.network_
        /\ w.status_ = "Offline" /\ w.has_sim_
    BY <1>1, <2>1, AssignEffect
  <2>3. w.has_sim_ = inserted BY <1>4, <1>6, <2>2
  <2> QED BY <1>1, <1>6, <2>2, <2>3, AlikeLaws DEF w
<1>7. CASE ~inserted
  BY <1>1, <1>2, <1>4, <1>7, AssignEffect, AlikeLaws DEF w
<1> QED BY <1>5, <1>6, <1>7

\* setup_sim, with the innermost set_status.
LEMMA SetupSimEffect0 ==
  ASSUME NEW x, Good(x), x.modem_ # None, NEW r \in Reply
  PROVE  LET y == setup_sim_by(assign_status, x, r)
         IN  /\ Framed(x, y) /\ y.network_ = x.network_
             /\ r.sim = "error" => /\ y.sim_ = "idle" /\ y.has_sim_ = x.has_sim_
                                   /\ y.status_ = x.status_
             /\ r.sim # "error" =>
                  /\ y.sim_ = "live" /\ y.has_sim_ = (r.sim = "present")
                  /\ r.sim = "present" /\ x.network_ => y.status_ = x.status_
                  /\ r.sim = "present" /\ ~x.network_ => y.status_ = "Offline"
                  /\ r.sim # "present" => y.status_ = "NoSim"
<1> DEFINE y == [x EXCEPT !.sim_ = "idle"]
           m == sim_mcc(y)
           z == IF r.sim = "present"
                THEN sim_present_by(assign_status, m, TRUE)
                ELSE sim_present_by(assign_status, y, FALSE)
           c == [z EXCEPT !.sim_ = "live"]
           t == setup_stk(c, r)
           w == setup_sim_by(assign_status, x, r)
<1>1. /\ Kept(x, y) /\ Framed(x, y) /\ y.sim_ = "idle"
      /\ y.network_ = x.network_ /\ y.has_sim_ = x.has_sim_
      /\ y.status_ = x.status_
  BY SimProxyGood DEF Good, Weak, Bridge, Framed
<1>2. CASE r.sim = "error"
  <2>1. w = y BY <1>2 DEF setup_sim_by
  <2> QED BY <1>1, <1>2, <2>1
<1>3. CASE r.sim # "error"
  <2>0. w \in {c, t} BY <1>3 DEF setup_sim_by
  <2> HIDE DEF y, w
  <2>1. Good(y) /\ y \in Bridge /\ y.sim_ # None
    BY <1>1, KeptLaws DEF Good, Weak, None
  <2>2. Good(m) BY <2>1, NetPublishedGood, KeptLaws
  <2>3. Alike(y, m) BY <2>1, PublishedAlike
  <2> HIDE DEF m
  <2>4. /\ Kept(m, z) \/ Kept(y, z)
        /\ Framed(y, z) /\ z.sim_ = "idle" /\ z.network_ = y.network_
        /\ z.has_sim_ = (r.sim = "present")
        /\ r.sim = "present" /\ x.network_ => z.status_ = x.status_
        /\ r.sim = "present" /\ ~x.network_ => z.status_ = "Offline"
        /\ r.sim # "present" => z.status_ = "NoSim"
    <3>1. CASE r.sim = "present"
      <4>1. z = sim_present_by(assign_status, m, TRUE) BY <3>1
      <4> HIDE DEF z
      <4> QED BY <1>1, <2>2, <2>3, <3>1, <4>1, SimPresent0,
                 SimPresentEffect0, AlikeLaws DEF Alike, SameRadio
    <3>2. CASE r.sim # "present"
      <4>1. z = sim_present_by(assign_status, y, FALSE) BY <3>2
      <4> HIDE DEF z
      <4> QED BY <1>1, <2>1, <3>2, <4>1, SimPresent0, SimPresentEffect0
    <3> QED BY <3>1, <3>2
  <2> HIDE DEF z
  <2>5. Good(z) /\ z \in Bridge BY <2>4, KeptLaws DEF Good, Weak
  <2>6. /\ c \in Bridge /\ Framed(z, c) /\ c.sim_ = "live"
        /\ c.network_ = z.network_ /\ c.has_sim_ = z.has_sim_
        /\ c.status_ = z.status_
    BY <2>5 DEF Bridge, Framed, ProxyState
  <2> HIDE DEF c
  <2>7. Alike(c, t) BY <2>6, StkAlike
  <2> HIDE DEF t
  <2>8. Alike(c, w) BY <2>0, <2>7, AlikeLaws
  <2> QED BY <1>1, <1>3, <2>4, <2>6, <2>8, AlikeLaws
             DEF Alike, SameRadio, w
<1> QED BY <1>2, <1>3

\* Reading the operators changes nothing of this while there is a SIM's proxy.
LEMMA EnumerateEffect ==
  ASSUME NEW x, Good(x), x.sim_ # None, NEW r
  PROVE  Alike(x, enumerate_operators(x, r))
<1> DEFINE y == [x EXCEPT !.operator_ = TRUE]
           w == set_operator_name(y, "op")
<1>1. Alike(x, y) /\ y.sim_ = x.sim_ /\ y \in Bridge
  BY PublishedAlike DEF Good, Weak, Bridge
<1>2. enumerate_operators(x, r) \in {x, w}
  BY <1>1 DEF enumerate_operators, operator_update_by
<1> HIDE DEF y
<1>3. Alike(y, w) BY <1>1, NamesAlike
<1> HIDE DEF w
<1> QED BY <1>1, <1>2, <1>3, AlikeLaws

----------------------------------------------------------------------------
(* The whole set_status, and the functions that call it.                   *)

\* What a call of set_status(s) on x with the answers r may leave behind.
StatusSet(x, s, r, z) ==
  /\ Framed(x, z)
  /\ x.sim_ # None => z.sim_ = x.sim_
  /\ x.sim_ = None => z.network_ = x.network_
  /\ x.network_ => z.network_
  /\ s \in Lost => /\ z.status_ \in Lost
                   /\ z.network_ => x.network_ \/ r.net = "error"
  /\ Blank(z) => Blank(x)
  /\ x.has_sim_ /\ s # "NoSim" /\ x.network_ /\ x.sim_ # None
       => z.has_sim_ /\ z.status_ = s
  /\ ~x.has_sim_ /\ x.sim_ # None => ~z.has_sim_
  /\ ~x.has_sim_ /\ x.status_ = "NoSim" => Alike(x, z)
  /\ x.has_sim_ /\ s = "Offline" => /\ z.has_sim_ /\ z.status_ = "Offline"
                                    /\ z.sim_ = x.sim_ /\ z.network_ = x.network_

\* A status becomes one of status_registered_ when it becomes NoSim or Denied.
LEMMA BecomesRegistered ==
  ASSUME NEW x, NEW y
  PROVE  BecameRegistered(x, y) <=> /\ y.status_ \in {"NoSim", "Denied"}
                                    /\ x.status_ \notin {"NoSim", "Denied"}
BY DEF BecameRegistered, status_registered_, StatusOrder

\* set_status, the objects it sets up included (375-419).
LEMMA SetStatusEffect ==
  ASSUME NEW x, NEW s \in Status, Weak(x), Good(x) \/ s = "NoSim", NEW r \in Reply
  PROVE  StatusSet(x, s, r, set_status(x, s, r))
<1> DEFINE y == assign_status(x, s)
           z == set_status(x, s, r)
<1>0. x \in Bridge /\ x.has_sim_ \in BOOLEAN /\ x.network_ \in BOOLEAN
  BY DEF Weak, Bridge
<1>1. Kept(x, y) BY AssignGood
<1>2. /\ Framed(x, y) /\ y.sim_ = x.sim_ /\ y.network_ = x.network_
      /\ x.has_sim_ => y.status_ = s
      /\ ~x.has_sim_ => y.status_ = IF s = x.status_ THEN s ELSE "NoSim"
      /\ y.has_sim_ <=> x.has_sim_ /\ (s # "NoSim" \/ x.status_ = "NoSim")
  BY <1>0, AssignEffect
<1>3. \/ z = y
      \/ BecameRegistered(x, y) /\ y.modem_ # None /\ y.sim_ = None
           /\ z = setup_sim_by(assign_status, y, r)
      \/ BecameRegistered(x, y) /\ y.modem_ # None /\ y.sim_ # None
           /\ ~y.network_ /\ z = setup_network_by(assign_status, y, r)
      \/ y.sim_ # None /\ z = enumerate_operators(y, r)
  BY DEF set_status
<1> SUFFICES StatusSet(x, s, r, z) OBVIOUS
<1> HIDE DEF y, z
<1>4. Good(y) /\ y.has_sim_ \in BOOLEAN /\ (y.status_ = "Denied" => y.has_sim_)
  <2>1. Good(y) BY <1>1, KeptLaws
  <2> QED BY <2>1 DEF Good, Weak, Bridge, NoSimKept
<1>5. CASE z = y \/ Alike(y, z)
  <2>1. Alike(y, z) BY <1>5, AlikeLaws
  <2>2. ~x.has_sim_ /\ x.status_ = "NoSim" => Alike(x, y)
    BY <1>0, <1>2, <1>4 DEF Alike, SameRadio
  <2> QED BY <1>2, <2>1, <2>2, AlikeLaws
          DEF StatusSet, Alike, SameRadio, Lost, Blank
<1>6. CASE BecameRegistered(x, y) /\ y.modem_ # None /\ y.sim_ = None
             /\ z = setup_sim_by(assign_status, y, r)
  <2>1. /\ Framed(y, z) /\ z.network_ = y.network_
        /\ r.sim = "error" => z.has_sim_ = y.has_sim_ /\ z.status_ = y.status_
        /\ r.sim # "error" =>
             /\ z.has_sim_ = (r.sim = "present")
             /\ r.sim = "present" /\ x.network_ => z.status_ = y.status_
             /\ r.sim = "present" /\ ~x.network_ => z.status_ = "Offline"
             /\ r.sim # "present" => z.status_ = "NoSim"
    BY <1>2, <1>4, <1>6, SetupSimEffect0
  <2>2. Framed(x, z) BY <1>2, <2>1, AlikeLaws
  <2>3. /\ y.status_ \in {"NoSim", "Denied"}
        /\ x.status_ \notin {"NoSim", "Denied"}
    BY <1>6, BecomesRegistered
  <2>4. Blank(z) => Blank(x) BY <1>2, <2>1, <2>3 DEF Blank
  <2> QED BY <1>2, <1>6, <2>1, <2>2, <2>3, <2>4 DEF StatusSet, Lost
<1>7. CASE BecameRegistered(x, y) /\ y.modem_ # None /\ y.sim_ # None
             /\ ~y.network_ /\ z = setup_network_by(assign_status, y, r)
  <2>3. /\ y.status_ \in {"NoSim", "Denied"}
        /\ x.status_ \notin {"NoSim", "Denied"}
    BY <1>7, BecomesRegistered
  <2>1. /\ Framed(y, z) /\ z.sim_ = y.sim_ /\ z.has_sim_ = y.has_sim_
        /\ r.net = "error" => z.network_ /\ z.status_ = y.status_
        /\ r.net # "error" /\ y.has_sim_
             => z.network_ /\ z.status_ = map_status(r.net)
        /\ r.net # "error" /\ ~y.has_sim_
             => ~z.network_ /\ z.status_ = "NoSim"
    BY <1>4, <1>7, <2>3, SetupNetworkEffect0
  <2>2. Framed(x, z) BY <1>2, <2>1, AlikeLaws
  <2>4. Blank(z) => Blank(x) BY <1>2, <2>1, <2>3 DEF Blank
  <2>5. s \in Lost => ~y.has_sim_ BY <1>2, <2>3 DEF Lost
  <2> QED BY <1>2, <1>7, <2>1, <2>2, <2>3, <2>4, <2>5 DEF StatusSet, Lost
<1>8. CASE y.sim_ # None /\ z = enumerate_operators(y, r)
  BY <1>4, <1>5, <1>8, EnumerateEffect
<1> QED BY <1>3, <1>5, <1>6, <1>7, <1>8

----------------------------------------------------------------------------
(* The same functions with the whole set_status.                           *)

\* reset_network keeps the invariant (454-462), with the whole set_status.
LEMMA ResetNetwork1 ==
  ASSUME NEW x, Good(x), NEW r \in Reply
  PROVE  Kept(x, reset_network_by(LAMBDA br, s : set_status(br, s, r), x))
<1> DEFINE y == [x EXCEPT !.operator_ = FALSE, !.network_ = FALSE]
           z == set_status(y, "Offline", r)
           no_sim == ~z.has_sim_
           w == resetProperties(z, no_sim)
<1>1. Kept(x, y) /\ ~y.network_ BY DropNetworkGood
<1> HIDE DEF y
<1>2. Good(y) /\ Weak(y) BY <1>1, KeptLaws DEF Good
<1>3. /\ Kept(y, z) /\ (z.has_sim_ => z.status_ = "Offline")
      /\ z.status_ \in Lost
  BY <1>1, <1>2, SetStatusGood, SetStatusEffect DEF Status, Lost, StatusSet
<1>4. reset_network_by(LAMBDA br, s : set_status(br, s, r), x) = w
  BY DEF reset_network_by, y, z
<1> HIDE DEF z
<1>5. Good(z) /\ z.modem_ = x.modem_ BY <1>1, <1>3, KeptLaws
<1>6. /\ no_sim \in BOOLEAN /\ (no_sim \/ z.status_ = "Offline")
      /\ z.status_ \in Lost
  BY <1>3
<1>7. Good(w) /\ Owned(w) /\ Exact(w) /\ w.modem_ = z.modem_
  <2> HIDE DEF no_sim
  <2> QED BY <1>5, <1>6, ResetPropertiesGood
<1> HIDE DEF w
<1> QED BY <1>4, <1>5, <1>7 DEF Kept, Follows

\* A property of the network keeps the invariant, SIM or not (615-622),
\* with the whole set_status.
LEMMA NetUpdate1 ==
  ASSUME NEW x, Good(x), NEW n, NEW v, NetValue(n, v), NEW r \in Reply
  PROVE  Kept(x, net_update_by(LAMBDA br, s : set_status(br, s, r), x, n, v))
<1> DEFINE y == IF x.has_sim_ THEN x
                ELSE reset_network_by(LAMBDA br, s : set_status(br, s, r), x)
           w == net_action(LAMBDA br, s : set_status(br, s, r), y, n, v)
<1>1. Kept(x, y) BY ResetNetwork1, KeptLaws
<1>2. net_update_by(LAMBDA br, s : set_status(br, s, r), x, n, v) = w
  BY DEF net_update_by
<1> HIDE DEF y
<1>3. Good(y) BY <1>1, KeptLaws
<1>4. Kept(y, w)
  <2>1. CASE n = "Name"
    <3>1. w = set_network_name(y, v) BY <2>1 DEF net_action
    <3> HIDE DEF w
    <3> QED BY <1>3, <2>1, <3>1, NamesGood DEF NetValue
  <2>2. CASE n = "Status"
    <3> DEFINE z == [y EXCEPT !.pub.Status = v]
               mapped == map_status(v)
    <3>1. Kept(y, z) BY <1>3, <2>2, NetPublishedGood DEF NetValue
    <3>2. mapped \in Status BY MapStatusType
    <3>3. w = set_status(z, mapped, r) BY <2>2 DEF net_action
    <3> HIDE DEF z, mapped, w
    <3>4. Good(z) /\ Weak(z) BY <3>1, KeptLaws DEF Good
    <3>5. Kept(z, w) BY <3>2, <3>3, <3>4, SetStatusGood
    <3> QED BY <3>1, <3>5, KeptLaws
  <2>3. CASE n = "Technology"
    <3> DEFINE z == [y EXCEPT !.pub.Technology = "lte"]
    <3>1. w = z BY <2>3 DEF net_action, NetValue
    <3>2. Kept(y, z) BY <1>3, NetPublishedGood
    <3> HIDE DEF w, z
    <3> QED BY <3>1, <3>2
  <2> QED BY <2>1, <2>2, <2>3 DEF NetValue
<1> HIDE DEF w
<1> QED BY <1>1, <1>2, <1>4, KeptLaws

\* setup_network, the three properties it reads included (612-644), with
\* the whole set_status.
LEMMA SetupNetwork1 ==
  ASSUME NEW x, Good(x), x.modem_ # None, NEW r \in Reply
  PROVE  Kept(x, setup_network_by(LAMBDA br, s : set_status(br, s, r), x, r))
<1> DEFINE y == [x EXCEPT !.network_ = TRUE]
           u == net_update_by(LAMBDA br, s : set_status(br, s, r), y, "Name", "net")
           status == r.net
           v == net_update_by(LAMBDA br, s : set_status(br, s, r), u, "Status", status)
           w == net_update_by(LAMBDA br, s : set_status(br, s, r), v, "Technology", "lte")
<1>1. Kept(x, y) BY NewNetworkGood
<1> HIDE DEF y
<1>2. CASE r.net = "error" BY <1>1, <1>2 DEF setup_network_by, y
<1>3. CASE r.net # "error"
  <2>1. r.net \in NetStatuses BY <1>3 DEF Reply
  <2>2. /\ NetValue("Name", "net") /\ NetValue("Status", status)
        /\ NetValue("Technology", "lte")
    BY <2>1 DEF NetValue
  <2> HIDE DEF status
  <2>a. Good(y) BY <1>1, KeptLaws
  <2>3. Kept(y, u) BY <2>2, <2>a, NetUpdate1
  <2> HIDE DEF u
  <2>b. Good(u) BY <2>3, KeptLaws
  <2>4. Kept(u, v) BY <2>2, <2>b, NetUpdate1
  <2> HIDE DEF v
  <2>c. Good(v) BY <2>4, KeptLaws
  <2>5. Kept(v, w) BY <2>2, <2>c, NetUpdate1
  <2> HIDE DEF w
  <2>6. setup_network_by(LAMBDA br, s : set_status(br, s, r), x, r) = w
    BY <1>3 DEF setup_network_by, net_read_by, w, v, status, u, y
  <2> QED BY <1>1, <2>3, <2>4, <2>5, <2>6, KeptLaws
<1> QED BY <1>2, <1>3

\* The property Present: the SIM comes or goes (782-790), with the whole
\* set_status.
LEMMA SimPresent1 ==
  ASSUME NEW x, Good(x), NEW inserted \in BOOLEAN, NEW r \in Reply
  PROVE  Kept(x, sim_present_by(LAMBDA br, s : set_status(br, s, r), x, inserted))
<1> DEFINE y == [x EXCEPT !.has_sim_ = inserted]
           t == IF inserted THEN "Offline" ELSE "NoSim"
           w == set_status(y, t, r)
<1>1. /\ Weak(y) /\ Follows(x, y) /\ (inserted => Good(y))
      /\ y.modem_ = x.modem_
  BY HasSimWeak
<1> HIDE DEF y
<1>2. CASE inserted /\ x.network_
  <2>1. sim_present_by(LAMBDA br, s : set_status(br, s, r), x, inserted) = y
    BY <1>2 DEF sim_present_by, y
  <2> QED BY <1>1, <1>2, <2>1 DEF Kept
<1>3. CASE ~(inserted /\ x.network_)
  <2>1. sim_present_by(LAMBDA br, s : set_status(br, s, r), x, inserted) = w
    BY <1>3 DEF sim_present_by, y
  <2>2. t \in Status /\ (~inserted => t = "NoSim") BY DEF Status
  <2> HIDE DEF t
  <2>3. Kept(y, w) BY <1>1, <2>2, SetStatusGood
  <2> HIDE DEF w
  <2> QED BY <1>1, <2>1, <2>3 DEF Kept, Follows
<1> QED BY <1>2, <1>3

\* setup_sim keeps the invariant (777-816), with the whole set_status.
LEMMA SetupSim1 ==
  ASSUME NEW x, Good(x), x.modem_ # None, NEW r \in Reply
  PROVE  Kept(x, setup_sim_by(LAMBDA br, s : set_status(br, s, r), x, r))
<1> DEFINE y == [x EXCEPT !.sim_ = "idle"]
           m == sim_mcc(y)
           z == IF r.sim = "present"
                THEN sim_present_by(LAMBDA br, s : set_status(br, s, r), m, TRUE)
                ELSE sim_present_by(LAMBDA br, s : set_status(br, s, r), y, FALSE)
           c == [z EXCEPT !.sim_ = "live"]
           t == setup_stk(c, r)
<1>1. Kept(x, y) /\ y.sim_ = "idle" BY SimProxyGood
<1> HIDE DEF y
<1>2. Good(y) /\ y.modem_ # None BY <1>1, KeptLaws
<1>3. Kept(y, m) BY <1>1, <1>2, NetPublishedGood DEF None
<1> HIDE DEF m
<1>4. Kept(y, z)
  <2>1. CASE r.sim = "present"
    <3>1. Good(m) BY <1>3, KeptLaws
    <3>2. Kept(m, z) BY <2>1, <3>1, SimPresent1
    <3> HIDE DEF z
    <3> QED BY <1>3, <3>2, KeptLaws
  <2>2. CASE r.sim # "present" BY <1>2, <2>2, SimPresent1
  <2> QED BY <2>1, <2>2
<1>5. \/ setup_sim_by(LAMBDA br, s : set_status(br, s, r), x, r) = y
      \/ setup_sim_by(LAMBDA br, s : set_status(br, s, r), x, r) = c
      \/ setup_sim_by(LAMBDA br, s : set_status(br, s, r), x, r) = t
  <2>1. CASE r.sim = "error" BY <2>1 DEF setup_sim_by, y
  <2>2. CASE r.sim # "error" /\ "SimToolkit" \in z.interfaces_
    BY <2>2 DEF setup_sim_by, t, c, z, m, y
  <2>3. CASE r.sim # "error" /\ "SimToolkit" \notin z.interfaces_
    BY <2>3 DEF setup_sim_by, c, z, m, y
  <2> QED BY <2>1, <2>2, <2>3
<1> HIDE DEF z
<1>6. Good(z) /\ z.modem_ # None BY <1>2, <1>4, KeptLaws
<1>7. Kept(z, c) BY <1>6, SimProxyGood
<1> HIDE DEF c
<1>8. Kept(c, t) BY <1>7, SetupStkGood, KeptLaws
<1> HIDE DEF t
<1> QED BY <1>1, <1>4, <1>5, <1>7, <1>8, KeptLaws

\* A property of the current operator (555-562), with the whole
\* set_status.
LEMMA OperatorUpdate1 ==
  ASSUME NEW x, Good(x), NEW r \in Reply
  PROVE  Kept(x, operator_update_by(LAMBDA br, s : set_status(br, s, r), x))
<1> DEFINE y == IF x.sim_ = None
                THEN reset_network_by(LAMBDA br, s : set_status(br, s, r), x) ELSE x
           w == set_operator_name(y, "op")
<1>1. Kept(x, y) BY ResetNetwork1, KeptLaws
<1>2. operator_update_by(LAMBDA br, s : set_status(br, s, r), x) = w
  BY DEF operator_update_by
<1> HIDE DEF y
<1>3. Kept(y, w) BY <1>1, NamesGood, KeptLaws
<1> HIDE DEF w
<1> QED BY <1>1, <1>2, <1>3, KeptLaws

\* reset_sim keeps the invariant of what is left without the SIM, takes
\* back everything that was published and shows "no-sim" (444-452).
LEMMA ResetSimGood ==
  ASSUME NEW x, NEW r \in Reply,
         Good([x EXCEPT !.operator_ = FALSE, !.network_ = FALSE, !.sim_ = None])
  PROVE  /\ Good(reset_sim(x, r)) /\ Owned(reset_sim(x, r))
         /\ Exact(reset_sim(x, r))
         /\ reset_sim(x, r).modem_
              = [x EXCEPT !.operator_ = FALSE, !.network_ = FALSE, !.sim_ = None].modem_
<1> DEFINE y == [x EXCEPT !.operator_ = FALSE, !.network_ = FALSE, !.sim_ = None]
           z == set_status(y, "NoSim", r)
<1> HIDE DEF y
<1>1. Kept(y, z) /\ z.status_ \in Lost
  BY SetStatusGood, SetStatusEffect DEF Good, Status, Lost, StatusSet, y
<1> HIDE DEF z
<1>2. reset_sim(x, r) = resetProperties(z, TRUE) BY DEF reset_sim, z, y
<1>3. Good(z) /\ z.modem_ = y.modem_ /\ z.status_ \in Lost BY <1>1, KeptLaws
<1> QED BY <1>2, <1>3, ResetPropertiesGood DEF y

\* The SIM's proxies may be dropped.
LEMMA DropSimGood ==
  ASSUME NEW x, Good(x)
  PROVE  LET y == [x EXCEPT !.operator_ = FALSE, !.network_ = FALSE, !.sim_ = None]
         IN  Good(y) /\ y.modem_ = x.modem_
BY DEF Good, Weak, HonestStatus, OwnersKept, NoSimKept, Bridge, ProxyState

\* reset_sim of a bridge that keeps the invariant.
LEMMA ResetSimKept ==
  ASSUME NEW x, Good(x), NEW r \in Reply
  PROVE  Kept(x, reset_sim(x, r))
BY DropSimGood, ResetSimGood DEF Kept, Follows

\* update_mms_context restores what a change of the contexts breaks
\* (421-433).
LEMMA UpdateMmsGood ==
  ASSUME NEW x, Good(x), NEW kinds \in [Contexts -> ContextKind],
         NEW cm \in BOOLEAN, NEW p, p = x.pub \/ p = [x.pub EXCEPT !.DataRoamingAllowed = "1"],
         ~cm => kinds = NoContexts, cm => x.modem_ # None
  PROVE  LET y == update_mms_context([x EXCEPT !.connectionManager_ = cm,
                                               !.connectionContexts_ = kinds,
                                               !.pub = p])
         IN  Kept(x, y)
<1> DEFINE m == first_mms(kinds)
           y == [x EXCEPT !.connectionManager_ = cm, !.connectionContexts_ = kinds,
                          !.pub = [p EXCEPT !.MMSContext = m], !.mmsContext_ = m]
<1>1. x \in Bridge BY DEF Good, Weak
<1>2. m \in Contexts \cup {0} BY FirstMms
<1>3. p \in Published /\ p.RegistrationStatus = x.pub.RegistrationStatus
  BY <1>1 DEF Bridge, Published
<1>4. update_mms_context([x EXCEPT !.connectionManager_ = cm,
                                   !.connectionContexts_ = kinds, !.pub = p]) = y
  BY <1>1 DEF update_mms_context, Bridge
<1>5. y \in Bridge
  <2> HIDE DEF m
  <2> QED BY <1>1, <1>2, <1>3 DEF Bridge, Published
<1>6. /\ y.pub.RegistrationStatus = x.pub.RegistrationStatus
      /\ y.pub.MMSContext = m
      /\ y.pub.HomeMCC = x.pub.HomeMCC
      /\ y.pub.StkIdleModeText = x.pub.StkIdleModeText
      /\ y.status_ = x.status_ /\ y.has_sim_ = x.has_sim_
      /\ y.modem_ = x.modem_ /\ y.sim_ = x.sim_ /\ y.network_ = x.network_
      /\ y.operator_ = x.operator_ /\ y.stk_ = x.stk_
      /\ y.connectionManager_ = cm
      /\ y.connectionContexts_ = kinds
      /\ y.mmsContext_ = m
  <2> HIDE DEF m
  <2> QED BY <1>1, <1>3 DEF Bridge, Published
<1> HIDE DEF y
<1>7. Good(y)
  BY <1>5, <1>6 DEF Good, Weak, HonestStatus, OwnersKept, NoSimKept, m
<1>8. Follows(x, y) BY <1>6 DEF Follows, Exact, Owned
<1> QED BY <1>4, <1>6, <1>7, <1>8 DEF Kept

\* reset_connectionManager keeps the invariant (683-689).
LEMMA ResetConnectionManagerGood ==
  ASSUME NEW x, Good(x)
  PROVE  Kept(x, reset_connectionManager(x))
<1> DEFINE p == x.pub
           y == [x EXCEPT !.connectionManager_ = FALSE,
                          !.connectionContexts_ = NoContexts, !.pub = p]
<1>1. reset_connectionManager(x) = update_mms_context(y)
  BY DEF reset_connectionManager, Good, Weak, Bridge
<1>2. NoContexts \in [Contexts -> ContextKind] BY NoContextsMms
<1>3. p = x.pub OBVIOUS
<1> HIDE DEF p
<1>4. Kept(x, update_mms_context(y))
  BY <1>2, <1>3, UpdateMmsGood, FALSE \in BOOLEAN
<1> HIDE DEF y
<1> QED BY <1>1, <1>4

\* setup_connectionManager keeps it, whichever call fails (691-759).
LEMMA SetupConnectionManagerGood ==
  ASSUME NEW x, Good(x), x.modem_ # None, NEW r \in Reply
  PROVE  Kept(x, setup_connectionManager(x, r))
<1> DEFINE y == [x EXCEPT !.connectionManager_ = TRUE]
           z == [y EXCEPT !.pub.DataRoamingAllowed = "1"]
           kinds == [c \in Contexts |-> IF r.ctx[c] = "absent"
                                      THEN x.connectionContexts_[c] ELSE r.ctx[c]]
           u == [z EXCEPT !.connectionContexts_ = kinds]
           p == [x.pub EXCEPT !.DataRoamingAllowed = "1"]
           w == [x EXCEPT !.connectionManager_ = TRUE,
                          !.connectionContexts_ = kinds, !.pub = p]
<1>0. x \in Bridge BY DEF Good, Weak
<1>1. Kept(x, y)
  BY <1>0 DEF Good, Weak, HonestStatus, OwnersKept, NoSimKept, Bridge, Kept,
     Follows, Exact, Owned
<1>2. Kept(x, z)
  <2> HIDE DEF y
  <2>1. Good(y) BY <1>1, KeptLaws
  <2>2. Kept(y, z) BY <2>1, NetPublishedGood
  <2> HIDE DEF z
  <2> QED BY <1>1, <2>2, KeptLaws
<1>3. Kept(x, update_mms_context(u))
  <2>1. kinds \in [Contexts -> ContextKind] BY <1>0 DEF Reply, Bridge
  <2>2. u = w
    <3> HIDE DEF kinds
    <3> QED BY <1>0 DEF Bridge
  <2> HIDE DEF kinds, u
  <2> QED BY <2>1, <2>2, UpdateMmsGood
<1>4. \/ setup_connectionManager(x, r) = y
      \/ setup_connectionManager(x, r) = z
      \/ setup_connectionManager(x, r) = update_mms_context(u)
  <2>1. CASE r.cm = "error" BY <2>1 DEF setup_connectionManager
  <2>2. CASE r.cm = "props" BY <2>2 DEF setup_connectionManager
  <2>3. CASE r.cm = "all"
    <3>1. CASE r.ctx = NoContexts BY <2>3, <3>1 DEF setup_connectionManager
    <3>2. CASE r.ctx # NoContexts BY <2>3, <3>2 DEF setup_connectionManager
    <3> QED BY <3>1, <3>2
  <2> QED BY <2>1, <2>2, <2>3 DEF Reply
<1> HIDE DEF y, z, u
<1> QED BY <1>1, <1>2, <1>3, <1>4

\* reset_modem: the modem goes first, the proxies follow (435-442).
LEMMA ResetModemGood ==
  ASSUME NEW x, Good(x), NEW r \in Reply
  PROVE  LET y == reset_modem(x, r) IN Good(y) /\ Owned(y) /\ Exact(y)
<1> DEFINE c == reset_connectionManager([x EXCEPT !.modem_ = None])
           d == [c EXCEPT !.operator_ = FALSE, !.network_ = FALSE, !.sim_ = None]
           p == [x.pub EXCEPT !.MMSContext = 0]
           y == [x EXCEPT !.modem_ = None, !.operator_ = FALSE,
                          !.network_ = FALSE, !.sim_ = None,
                          !.connectionManager_ = FALSE,
                          !.connectionContexts_ = NoContexts,
                          !.mmsContext_ = 0, !.pub = p]
<1>0. x \in Bridge BY DEF Good, Weak
<1>1. p \in Published /\ p.MMSContext = 0
      /\ p.RegistrationStatus = x.pub.RegistrationStatus
  BY <1>0 DEF Bridge, Published
<1>2. c = [x EXCEPT !.modem_ = None, !.connectionManager_ = FALSE,
                    !.connectionContexts_ = NoContexts,
                    !.mmsContext_ = 0, !.pub = p]
  BY <1>0, NoContextsMms DEF reset_connectionManager, update_mms_context, Bridge
<1>3. d = y
  <2> HIDE DEF c, p
  <2> QED BY <1>0, <1>2 DEF Bridge
<1>4. Good(y)
  <2> HIDE DEF p
  <2> QED BY <1>0, <1>1, NoContextsMms DEF Good, Weak, HonestStatus, OwnersKept,
         NoSimKept, Bridge, ProxyState
<1>5. reset_modem(x, r) = reset_sim(c, r) BY DEF reset_modem
<1> HIDE DEF c, y
<1> QED BY <1>3, <1>4, <1>5, ResetSimGood

\* The interfaces and the manager's proxy are not what the invariant is about.
LEMMA BookkeepingGood ==
  ASSUME NEW x, Good(x)
  PROVE  /\ \A faces \in SUBSET Interfaces : Kept(x, [x EXCEPT !.interfaces_ = faces])
         /\ \A br \in ProxyState : Kept(x, [x EXCEPT !.manager_ = br])
<1>1. ASSUME NEW faces \in SUBSET Interfaces
      PROVE  Kept(x, [x EXCEPT !.interfaces_ = faces])
  BY DEF Good, Weak, HonestStatus, OwnersKept, NoSimKept, Bridge, Kept,
         Follows, Exact, Owned
<1>2. ASSUME NEW br \in ProxyState PROVE Kept(x, [x EXCEPT !.manager_ = br])
  BY DEF Good, Weak, HonestStatus, OwnersKept, NoSimKept, Bridge, Kept,
         Follows, Exact, Owned
<1> QED BY <1>1, <1>2

\* process_interfaces, whichever interfaces come and go (471-514).
LEMMA ProcessInterfacesGood ==
  ASSUME NEW x, Good(x), x.modem_ # None, NEW faces \in SUBSET Interfaces,
         NEW r \in Reply
  PROVE  Kept(x, process_interfaces(x, faces, r))
<1> DEFINE lost == reset_sim(x, r)
           y == IF IsSet(x, faces, "SimManager") THEN setup_sim(x, r) ELSE x
           n == process_network(y, faces, r)
           t == process_stk(n, faces, r)
           m == process_cm(t, faces, r)
           sim_lost == IsReset(x, faces, "SimManager") /\ x.sim_ # None
           res == IF sim_lost THEN lost ELSE m
           w == [res EXCEPT !.interfaces_ = faces]
<1>1. Kept(x, lost) BY ResetSimKept
<1>2. Kept(x, x) BY KeptLaws
<1>3. Kept(x, y) BY <1>2, SetupSim1 DEF setup_sim
<1> HIDE DEF y
<1>4. Good(y) /\ y.modem_ # None /\ Kept(y, y) BY <1>3, KeptLaws
<1>5. Kept(y, n)
  BY <1>4, ResetNetwork1, SetupNetwork1
  DEF process_network, reset_network, setup_network
<1> HIDE DEF n
<1>6. Good(n) /\ n.modem_ # None /\ Kept(n, n) BY <1>4, <1>5, KeptLaws
<1>7. Kept(n, t) BY <1>6, SetupStkGood DEF process_stk
<1> HIDE DEF t
<1>8. Good(t) /\ t.modem_ # None /\ Kept(t, t) BY <1>6, <1>7, KeptLaws
<1>9. Kept(t, m)
  BY <1>8, SetupConnectionManagerGood, ResetConnectionManagerGood DEF process_cm
<1> HIDE DEF m, lost
<1>10. Kept(x, res) BY <1>1, <1>3, <1>5, <1>7, <1>9, KeptLaws
<1>11. process_interfaces(x, faces, r) = w
  BY DEF process_interfaces, w, res, sim_lost, lost, m, t, n, y
<1> HIDE DEF res
<1>12. Good(res) BY <1>10, KeptLaws
<1>13. Kept(res, w) BY <1>12, BookkeepingGood
<1> HIDE DEF w
<1> QED BY <1>10, <1>11, <1>13, KeptLaws

\* The property Powered of the modem (529-532).
LEMMA ModemPoweredGood ==
  ASSUME NEW x, Good(x), NEW powered, NEW r \in Reply
  PROVE  Kept(x, modem_powered(x, powered, r))
<1>1. Kept(x, x) BY KeptLaws
<1> QED BY <1>1, ResetSimKept DEF modem_powered

\* setup_modem of a hardware modem (516-544).
LEMMA SetupModemGood ==
  ASSUME NEW x, Good(x), NEW mdm \in Modems, NEW faces \in SUBSET Interfaces,
         NEW powered, NEW r \in Reply
  PROVE  LET y == setup_modem(x, mdm, faces, powered, r)
         IN  Good(y) /\ Follows(x, y)
<1> DEFINE y == [x EXCEPT !.modem_ = mdm]
           z == process_interfaces(y, faces, r)
           w == modem_powered(z, powered, r)
<1>1. Good(y) /\ y.modem_ # None
  BY BridgeAssumption DEF Good, Weak, HonestStatus, OwnersKept, NoSimKept, Bridge
<1>2. Follows(x, y) BY DEF Good, Weak, Bridge, Follows, Exact, Owned
<1> HIDE DEF y
<1>3. Kept(y, z) BY <1>1, ProcessInterfacesGood
<1> HIDE DEF z
<1>4. Kept(z, w) BY <1>3, ModemPoweredGood, KeptLaws
<1>5. setup_modem(x, mdm, faces, powered, r) = w BY DEF setup_modem, w, z, y
<1> HIDE DEF w
<1>6. Kept(y, w) BY <1>3, <1>4, KeptLaws
<1> QED BY <1>2, <1>5, <1>6 DEF Kept, Follows

\* A context is added, changed or removed (700-721).
LEMMA ContextsGood ==
  ASSUME NEW x, Good(x), x.connectionManager_, NEW c \in Contexts,
         NEW k \in ContextKind
  PROVE  Kept(x, update_mms_context([x EXCEPT !.connectionContexts_[c] = k]))
<1> DEFINE kinds == [x.connectionContexts_ EXCEPT ![c] = k]
           p == x.pub
           cm == x.connectionManager_
           y == [x EXCEPT !.connectionContexts_ = kinds]
           z == [x EXCEPT !.connectionManager_ = cm,
                          !.connectionContexts_ = kinds, !.pub = p]
<1>0. x \in Bridge BY DEF Good, Weak
<1>1. kinds \in [Contexts -> ContextKind] BY <1>0 DEF Bridge
<1>2. y = z
  <2> HIDE DEF kinds
  <2> QED BY <1>0 DEF Bridge
<1>3. cm \in BOOLEAN /\ cm /\ x.modem_ # None /\ p = x.pub
  BY <1>0 DEF Good, Weak, OwnersKept, Bridge
<1> HIDE DEF kinds, p, cm
<1>4. Kept(x, update_mms_context(z)) BY <1>1, <1>3, UpdateMmsGood
<1> HIDE DEF z
<1>5. [x EXCEPT !.connectionContexts_[c] = k] = y BY DEF kinds
<1> HIDE DEF y
<1> QED BY <1>2, <1>4, <1>5


\* reset_network loses the network's status; when it does not drop the
\* network's proxy set_status has just set it up again (445, 454-462).
LEMMA ResetNetworkEffect ==
  ASSUME NEW x, Good(x), NEW r \in Reply
  PROVE  LET y == reset_network(x, r)
         IN  /\ Framed(x, y) /\ y.status_ \in Lost
             /\ y.network_ => r.net = "error" /\ Blank(x)
             /\ x.sim_ = None => ~y.network_
             /\ x.sim_ # None => y.sim_ = x.sim_ /\ y.has_sim_ = x.has_sim_
<1> DEFINE y == [x EXCEPT !.operator_ = FALSE, !.network_ = FALSE]
           z == set_status(y, "Offline", r)
           no_sim == ~z.has_sim_
           w == resetProperties(z, no_sim)
<1>0. x \in Bridge /\ (~x.has_sim_ => x.status_ \in {"NoSim", "Unknown"})
  BY DEF Good, Weak, NoSimKept
<1>1. /\ Framed(x, y) /\ ~y.network_ /\ y.sim_ = x.sim_
      /\ y.has_sim_ = x.has_sim_ /\ y.status_ = x.status_
  BY <1>0, DropNetworkEffect
<1>2. Kept(x, y) BY DropNetworkGood
<1> HIDE DEF y
<1>3. Good(y) /\ Weak(y) BY <1>2, KeptLaws DEF Good
<1>4. Kept(y, z) BY <1>3, SetStatusGood DEF Status
<1>5. StatusSet(y, "Offline", r, z) BY <1>3, SetStatusEffect DEF Status
<1>6. reset_network(x, r) = w
  BY DEF reset_network, reset_network_by, w, no_sim, z, y
<1> HIDE DEF z
<1>7. z \in Bridge /\ z.has_sim_ \in BOOLEAN /\ x.has_sim_ \in BOOLEAN
  <2>1. Good(z) BY <1>4, KeptLaws
  <2> QED BY <1>0, <2>1 DEF Good, Weak, Bridge
<1>8. Alike(z, w) BY <1>7, PublishedAlike
<1> HIDE DEF w
<1>9. /\ Framed(x, z) /\ z.status_ \in Lost
      /\ z.network_ => r.net = "error" /\ Blank(x)
      /\ x.sim_ = None => ~z.network_
      /\ x.sim_ # None => z.sim_ = x.sim_ /\ z.has_sim_ = x.has_sim_
  <2>1. Framed(x, z) BY <1>1, <1>5, AlikeLaws DEF StatusSet
  <2> QED BY <1>0, <1>1, <1>5, <1>7, <2>1
          DEF StatusSet, Lost, Blank, Alike, SameRadio
<1> QED BY <1>6, <1>8, <1>9, AlikeLaws DEF Alike, SameRadio

\* A property of the network, while there is a SIM's proxy.
LEMMA NetUpdateEffect ==
  ASSUME NEW x, Good(x), NEW n, NEW v, NetValue(n, v), NEW r \in Reply
  PROVE  LET y == net_update(x, n, v, r)
         IN  /\ Framed(x, y)
             /\ Blank(y) => Blank(x)
             /\ x.sim_ # None =>
                  /\ y.sim_ = x.sim_
                  /\ ~x.has_sim_ => ~y.has_sim_
                  /\ x.has_sim_ /\ x.network_ =>
                       /\ y.has_sim_ /\ y.network_
                       /\ n # "Status" => y.status_ = x.status_
                       /\ n = "Status" => y.status_ = map_status(v)
<1> DEFINE y == IF x.has_sim_ THEN x
                ELSE reset_network(x, r)
           w == net_action(LAMBDA br, s : set_status(br, s, r), y, n, v)
<1>1. Kept(x, y) BY ResetNetwork1, KeptLaws DEF reset_network
<1>2. /\ Framed(x, y)
      /\ Blank(y) => Blank(x)
      /\ x.sim_ # None => y.sim_ = x.sim_ /\ y.has_sim_ = x.has_sim_
      /\ x.has_sim_ => y = x
  <2>1. CASE x.has_sim_ BY <2>1, AlikeLaws
  <2>2. CASE ~x.has_sim_ BY <2>2, ResetNetworkEffect DEF Blank, Lost
  <2> QED BY <2>1, <2>2
<1>3. net_update(x, n, v, r) = w
  BY DEF net_update, net_update_by, reset_network
<1> HIDE DEF y
<1>4. Good(y) /\ y \in Bridge BY <1>1, KeptLaws DEF Good, Weak
<1>5. \/ n # "Status" /\ Alike(y, w)
      \/ n = "Status" /\ \E z : Alike(y, z) /\ StatusSet(z, map_status(v), r, w)
  <2>1. CASE n = "Name"
    <3>1. w = set_network_name(y, v) BY <2>1 DEF net_action
    <3> HIDE DEF w
    <3> QED BY <1>4, <2>1, <3>1, NamesAlike
  <2>2. CASE n = "Status"
    <3> DEFINE z == [y EXCEPT !.pub.Status = v]
               mapped == map_status(v)
    <3>1. Kept(y, z) BY <1>4, <2>2, NetPublishedGood DEF NetValue
    <3>2. Alike(y, z) BY <1>4, PublishedAlike
    <3>3. mapped \in Status BY MapStatusType
    <3>4. w = set_status(z, mapped, r) BY <2>2 DEF net_action
    <3> HIDE DEF z, w
    <3>5. Good(z) /\ Weak(z) BY <3>1, KeptLaws DEF Good
    <3>6. StatusSet(z, mapped, r, w)
      <4> HIDE DEF mapped
      <4> QED BY <3>3, <3>4, <3>5, SetStatusEffect
    <3> QED BY <2>2, <3>2, <3>6
  <2>3. CASE n = "Technology"
    <3>1. w = [y EXCEPT !.pub.Technology = v] BY <2>3 DEF net_action
    <3> HIDE DEF w
    <3> QED BY <1>4, <2>3, <3>1, PublishedAlike
  <2> QED BY <2>1, <2>2, <2>3 DEF NetValue
<1> HIDE DEF w
<1>6. CASE n # "Status" /\ Alike(y, w)
  <2>1. Framed(x, w) BY <1>2, <1>6, AlikeLaws DEF Alike
  <2> QED BY <1>2, <1>3, <1>6, <2>1 DEF Alike, SameRadio, Blank
<1>7. CASE n = "Status" /\ \E z : Alike(y, z) /\ StatusSet(z, map_status(v), r, w)
  <2>1. PICK z : Alike(y, z) /\ StatusSet(z, map_status(v), r, w) BY <1>7
  <2>2. Framed(x, w) BY <1>2, <2>1, AlikeLaws DEF Alike, StatusSet
  <2>3. map_status(v) # "NoSim" BY MapStatusSim
  <2>4. Blank(w) => Blank(x)
    BY <1>2, <2>1 DEF Alike, SameRadio, StatusSet, Blank
  <2>5. ASSUME x.sim_ # None
        PROVE  /\ w.sim_ = x.sim_
               /\ ~x.has_sim_ => ~w.has_sim_
               /\ x.has_sim_ /\ x.network_ =>
                    /\ w.has_sim_ /\ w.network_
                    /\ w.status_ = map_status(v)
    BY <1>2, <2>1, <2>3, <2>5 DEF Alike, SameRadio, StatusSet
  <2> QED BY <1>3, <1>7, <2>2, <2>4, <2>5
<1> QED BY <1>5, <1>6, <1>7

\* setup_network, while there is a SIM's proxy.
LEMMA SetupNetworkEffect ==
  ASSUME NEW x, Good(x), x.modem_ # None, NEW r \in Reply
  PROVE  LET y == setup_network(x, r)
         IN  /\ Framed(x, y)
             /\ Blank(y) => Blank(x)
             /\ x.sim_ # None =>
                  /\ y.sim_ = x.sim_ /\ y.has_sim_ = x.has_sim_
                  /\ x.has_sim_ => y.network_
                  /\ x.has_sim_ /\ r.net # "error" => y.status_ = map_status(r.net)
<1> DEFINE y == [x EXCEPT !.network_ = TRUE]
           u == net_update(y, "Name", "net", r)
           status == r.net
           v == net_update(u, "Status", status, r)
           w == net_update(v, "Technology", "lte", r)
           Has(br, c) == /\ Framed(br, c)
                         /\ Blank(c) => Blank(br)
                         /\ br.sim_ # None =>
                              /\ c.sim_ = br.sim_
                              /\ ~br.has_sim_ => ~c.has_sim_
                              /\ br.has_sim_ /\ br.network_
                                   => c.has_sim_ /\ c.network_
<1>1. Kept(x, y) BY NewNetworkGood
<1>2. /\ Framed(x, y) /\ y.network_ /\ y.sim_ = x.sim_
      /\ y.has_sim_ = x.has_sim_ /\ y.status_ = x.status_
  BY DEF Good, Weak, Bridge, Framed
<1> HIDE DEF y
<1>3. CASE r.net = "error"
  <2>1. setup_network(x, r) = y
    BY <1>3 DEF setup_network, setup_network_by, y
  <2> QED BY <1>2, <1>3, <2>1 DEF Blank
<1>4. CASE r.net # "error"
  <2>1. r.net \in NetStatuses BY <1>4 DEF Reply
  <2>2. /\ NetValue("Name", "net") /\ NetValue("Status", status)
        /\ NetValue("Technology", "lte")
    BY <2>1 DEF NetValue
  <2>3. Good(y) BY <1>1, KeptLaws
  <2>4. Kept(y, u) BY <2>2, <2>3, NetUpdate1 DEF net_update
  <2>5. Has(y, u) BY <2>2, <2>3, NetUpdateEffect
  <2> HIDE DEF u, status
  <2>6. Good(u) BY <2>4, KeptLaws
  <2>7. Kept(u, v) BY <2>2, <2>6, NetUpdate1 DEF net_update
  <2>8. /\ Has(u, v)
        /\ u.sim_ # None /\ u.has_sim_ /\ u.network_ => v.status_ = map_status(status)
    BY <2>2, <2>6, NetUpdateEffect
  <2> HIDE DEF v
  <2>9. Good(v) BY <2>7, KeptLaws
  <2>10. Kept(v, w) BY <2>2, <2>9, NetUpdate1 DEF net_update
  <2>11. /\ Has(v, w)
         /\ v.sim_ # None /\ v.has_sim_ /\ v.network_ => w.status_ = v.status_
    BY <2>2, <2>9, NetUpdateEffect
  <2> HIDE DEF w
  <2>12. setup_network(x, r) = w
    BY <1>4 DEF setup_network, setup_network_by, net_read_by, net_update, w, v, status, u, y
  <2>13. Framed(x, w) BY <1>2, <2>5, <2>8, <2>11, AlikeLaws
  <2>14. Blank(w) => Blank(x) BY <1>2, <2>5, <2>8, <2>11 DEF Blank
  <2>15. x.has_sim_ \in BOOLEAN /\ w.has_sim_ \in BOOLEAN
    <3>1. Good(w) BY <2>10, KeptLaws
    <3> QED BY <3>1 DEF Good, Weak, Bridge
  <2> QED BY <1>2, <1>4, <2>5, <2>8, <2>11, <2>12, <2>13, <2>14, <2>15 DEF status
<1> QED BY <1>3, <1>4

\* What the property Present leaves behind, while there is a SIM's proxy.
PresentSet(x, inserted, r, y) ==
  /\ Framed(x, y)
  /\ y.sim_ = x.sim_ /\ y.has_sim_ = inserted
  /\ ~Blank(y)
  /\ Registered(y) => Registered(x)
  /\ x.network_ => y.network_
  /\ y.network_ => x.network_ \/ r.net = "error"

\* The property Present: the SIM comes or goes (782-790).
LEMMA SimPresentEffect ==
  ASSUME NEW x, Good(x), x.sim_ # None, NEW inserted \in BOOLEAN,
         NEW r \in Reply
  PROVE  PresentSet(x, inserted, r,
           sim_present_by(LAMBDA br, s : set_status(br, s, r), x, inserted))
<1> DEFINE y == [x EXCEPT !.has_sim_ = inserted]
           t == IF inserted THEN "Offline" ELSE "NoSim"
           w == sim_present_by(LAMBDA br, s : set_status(br, s, r), x, inserted)
<1> SUFFICES PresentSet(x, inserted, r, w) OBVIOUS
<1>1. /\ Framed(x, y) /\ y.sim_ = x.sim_ /\ y.network_ = x.network_
      /\ y.has_sim_ = inserted /\ y.status_ = x.status_
  BY DEF Good, Weak, Bridge, Framed
<1>2. Weak(y) /\ (inserted => Good(y)) BY HasSimWeak
<1>3. w = IF inserted /\ x.network_ THEN y ELSE set_status(y, t, r)
  BY DEF sim_present_by
<1> HIDE DEF y, w
<1>4. CASE inserted /\ x.network_
  BY <1>1, <1>3, <1>4 DEF PresentSet, Blank, Registered
<1>5. CASE ~(inserted /\ x.network_)
  <2>1. w = set_status(y, t, r) BY <1>3, <1>5
  <2>2. t \in Status /\ (inserted => t = "Offline") /\ (~inserted => t = "NoSim")
    BY DEF Status
  <2> HIDE DEF t
  <2>3. StatusSet(y, t, r, w) BY <1>2, <2>1, <2>2, SetStatusEffect
  <2>4. w.has_sim_ = inserted
    <3>1. Kept(y, w) BY <1>2, <2>1, <2>2, SetStatusGood
    <3>2. w.has_sim_ \in BOOLEAN BY <3>1 DEF Kept, Good, Weak, Bridge
    <3>3. inserted => w.has_sim_ BY <1>1, <2>2, <2>3 DEF StatusSet
    <3>4. ~inserted => ~w.has_sim_ BY <1>1, <2>2, <2>3 DEF StatusSet
    <3> QED BY <3>2, <3>3, <3>4
  <2>5. w.status_ \in Lost BY <2>2, <2>3 DEF StatusSet, Lost
  <2>6. Framed(x, w) BY <1>1, <2>3, AlikeLaws DEF StatusSet
  <2>7. ~Blank(w) /\ ~Registered(w) BY <2>5 DEF Blank, Registered, Lost
  <2>8. /\ x.network_ => w.network_
        /\ w.network_ => x.network_ \/ r.net = "error"
    BY <1>1, <2>2, <2>3 DEF StatusSet, Lost
  <2> QED BY <1>1, <2>3, <2>4, <2>6, <2>7, <2>8 DEF PresentSet, StatusSet
<1> QED BY <1>4, <1>5

\* What setup_sim leaves behind.
SimSet(x, r, y) ==
  /\ Framed(x, y) /\ y.sim_ # None
  /\ Blank(y) => Blank(x)
  /\ Registered(y) => Registered(x)
  /\ x.network_ => y.network_
  /\ y.network_ => x.network_ \/ r.net = "error"
  /\ r.sim = "error" => y.sim_ = "idle" /\ y.has_sim_ = x.has_sim_
  /\ r.sim # "error" => y.sim_ = "live" /\ y.has_sim_ = (r.sim = "present")

\* setup_sim (777-816).
LEMMA SetupSimEffect ==
  ASSUME NEW x, Good(x), x.modem_ # None, NEW r \in Reply
  PROVE  SimSet(x, r, setup_sim(x, r))
<1> DEFINE y == [x EXCEPT !.sim_ = "idle"]
           m == sim_mcc(y)
           from == IF r.sim = "present" THEN m ELSE y
           there == r.sim = "present"
           z == sim_present_by(LAMBDA br, s : set_status(br, s, r), from, there)
           c == [z EXCEPT !.sim_ = "live"]
           t == setup_stk(c, r)
           w == setup_sim(x, r)
<1> SUFFICES SimSet(x, r, w) OBVIOUS
<1>1. /\ Kept(x, y) /\ Framed(x, y) /\ y.sim_ = "idle"
      /\ y.network_ = x.network_ /\ y.has_sim_ = x.has_sim_
      /\ y.status_ = x.status_
  BY SimProxyGood DEF Good, Weak, Bridge, Framed
<1>2. "idle" # None /\ "live" # None BY DEF None
<1>3. CASE r.sim = "error"
  <2>1. w = y BY <1>3 DEF setup_sim, setup_sim_by
  <2> HIDE DEF y, w
  <2> QED BY <1>1, <1>2, <1>3, <2>1 DEF SimSet, Blank, Registered
<1>4. CASE r.sim # "error"
  <2>0. w \in {c, t}
    <3>1. CASE r.sim = "present" BY <1>4, <3>1 DEF setup_sim, setup_sim_by
    <3>2. CASE r.sim # "present" BY <1>4, <3>2 DEF setup_sim, setup_sim_by
    <3> QED BY <3>1, <3>2
  <2> HIDE DEF y, w
  <2>1. Good(y) /\ y \in Bridge /\ y.sim_ # None
    BY <1>1, <1>2, KeptLaws DEF Good, Weak
  <2>2. Good(m) BY <2>1, NetPublishedGood, KeptLaws
  <2>3. Alike(y, m) BY <2>1, PublishedAlike
  <2> HIDE DEF m
  <2>4. Good(from) /\ Alike(y, from) BY <2>1, <2>2, <2>3, AlikeLaws
  <2> HIDE DEF from
  <2>5. there \in BOOLEAN OBVIOUS
  <2>6. from.sim_ # None BY <2>1, <2>4 DEF Alike, SameRadio
  <2>7. Good(z) /\ PresentSet(from, there, r, z)
    <3> HIDE DEF there
    <3>1. Kept(from, z) BY <2>4, <2>5, SimPresent1
    <3>2. PresentSet(from, there, r, z) BY <2>4, <2>5, <2>6, SimPresentEffect
    <3> QED BY <3>1, <3>2, KeptLaws
  <2> HIDE DEF z
  <2>8. /\ c \in Bridge /\ Framed(z, c) /\ c.sim_ = "live"
        /\ c.network_ = z.network_ /\ c.has_sim_ = z.has_sim_
        /\ c.status_ = z.status_
    BY <2>7 DEF Good, Weak, Bridge, Framed, ProxyState
  <2> HIDE DEF c
  <2>9. Alike(c, t) BY <2>8, StkAlike
  <2> HIDE DEF t
  <2>10. Alike(c, w) BY <2>0, <2>9, AlikeLaws
  <2>11. Framed(x, w)
    BY <1>1, <2>4, <2>7, <2>8, <2>10, AlikeLaws DEF Alike, PresentSet
  <2>12. /\ w.sim_ = "live" /\ w.has_sim_ = there /\ ~Blank(w)
    BY <2>7, <2>8, <2>10 DEF Alike, SameRadio, PresentSet, Blank
  <2>13. /\ Registered(w) => Registered(x)
         /\ x.network_ => w.network_
         /\ w.network_ => x.network_ \/ r.net = "error"
    BY <1>1, <2>4, <2>7, <2>8, <2>10
       DEF Alike, SameRadio, PresentSet, Registered
  <2> QED BY <1>2, <1>4, <2>11, <2>12, <2>13 DEF SimSet
<1> QED BY <1>3, <1>4

\* reset_sim (444-452): it may set up the SIM again, never the network.
LEMMA ResetSimEffect ==
  ASSUME NEW x, Good(x), NEW r \in Reply
  PROVE  LET y == reset_sim(x, r)
         IN  Framed(x, y) /\ ~y.network_ /\ y.status_ \in Lost
<1> DEFINE y == [x EXCEPT !.operator_ = FALSE, !.network_ = FALSE, !.sim_ = None]
           z == set_status(y, "NoSim", r)
           w == resetProperties(z, TRUE)
<1>1. Good(y) BY DropSimGood
<1>2. Framed(x, y) /\ ~y.network_ /\ y.sim_ = None
  BY DEF Good, Weak, Bridge, Framed
<1> HIDE DEF y
<1>3. /\ Good(z) /\ StatusSet(y, "NoSim", r, z)
  BY <1>1, SetStatusGood, SetStatusEffect, KeptLaws DEF Good, Status
<1>4. reset_sim(x, r) = w BY DEF reset_sim, w, z, y
<1> HIDE DEF z
<1>5. Alike(z, w) BY <1>3, PublishedAlike DEF Good, Weak
<1> HIDE DEF w
<1>6. Framed(x, z) /\ ~z.network_ /\ z.status_ \in Lost
  BY <1>2, <1>3, AlikeLaws DEF StatusSet, Lost
<1> QED BY <1>4, <1>5, <1>6, AlikeLaws DEF Alike, SameRadio

----------------------------------------------------------------------------
(* The modem's lists of interfaces.                                        *)

\* The list of interfaces ifs makes of x's connection manager that of y.
ContextsRead(x, faces, r, y) ==
  /\ "ConnectionManager" \in faces \ x.interfaces_ =>
       /\ y.connectionManager_
       /\ r.cm = "all" => \A c \in Contexts :
            y.connectionContexts_[c] = IF r.ctx[c] = "absent"
                                       THEN x.connectionContexts_[c]
                                       ELSE r.ctx[c]
  /\ "ConnectionManager" \in faces \cap x.interfaces_ =>
       /\ y.connectionManager_ = x.connectionManager_
       /\ y.connectionContexts_ = x.connectionContexts_
  /\ \A c \in Contexts :
       y.connectionContexts_[c] \in {x.connectionContexts_[c], r.ctx[c], "absent"}

\* The same modem, the same radio.
SameModem(x, y) ==
  y.manager_ = x.manager_ /\ y.modem_ = x.modem_ /\ y.interfaces_ = x.interfaces_

\* The connection manager's functions (471-514, 691-759).
LEMMA ProcessCmEffect ==
  ASSUME NEW x, Good(x), NEW faces, NEW r \in Reply
  PROVE  LET y == process_cm(x, faces, r)
         IN  /\ SameModem(x, y) /\ SameRadio(x, y)
             /\ ContextsRead(x, faces, r, y)
<1> DEFINE set == [x EXCEPT !.connectionManager_ = TRUE]
           cm == [set EXCEPT !.pub.DataRoamingAllowed = "1"]
           kinds == [c \in Contexts |-> IF r.ctx[c] = "absent"
                                        THEN x.connectionContexts_[c] ELSE r.ctx[c]]
           all == update_mms_context([cm EXCEPT !.connectionContexts_ = kinds])
           reset == reset_connectionManager(x)
           Same(y) == SameModem(x, y) /\ SameRadio(x, y)
           w == process_cm(x, faces, r)
<1>0. /\ x \in Bridge /\ x.connectionContexts_ \in [Contexts -> ContextKind]
      /\ r.ctx \in [Contexts -> ContextKind]
  BY DEF Good, Weak, Bridge, Reply
<1>1. /\ Same(set) /\ set.connectionManager_ /\ set \in Bridge
      /\ set.connectionContexts_ = x.connectionContexts_
  BY <1>0 DEF SameModem, SameRadio, Bridge
<1>2. /\ Same(cm) /\ cm.connectionManager_ /\ DOMAIN cm = DOMAIN x
      /\ cm.connectionContexts_ = x.connectionContexts_
  <2> HIDE DEF set
  <2> QED BY <1>0, <1>1 DEF SameModem, SameRadio, Bridge
<1>3. Same(all) /\ all.connectionManager_ /\ all.connectionContexts_ = kinds
  <2> HIDE DEF cm, kinds
  <2> QED BY <1>0, <1>2 DEF SameModem, SameRadio, Bridge, update_mms_context
<1>4. Same(reset) /\ reset.connectionContexts_ = NoContexts
  BY <1>0 DEF SameModem, SameRadio, Bridge, update_mms_context,
              reset_connectionManager
<1>5. Same(x) BY DEF SameModem, SameRadio
<1>6. CASE IsSet(x, faces, "ConnectionManager")
  <2>1. w = setup_connectionManager(x, r) BY <1>6 DEF process_cm
  <2>2. r.cm \in {"error", "props", "all"} BY DEF Reply
  <2>3. setup_connectionManager(x, r)
          = CASE r.cm = "error" -> set
              [] r.cm = "props" -> cm
              [] r.cm = "all"   -> IF r.ctx = NoContexts THEN cm ELSE all
    BY DEF setup_connectionManager
  <2>4. \/ r.cm # "all" /\ w \in {set, cm}
        \/ r.cm = "all" /\ r.ctx = NoContexts /\ w = cm
        \/ r.cm = "all" /\ r.ctx # NoContexts /\ w = all
    BY <2>1, <2>2, <2>3
  <2>5. \A c \in Contexts : /\ kinds[c] \in {x.connectionContexts_[c], r.ctx[c]}
                            /\ r.ctx = NoContexts => kinds[c] = x.connectionContexts_[c]
    BY DEF NoContexts
  <2>6. \A c \in Contexts : kinds[c] = IF r.ctx[c] = "absent"
                                       THEN x.connectionContexts_[c] ELSE r.ctx[c]
    OBVIOUS
  <2> HIDE DEF set, cm, all, kinds, w, Same
  <2>7. "ConnectionManager" \in faces \ x.interfaces_ BY <1>6 DEF IsSet
  <2>8. Same(w) /\ w.connectionManager_ BY <1>1, <1>2, <1>3, <2>4
  <2>9. w.connectionContexts_ \in {x.connectionContexts_, kinds}
    BY <1>1, <1>2, <1>3, <2>4
  <2>10. ASSUME r.cm = "all", NEW c \in Contexts
         PROVE  w.connectionContexts_[c] = kinds[c]
    BY <1>2, <1>3, <2>4, <2>5, <2>10
  <2>11. ContextsRead(x, faces, r, w)
    BY <2>5, <2>6, <2>7, <2>8, <2>9, <2>10 DEF ContextsRead
  <2> QED BY <2>8, <2>11 DEF w, Same
<1>7. CASE IsReset(x, faces, "ConnectionManager")
  <2>1. w = reset BY <1>7 DEF process_cm, IsSet, IsReset
  <2>2. \A c \in Contexts : NoContexts[c] = "absent" BY DEF NoContexts
  <2> HIDE DEF reset, w
  <2> QED BY <1>4, <1>7, <2>1, <2>2 DEF ContextsRead, IsReset, w
<1>8. CASE ~IsSet(x, faces, "ConnectionManager") /\ ~IsReset(x, faces, "ConnectionManager")
  <2>1. w = x BY <1>8 DEF process_cm
  <2> HIDE DEF w
  <2> QED BY <1>5, <1>8, <2>1 DEF ContextsRead, IsSet, w
<1> QED BY <1>6, <1>7, <1>8

\* What the network of x becomes when the list of interfaces is faces.
NetworkRead(x, faces, r, y) ==
  /\ Framed(x, y)
  /\ Blank(y) => Blank(x)
  /\ x.sim_ # None => y.sim_ = x.sim_ /\ y.has_sim_ = x.has_sim_
  /\ "NetworkRegistration" \notin faces =>
       (y.network_ => x.network_ \/ r.net = "error")
  /\ "NetworkRegistration" \in x.interfaces_ \ faces =>
       /\ y.status_ \in Lost
       /\ y.network_ => Blank(x)
  /\ "NetworkRegistration" \in faces \ x.interfaces_ =>
       (x.sim_ # None /\ x.has_sim_ =>
          y.network_ /\ (r.net # "error" => y.status_ = map_status(r.net)))
  /\ ("NetworkRegistration" \in faces <=> "NetworkRegistration" \in x.interfaces_)
       => SameRadio(x, y)

\* The network follows its interface: a list that has it again leaves it alone.
LEMMA ProcessNetworkEffect ==
  ASSUME NEW x, Good(x), x.modem_ # None, NEW faces, NEW r \in Reply
  PROVE  NetworkRead(x, faces, r, process_network(x, faces, r))
<1> DEFINE y == process_network(x, faces, r)
           NR == "NetworkRegistration"
<1> SUFFICES NetworkRead(x, faces, r, y) OBVIOUS
<1>1. CASE NR \in x.interfaces_ \ faces
  <2>1. y = reset_network(x, r) BY <1>1 DEF process_network, IsReset
  <2> HIDE DEF y
  <2>2. /\ Framed(x, y) /\ y.status_ \in Lost
        /\ y.network_ => r.net = "error" /\ Blank(x)
        /\ x.sim_ # None => y.sim_ = x.sim_ /\ y.has_sim_ = x.has_sim_
    BY <2>1, ResetNetworkEffect
  <2>3. ~Blank(y) BY <2>2 DEF Blank, Lost
  <2> QED BY <1>1, <2>2, <2>3 DEF NetworkRead
<1>2. CASE NR \in faces \ x.interfaces_
  <2>1. y = setup_network(x, r) BY <1>2 DEF process_network, IsReset, IsSet
  <2> HIDE DEF y
  <2> QED BY <1>2, <2>1, SetupNetworkEffect DEF NetworkRead
<1>3. CASE NR \in faces <=> NR \in x.interfaces_
  <2>1. y = x BY <1>3 DEF process_network, IsReset, IsSet
  <2> HIDE DEF y
  <2> QED BY <1>3, <2>1, AlikeLaws DEF NetworkRead, SameRadio
<1> QED BY <1>1, <1>2, <1>3

\* What process_interfaces leaves behind.
Processed(x, faces, r, y) ==
  LET NR == "NetworkRegistration"
      SM == "SimManager"
  IN  /\ y.manager_ = x.manager_ /\ y.modem_ = x.modem_
      /\ y.interfaces_ = faces
      /\ Blank(y) => Blank(x)
      /\ Registered(y) => NR \in faces \/ (Registered(x) /\ NR \notin x.interfaces_)
      /\ NR \in x.interfaces_ \ faces => (y.network_ => Blank(x))
      /\ NR \notin faces => (y.network_ => x.network_ \/ r.net = "error")
      /\ SM \in x.interfaces_ \cap faces /\ x.sim_ # None =>
           y.sim_ = x.sim_ /\ y.has_sim_ = x.has_sim_
      /\ SM \in faces \ x.interfaces_ =>
           /\ r.sim = "error" => y.sim_ = "idle"
           /\ r.sim # "error" => y.sim_ = "live" /\ y.has_sim_ = (r.sim = "present")
      /\ NR \in faces \ x.interfaces_ /\ SM \in faces
           /\ (SM \in x.interfaces_ => x.sim_ # None) =>
           (y.has_sim_ =>
              y.network_ /\ (r.net # "error" => y.status_ = map_status(r.net)))
      /\ NR \in faces \cap x.interfaces_ /\ SM \in faces \cap x.interfaces_
           => SameRadio(x, y)
      /\ SM \in faces => ContextsRead(x, faces, r, y)
      /\ \A c \in Contexts :
           y.connectionContexts_[c] \in {x.connectionContexts_[c], r.ctx[c], "absent"}

\* process_interfaces (471-514).
LEMMA ProcessInterfacesEffect ==
  ASSUME NEW x, Good(x), x.modem_ # None, NEW faces \in SUBSET Interfaces,
         NEW r \in Reply
  PROVE  Processed(x, faces, r, process_interfaces(x, faces, r))
<1> DEFINE NR == "NetworkRegistration"
           SM == "SimManager"
           lost == reset_sim(x, r)
           y == IF IsSet(x, faces, SM) THEN setup_sim(x, r) ELSE x
           n == process_network(y, faces, r)
           t == process_stk(n, faces, r)
           m == process_cm(t, faces, r)
           sim_lost == IsReset(x, faces, SM) /\ x.sim_ # None
           res == IF sim_lost THEN lost ELSE m
           w == [res EXCEPT !.interfaces_ = faces]
<1>1. process_interfaces(x, faces, r) = w BY DEF process_interfaces
<1>2. Good(res)
  <2>1. Kept(x, lost) BY ResetSimKept
  <2>2. Kept(x, y) BY SetupSim1, KeptLaws DEF setup_sim
  <2> HIDE DEF y, lost
  <2>3. Good(y) /\ y.modem_ # None /\ Kept(y, y) BY <2>2, KeptLaws
  <2>4. Kept(y, n)
    BY <2>3, ResetNetwork1, SetupNetwork1
    DEF process_network, reset_network, setup_network
  <2> HIDE DEF n
  <2>5. Good(n) /\ n.modem_ # None /\ Kept(n, n) BY <2>3, <2>4, KeptLaws
  <2>6. Kept(n, t) BY <2>5, SetupStkGood DEF process_stk
  <2> HIDE DEF t
  <2>7. Good(t) /\ t.modem_ # None /\ Kept(t, t) BY <2>5, <2>6, KeptLaws
  <2>8. Kept(t, m)
    BY <2>7, SetupConnectionManagerGood, ResetConnectionManagerGood DEF process_cm
  <2> HIDE DEF m
  <2> QED BY <2>1, <2>8, KeptLaws
<1>3. Good(y) /\ y.modem_ # None /\ Kept(x, y)
  <2>1. Kept(x, y) BY SetupSim1, KeptLaws DEF setup_sim
  <2> HIDE DEF y
  <2> QED BY <2>1, KeptLaws
<1>4. Good(n) /\ NetworkRead(y, faces, r, n)
  <2> HIDE DEF y
  <2>1. Kept(y, y) BY <1>3, KeptLaws
  <2>2. Kept(y, n)
    BY <1>3, <2>1, ResetNetwork1, SetupNetwork1
    DEF process_network, reset_network, setup_network
  <2>3. NetworkRead(y, faces, r, n) BY <1>3, ProcessNetworkEffect
  <2> HIDE DEF n
  <2> QED BY <2>2, <2>3, KeptLaws
<1>5. IF IsSet(x, faces, SM) THEN SimSet(x, r, y) ELSE y = x
  BY SetupSimEffect
<1> SUFFICES Processed(x, faces, r, w) BY <1>1
<1> HIDE DEF y, n
<1>6. Good(t) /\ Alike(n, t)
  <2>1. Kept(n, n) /\ n \in Bridge BY <1>4, KeptLaws DEF Good, Weak
  <2>2. Kept(n, t) BY <1>4, <2>1, SetupStkGood DEF process_stk
  <2>3. Alike(n, t) BY <2>1, StkAlike, AlikeLaws DEF process_stk
  <2> HIDE DEF t
  <2> QED BY <2>2, <2>3, KeptLaws
<1> HIDE DEF t
<1>7. SameModem(t, m) /\ SameRadio(t, m) /\ ContextsRead(t, faces, r, m)
  BY <1>6, ProcessCmEffect
<1>8. Framed(x, lost) /\ ~lost.network_ /\ lost.status_ \in Lost
  BY ResetSimEffect
<1> HIDE DEF m, lost
<1>9. /\ w.interfaces_ = faces
      /\ w.manager_ = res.manager_ /\ w.modem_ = res.modem_
      /\ SameRadio(res, w)
      /\ w.connectionManager_ = res.connectionManager_
      /\ w.connectionContexts_ = res.connectionContexts_
  <2> HIDE DEF res
  <2> QED BY <1>2 DEF Good, Weak, Bridge, SameModem, SameRadio
<1>10. CASE sim_lost
  <2>1. res = lost BY <1>10
  <2> HIDE DEF res, w
  <2>2. SM \in x.interfaces_ \ faces BY <1>10 DEF IsReset
  <2>3. /\ w.manager_ = x.manager_ /\ w.modem_ = x.modem_ /\ w.interfaces_ = faces
        /\ w.connectionContexts_ = x.connectionContexts_
        /\ ~w.network_ /\ w.status_ \in Lost
    BY <1>8, <1>9, <2>1 DEF Framed, SameRadio
  <2> QED BY <2>2, <2>3 DEF Processed, Lost, Blank, Registered
<1>11. CASE ~sim_lost
  <2>1. res = m BY <1>11
  <2> HIDE DEF res, w, sim_lost
  <2>2. /\ w.manager_ = n.manager_ /\ w.modem_ = n.modem_
        /\ w.interfaces_ = faces /\ SameRadio(n, w)
    BY <1>6, <1>7, <1>9, <2>1 DEF SameModem, SameRadio, Alike, Framed
  <2>3. n.manager_ = x.manager_ /\ n.modem_ = x.modem_ 
        /\ t.interfaces_ = x.interfaces_ /\ y.interfaces_ = x.interfaces_
        /\ t.connectionManager_ = x.connectionManager_
        /\ t.connectionContexts_ = x.connectionContexts_
    BY <1>4, <1>5, <1>6 DEF NetworkRead, SimSet, Alike, Framed
  <2>4. ContextsRead(x, faces, r, w)
    BY <1>7, <1>9, <2>1, <2>3 DEF ContextsRead
  <2>5. /\ Blank(w) => Blank(n)
        /\ Registered(w) <=> Registered(n)
        /\ w.network_ = n.network_ /\ w.sim_ = n.sim_
        /\ w.has_sim_ = n.has_sim_ /\ w.status_ = n.status_
    BY <2>2 DEF SameRadio, Blank, Registered
  <2>6. /\ Blank(y) => Blank(x)
        /\ Registered(y) => Registered(x)
        /\ x.network_ => y.network_
        /\ y.network_ => x.network_ \/ r.net = "error"
    BY <1>5 DEF SimSet
  <2>7. Blank(w) => Blank(x) BY <1>4, <2>5, <2>6 DEF NetworkRead
  <2>8. Registered(w) => NR \in faces \/ (Registered(x) /\ NR \notin x.interfaces_)
    <3>1. CASE NR \in faces BY <3>1
    <3>2. CASE NR \notin faces /\ NR \in x.interfaces_
      BY <1>4, <2>3, <2>5, <3>2 DEF NetworkRead, Registered, Lost
    <3>3. CASE NR \notin faces /\ NR \notin x.interfaces_
      BY <1>4, <2>3, <2>5, <2>6, <3>3 DEF NetworkRead, SameRadio, Registered
    <3> QED BY <3>1, <3>2, <3>3
  <2>9. /\ NR \in x.interfaces_ \ faces => (w.network_ => Blank(x))
        /\ NR \notin faces => (w.network_ => x.network_ \/ r.net = "error")
    BY <1>4, <2>3, <2>5, <2>6 DEF NetworkRead
  <2>10. SM \in x.interfaces_ \cap faces /\ x.sim_ # None =>
           w.sim_ = x.sim_ /\ w.has_sim_ = x.has_sim_
    BY <1>4, <1>5, <2>5 DEF NetworkRead, IsSet
  <2>11. SM \in faces \ x.interfaces_ =>
           /\ r.sim = "error" => w.sim_ = "idle"
           /\ r.sim # "error" => w.sim_ = "live" /\ w.has_sim_ = (r.sim = "present")
    BY <1>4, <1>5, <2>5 DEF NetworkRead, IsSet, SimSet
  <2>12. NR \in faces \ x.interfaces_ /\ SM \in faces
           /\ (SM \in x.interfaces_ => x.sim_ # None) =>
           (w.has_sim_ =>
              w.network_ /\ (r.net # "error" => w.status_ = map_status(r.net)))
    <3> SUFFICES ASSUME NR \in faces \ x.interfaces_, SM \in faces,
                        SM \in x.interfaces_ => x.sim_ # None, w.has_sim_
                 PROVE  w.network_ /\ (r.net # "error" => w.status_ = map_status(r.net))
      OBVIOUS
    <3>1. y.sim_ # None BY <1>5 DEF IsSet, SimSet
    <3>2. y.has_sim_ BY <1>4, <2>5, <3>1 DEF NetworkRead
    <3> QED BY <1>4, <2>3, <2>5, <3>1, <3>2 DEF NetworkRead
  <2>13. NR \in faces \cap x.interfaces_ /\ SM \in faces \cap x.interfaces_
           => SameRadio(x, w)
    BY <1>4, <1>5, <2>3, <2>5 DEF NetworkRead, SameRadio, IsSet
  <2>14. \A c \in Contexts :
           w.connectionContexts_[c] \in {x.connectionContexts_[c], r.ctx[c], "absent"}
    BY <2>4 DEF ContextsRead
  <2> QED BY <2>2, <2>3, <2>4, <2>7, <2>8, <2>9, <2>10, <2>11, <2>12, <2>13,
             <2>14 DEF Processed
<1> QED BY <1>10, <1>11

----------------------------------------------------------------------------
(* The handlers of the modem and of the manager.                           *)

\* y differs from x in the manager's and the modem's proxies alone.
SameObjects(x, y) ==
  /\ SameRadio(x, y)
  /\ y.interfaces_ = x.interfaces_
  /\ y.connectionManager_ = x.connectionManager_
  /\ y.connectionContexts_ = x.connectionContexts_

\* Without power and SIM the network is reset once more; it is as if nothing
\* had been listed.
LEMMA PoweredEffect ==
  ASSUME NEW x, NEW faces, NEW powered, NEW r \in Reply, NEW z,
         Good(z), Processed(x, faces, r, z), faces # {} => powered
  PROVE  Processed(x, faces, r, modem_powered(z, powered, r))
<1> DEFINE w == modem_powered(z, powered, r)
<1>1. CASE ~powered /\ z.sim_ = None
  <2>1. w = reset_sim(z, r) BY <1>1 DEF modem_powered
  <2>2. Framed(z, w) /\ ~w.network_ /\ w.status_ \in Lost BY <2>1, ResetSimEffect
  <2> HIDE DEF w
  <2>3. ~Blank(w) /\ ~Registered(w) BY <2>2 DEF Blank, Registered, Lost
  <2>4. faces = {} BY <1>1
  <2>5. Processed(x, faces, r, w) BY <2>2, <2>3, <2>4 DEF Processed, Framed
  <2> QED BY <2>5 DEF w
<1>2. CASE ~(~powered /\ z.sim_ = None)
  <2>1. w = z BY <1>2 DEF modem_powered
  <2> QED BY <2>1
<1> QED BY <1>1, <1>2

\* setup_modem (516-544), and connect_manager when there is a modem (579-601).
LEMMA SetupModemEffect ==
  ASSUME NEW x, Good(x), NEW mdm \in Modems, NEW faces \in SUBSET Interfaces,
         NEW powered, faces # {} => powered, NEW r \in Reply
  PROVE  /\ \E z : /\ SameObjects(x, z) /\ z.modem_ = mdm
                   /\ z.manager_ = x.manager_
                   /\ Processed(z, faces, r, setup_modem(x, mdm, faces, powered, r))
         /\ \E z : /\ SameObjects(x, z) /\ z.modem_ = mdm
                   /\ z.manager_ = "live"
                   /\ Processed(z, faces, r, connect_manager(x, mdm, faces, powered, r))
<1> DEFINE y == [x EXCEPT !.modem_ = mdm]
           v == [x EXCEPT !.modem_ = mdm, !.manager_ = "live"]
           u == process_interfaces(y, faces, r)
           z == modem_powered(u, powered, r)
           w == [z EXCEPT !.manager_ = "live"]
<1>1. x \in Bridge BY DEF Good, Weak
<1>2. /\ SameObjects(x, y) /\ y.modem_ = mdm /\ y.manager_ = x.manager_
      /\ SameObjects(x, v) /\ v.modem_ = mdm /\ v.manager_ = "live"
      /\ SameObjects(y, v)
  BY <1>1 DEF SameObjects, SameRadio, Bridge
<1>3. Good(y) /\ y.modem_ # None
  BY BridgeAssumption DEF Good, Weak, HonestStatus, OwnersKept, NoSimKept, Bridge
<1>4. setup_modem(x, mdm, faces, powered, r) = z
  BY DEF setup_modem
<1>5. connect_manager(x, mdm, faces, powered, r) = w
  BY <1>4 DEF connect_manager
<1> HIDE DEF y, v
<1>6. Processed(y, faces, r, z)
  <2>1. Processed(y, faces, r, u) BY <1>3, ProcessInterfacesEffect
  <2>2. Good(u) BY <1>3, ProcessInterfacesGood, KeptLaws
  <2> HIDE DEF u
  <2> QED BY <2>1, <2>2, PoweredEffect
<1>7. Good(z)
  <2>1. Good(u) BY <1>3, ProcessInterfacesGood, KeptLaws
  <2> HIDE DEF u
  <2> QED BY <2>1, ModemPoweredGood, KeptLaws
<1> HIDE DEF z
<1>8. SameObjects(z, w) /\ w.modem_ = z.modem_ /\ w.manager_ = "live"
  BY <1>7 DEF SameObjects, SameRadio, Good, Weak, Bridge
<1> HIDE DEF w
<1>9. Processed(v, faces, r, w)
  BY <1>2, <1>6, <1>8 DEF SameObjects, SameRadio, Processed, Blank, Registered,
                          ContextsRead
<1> QED BY <1>2, <1>4, <1>5, <1>6, <1>9

\* reset_modem (464-469): the interfaces stay as they were.
LEMMA ResetModemEffect ==
  ASSUME NEW x, Good(x), NEW r \in Reply
  PROVE  LET y == reset_modem(x, r)
         IN  /\ y.manager_ = x.manager_ /\ y.modem_ = None
             /\ y.interfaces_ = x.interfaces_
             /\ y.sim_ = None /\ ~y.network_ /\ ~y.connectionManager_
             /\ y.status_ \in Lost
<1> DEFINE z == [x EXCEPT !.modem_ = None]
           c == reset_connectionManager(z)
           d == [c EXCEPT !.operator_ = FALSE, !.network_ = FALSE, !.sim_ = None]
           s == set_status(d, "NoSim", r)
           w == resetProperties(s, TRUE)
           y == reset_modem(x, r)
<1>0. x \in Bridge BY DEF Good, Weak
<1>1. /\ c.manager_ = x.manager_ /\ c.modem_ = None
      /\ c.interfaces_ = x.interfaces_
      /\ DOMAIN c = DOMAIN x
  BY <1>0 DEF reset_connectionManager, update_mms_context, Bridge
<1>2. y = w BY DEF reset_modem, reset_sim
<1> HIDE DEF c
<1>3. /\ d.manager_ = x.manager_ /\ d.modem_ = None
      /\ d.interfaces_ = x.interfaces_ /\ ~d.network_ /\ d.sim_ = None
  BY <1>0, <1>1 DEF Bridge
<1>4. Good(d)
  <2> DEFINE p == [x.pub EXCEPT !.MMSContext = 0]
             e == [x EXCEPT !.modem_ = None, !.operator_ = FALSE,
                            !.network_ = FALSE, !.sim_ = None,
                            !.connectionManager_ = FALSE,
                            !.connectionContexts_ = NoContexts,
                            !.mmsContext_ = 0, !.pub = p]
  <2>1. p \in Published /\ p.MMSContext = 0
        /\ p.RegistrationStatus = x.pub.RegistrationStatus
    BY <1>0 DEF Bridge, Published
  <2>2. c = [x EXCEPT !.modem_ = None, !.connectionManager_ = FALSE,
                      !.connectionContexts_ = NoContexts,
                      !.mmsContext_ = 0, !.pub = p]
    BY <1>0, NoContextsMms
       DEF c, reset_connectionManager, update_mms_context, Bridge
  <2> HIDE DEF p
  <2>3. d = e BY <1>0, <2>2 DEF Bridge
  <2>4. Good(e)
    BY <1>0, <2>1, NoContextsMms DEF Good, Weak, HonestStatus, OwnersKept,
           NoSimKept, Bridge, ProxyState
  <2> HIDE DEF d, e
  <2> QED BY <2>3, <2>4
<1> HIDE DEF d
<1>5. Good(s) /\ StatusSet(d, "NoSim", r, s)
  BY <1>4, SetStatusGood, SetStatusEffect, KeptLaws DEF Good, Status
<1>6. s.modem_ = None /\ s.manager_ = x.manager_ /\ s.interfaces_ = x.interfaces_
      /\ ~s.network_ /\ s.status_ \in Lost
  BY <1>3, <1>5 DEF StatusSet, Framed, Lost
<1>7. s.sim_ = None /\ ~s.connectionManager_
  BY <1>5, <1>6 DEF Good, Weak, OwnersKept
<1> HIDE DEF s
<1>8. Alike(s, w) BY <1>5, PublishedAlike DEF Good, Weak
<1> HIDE DEF w, y
<1> QED BY <1>2, <1>6, <1>7, <1>8 DEF Alike, Framed, SameRadio, y

\* The signals of the manager's name.
LEMMA ManagerEffect ==
  ASSUME NEW x, Good(x)
  PROVE  /\ LET y == reset_manager(x)
            IN  /\ SameObjects(x, y) /\ y.modem_ = x.modem_ /\ y.manager_ = None
                /\ y.pub.RegistrationStatus = "offline"
         /\ LET y == [x EXCEPT !.manager_ = "idle"]
            IN  /\ SameObjects(x, y) /\ y.modem_ = x.modem_ /\ y.manager_ = "idle"
                /\ y.pub = x.pub
<1>0. x \in Bridge BY DEF Good, Weak
<1>1. LET y == reset_manager(x)
      IN  /\ SameObjects(x, y) /\ y.modem_ = x.modem_ /\ y.manager_ = None
          /\ y.pub.RegistrationStatus = "offline"
  <2>1. [defaults_ EXCEPT !.RegistrationStatus = IF FALSE THEN "no-sim" ELSE @].RegistrationStatus = "offline"
    BY DEF defaults_
  <2> QED BY <1>0, <2>1 DEF Bridge, SameObjects, SameRadio, reset_manager, resetProperties
<1>2. LET y == [x EXCEPT !.manager_ = "idle"]
      IN  /\ SameObjects(x, y) /\ y.modem_ = x.modem_ /\ y.manager_ = "idle"
          /\ y.pub = x.pub
  BY <1>0 DEF Bridge, SameObjects, SameRadio
<1> QED BY <1>1, <1>2

----------------------------------------------------------------------------

Inv == Good(b) /\ Owned(b)

\* The bridge starts in the invariant.
LEMMA InitInv == Init => Inv
<1> SUFFICES ASSUME Init PROVE Good(b) /\ Owned(b) BY DEF Inv
<1>1. b \in Bridge
  BY DefaultsType, NoContextsMms
  DEF Init, InitBridge, Bridge, ProxyState, Status
<1>2. defaults_.RegistrationStatus \notin Known /\ defaults_.MMSContext = 0
  BY DEF defaults_, Known
<1>3. Owned(b) BY DEF Init, InitBridge, Owned
<1> QED BY <1>1, <1>2, <1>3, NoContextsMms
    DEF Init, InitBridge, Good, Weak, HonestStatus, OwnersKept, NoSimKept

\* Every event the bridge handles keeps Good; what is shown follows the bridge,
\* except that reset_manager shows the defaults whatever the status is
\* (818-823).
LEMMA NextGood ==
  ASSUME Good(b), [Next]_b
  PROVE  /\ Good(b)'
         /\ Follows(b, b') \/ (b'.status_ = b.status_ /\ Owned(b)')
<1>0. Replies \subseteq Reply /\ InterfaceSets \subseteq SUBSET Interfaces
  BY BridgeAssumption
<1> USE <1>0
<1>k. ASSUME Kept(b, b') PROVE Good(b)' /\ Follows(b, b')
  BY <1>k DEF Kept
<1>m. ASSUME NEW x, Good(x), NEW p \in ProxyState
      PROVE  LET y == [x EXCEPT !.manager_ = p]
             IN  Good(y) /\ Follows(x, y) /\ Kept(x, y)
  BY <1>m, BookkeepingGood DEF Kept
<1>1. CASE ConnectManagerNoModem
  BY <1>1, <1>m DEF ConnectManagerNoModem, ProxyState
<1>2. CASE ConnectManagerOtherModem
  BY <1>2, <1>m DEF ConnectManagerOtherModem, ProxyState
<1>3. CASE ConnectManager
  <2>1. PICK m \in Modems, faces \in InterfaceSets, powered \in BOOLEAN, r \in Replies :
          b' = connect_manager(b, m, faces, powered, r)
    BY <1>3 DEF ConnectManager
  <2> DEFINE y == setup_modem(b, m, faces, powered, r)
  <2>2. Good(y) /\ Follows(b, y) BY SetupModemGood
  <2>3. b' = [y EXCEPT !.manager_ = "live"] BY <2>1 DEF connect_manager
  <2> HIDE DEF y
  <2>4. Good(b') /\ Follows(y, b') BY <2>2, <2>3, <1>m DEF ProxyState
  <2> QED BY <2>2, <2>4 DEF Follows
<1>4. CASE ResetManager
  <2> DEFINE y == [b EXCEPT !.manager_ = None]
  <2>1. Good(y) BY <1>m DEF ProxyState
  <2>2. y.status_ = b.status_ BY DEF Good, Weak, Bridge
  <2>3. b' = resetProperties(y, FALSE) BY <1>4 DEF ResetManager, reset_manager
  <2> HIDE DEF y
  <2> QED BY <2>1, <2>2, <2>3, ResetPropertiesGood
<1>5. CASE ModemAdded
  <2>1. PICK m \in Modems, faces \in InterfaceSets, powered \in BOOLEAN, r \in Replies :
          b' = setup_modem(b, m, faces, powered, r)
    BY <1>5 DEF ModemAdded
  <2> QED BY <2>1, SetupModemGood
<1>6. CASE ModemRemoved
  <2>1. PICK r \in Replies : b' = reset_modem(b, r) BY <1>6 DEF ModemRemoved
  <2>2. Good(b)' /\ Owned(b)' /\ Exact(b)' BY <2>1, ResetModemGood
  <2> QED BY <2>2 DEF Follows
<1>7. CASE InterfacesChanged
  BY <1>7, <1>k, ProcessInterfacesGood DEF InterfacesChanged
<1>8. CASE PoweredChanged BY <1>8, <1>k, ModemPoweredGood DEF PoweredChanged
<1>9. CASE SimPresentChanged
  <2>1. PICK inserted \in BOOLEAN, r \in Replies :
          b' = sim_present_by(LAMBDA x, s : set_status(x, s, r), b, inserted)
    BY <1>9 DEF SimPresentChanged
  <2>2. r \in Reply OBVIOUS
  <2>3. Kept(b, b') BY <2>1, <2>2, SimPresent1
  <2> QED BY <2>3, <1>k
<1>10. CASE SimMccChanged
  <2>1. b.sim_ # None BY <1>10 DEF SimMccChanged, None
  <2>2. Kept(b, b') BY <1>10, <2>1, NetPublishedGood DEF SimMccChanged
  <2> QED BY <2>2, <1>k
<1>11. ASSUME NEW n, NEW v, NEW r \in Replies, NetValue(n, v),
              b' = net_update(b, n, v, r)
       PROVE  Good(b)' /\ Follows(b, b')
  <2>1. r \in Reply OBVIOUS
  <2>2. Kept(b, b') BY <1>11, <2>1, NetUpdate1 DEF net_update
  <2> QED BY <2>2, <1>k
<1>12. CASE NetworkNameChanged
  <2>1. PICK n \in {"", "net"}, r \in Replies : b' = net_update(b, "Name", n, r)
    BY <1>12 DEF NetworkNameChanged
  <2>2. NetValue("Name", n) BY DEF NetValue
  <2> QED BY <1>11, <2>1, <2>2
<1>13. CASE NetworkStatusChanged
  <2>1. PICK s \in NetStatuses, r \in Replies : b' = net_update(b, "Status", s, r)
    BY <1>13 DEF NetworkStatusChanged
  <2>2. NetValue("Status", s) BY DEF NetValue
  <2> QED BY <1>11, <2>1, <2>2
<1>14. CASE NetworkTechnologyChanged
  <2>1. PICK r \in Replies : b' = net_update(b, "Technology", "lte", r)
    BY <1>14 DEF NetworkTechnologyChanged
  <2>2. NetValue("Technology", "lte") BY DEF NetValue
  <2> QED BY <1>11, <2>1, <2>2
<1>15. CASE OperatorNameChanged
  <2>1. PICK r \in Replies :
          b' = operator_update_by(LAMBDA x, s : set_status(x, s, r), b)
    BY <1>15 DEF OperatorNameChanged
  <2>2. r \in Reply OBVIOUS
  <2>3. Kept(b, b') BY <2>1, <2>2, OperatorUpdate1
  <2> QED BY <2>3, <1>k
<1>16. CASE StkTextChanged
  <2>1. b.stk_ # None BY <1>16 DEF StkTextChanged, None
  <2>2. Kept(b, b') BY <1>16, <2>1, SetupStkGood DEF StkTextChanged
  <2> QED BY <2>2, <1>k
<1>17. CASE RoamingAllowedChanged
  <2>1. PICK v \in {"0", "1"} : b' = [b EXCEPT !.pub.DataRoamingAllowed = v]
    BY <1>17 DEF RoamingAllowedChanged
  <2>2. Kept(b, b') BY <2>1, NetPublishedGood
  <2> QED BY <2>2, <1>k
<1>18. CASE ContextAdded
  <2>1. PICK c \in Contexts, k \in ContextKind \ {"absent"} :
          b' = update_mms_context([b EXCEPT !.connectionContexts_[c] = k])
    BY <1>18 DEF ContextAdded
  <2>2. Kept(b, b') BY <1>18, <2>1, ContextsGood DEF ContextAdded
  <2> QED BY <2>2, <1>k
<1>19. CASE ContextRemoved
  <2>1. PICK c \in Contexts :
          b' = update_mms_context([b EXCEPT !.connectionContexts_[c] = "absent"])
    BY <1>19 DEF ContextRemoved
  <2>2. Kept(b, b')
    BY <1>19, <2>1, ContextsGood DEF ContextRemoved, ContextKind
  <2> QED BY <2>2, <1>k
<1>20. CASE ContextChanged
  <2>1. PICK c \in Contexts, k \in ContextKind \ {"absent"} :
          /\ b.connectionContexts_[c] # "absent"
          /\ b' = update_mms_context([b EXCEPT !.connectionContexts_[c] = k])
    BY <1>20 DEF ContextChanged
  <2>2. b.connectionManager_
    BY <2>1 DEF Good, Weak, OwnersKept, Bridge, NoContexts
  <2>3. Kept(b, b') BY <2>1, <2>2, ContextsGood
  <2> QED BY <2>3, <1>k
<1>21. CASE UNCHANGED b
  <2>1. Kept(b, b') BY <1>21, KeptLaws
  <2> QED BY <2>1, <1>k
<1> QED
  BY <1>1, <1>2, <1>3, <1>4, <1>5, <1>6, <1>7, <1>8, <1>9, <1>10, <1>12, <1>13,
     <1>14, <1>15, <1>16, <1>17, <1>18, <1>19, <1>20, <1>21 DEF Next

\* Every event the bridge handles keeps the invariant.
LEMMA NextInv == Inv /\ [Next]_b => Inv'
<1> SUFFICES ASSUME Good(b), Owned(b), [Next]_b PROVE Good(b)' /\ Owned(b)'
  BY DEF Inv
<1>1. Good(b)' /\ (Follows(b, b') \/ Owned(b)') BY NextGood
<1> QED BY <1>1 DEF Follows

\* The invariant holds in every reachable state.
THEOREM InvHolds == Spec => []Inv
<1>1. Init => Inv BY InitInv
<1>2. Inv /\ [Next]_b => Inv' BY NextInv
<1> QED BY <1>1, <1>2, PTL DEF Spec

\* Every field of the bridge keeps its type.
THEOREM TypeCorrect == Spec => []TypeOK
<1>1. Inv => TypeOK BY DEF Inv, Good, Weak, TypeOK
<1> QED BY <1>1, InvHolds, PTL

\* Without a SIM the bridge never keeps the status of a network (has_sim_
\* and status_, 375-388 and 782-790).
THEOREM NoSimStatusHolds == Spec => []NoSimStatus
<1>1. Inv => NoSimStatus BY DEF Inv, Good, NoSimKept, NoSimStatus
<1> QED BY <1>1, InvHolds, PTL

\* Once its modem is removed the bridge holds no proxy of the modem's SIM,
\* network, operator or connection manager, even if set_status ran while it was
\* being removed; the SIM toolkit's proxy stays (435-452).
THEOREM NoModemNoProxiesHolds == Spec => []NoModemNoProxies
<1>1. Inv => NoModemNoProxies
  BY NoContextsMms DEF Inv, Good, Weak, OwnersKept, NoModemNoProxies
<1> QED BY <1>1, InvHolds, PTL

\* An operator's proxy exists only with the network registration and the
\* SIM (444-459, 546-573).
THEOREM OperatorOwnersHolds == Spec => []OperatorOwners
<1>1. Inv => OperatorOwners
  BY DEF Inv, Good, Weak, OwnersKept, OperatorOwners
<1> QED BY <1>1, InvHolds, PTL

\* What is shown as "home", "roam" or "forbidden" is the bridge's status,
\* and there is a SIM (375-402, 818-823).
THEOREM RegistrationHonestHolds == Spec => []RegistrationHonest
<1>1. Inv => RegistrationHonest
  BY DEF Inv, Good, Weak, HonestStatus, NoSimKept, Known, RegistrationHonest, Bridge
<1> QED BY <1>1, InvHolds, PTL

\* The MMS context is the first one the connection manager still offers,
\* or none, after any sequence of additions, changes and resets (421-433).
THEOREM MmsContextLiveHolds == Spec => []MmsContextLive
<1>1. Inv => MmsContextLive
  BY DEF Inv, Good, Weak, OwnersKept, MmsContextLive
<1> QED BY <1>1, InvHolds, PTL

\* The SIM's home network and the toolkit's text are shown only while the
\* proxy that reports them is there, however it was lost (444-469, 659-664).
THEOREM PublishedOwnersHolds == Spec => []PublishedOwners
<1>1. Inv => PublishedOwners BY DEF Inv, Owned, PublishedOwners
<1> QED BY <1>1, InvHolds, PTL

\* A step that changes the status shows its word, or "no-sim", even when
\* set_status ran again inside itself before the step ended (375-419).
THEOREM StatusChangesShownHolds == Spec => StatusChangesShown
<1>1. Inv /\ [Next]_b
        => [b'.status_ # b.status_ =>
              b'.pub.RegistrationStatus \in {ckit_status_[b'.status_], "no-sim"}]_b
  <2> SUFFICES ASSUME Good(b), [Next]_b, b'.status_ # b.status_
               PROVE  b'.pub.RegistrationStatus
                        \in {ckit_status_[b'.status_], "no-sim"}
    BY DEF Inv
  <2>1. Follows(b, b') BY NextGood
  <2> QED BY <2>1 DEF Follows, Exact
<1> QED BY <1>1, InvHolds, PTL DEF Spec, StatusChangesShown

----------------------------------------------------------------------------
(* The bridge beside a daemon.  A signal in the queue was sent for a       *)
(* proxy, and most of the actions of OfonoBridge need that proxy when it   *)
(* is delivered.  It is there because whoever drops a proxy drops its      *)
(* signals (Waiting).                                                      *)

Message == [on : {"Init", "NameOwnerChanged"}, path : {None}, val : BOOLEAN]
      \cup [on : {"ModemAdded", "Interfaces"}, path : Modems, val : InterfaceSets]
      \cup [on : {"ModemRemoved"}, path : Modems, val : {{}}]
      \cup [on : {"Powered", "Present"}, path : Modems, val : BOOLEAN]
      \cup [on : {"Status"}, path : Modems, val : NetStatuses]
      \cup [on : {"Context"}, path : Contexts, val : ContextKind \ {"plain"}]

DaemonOK == /\ up \in BOOLEAN /\ present \in BOOLEAN
            /\ modem \in Modems \cup {None}
            /\ ifs \in InterfaceSets
            /\ net \in NetStatuses
            /\ ctx \in DaemonContexts
            /\ listed \in [modem : Modems \cup {None}, ifs : InterfaceSets]
            /\ listed # NotListed => listed.modem # None

\* every signal that waits is for a proxy of the bridge x
Waiting(x, s) == /\ s \in Seq(Message)
                 /\ \A i \in 1..Len(s) : Subscribed(x, s[i])

SystemInv == DaemonOK /\ Waiting(b, q)
----------------------------------------------------------------------------

\* Signals that are selected for their proxies wait for them.
LEMMA SelectWaiting ==
  ASSUME NEW x, NEW s \in Seq(Message), NEW keep,
         \A i \in keep : Subscribed(x, s[i])
  PROVE  Waiting(x, SelectAt(s, keep))
<1> DEFINE out == SelectAt(s, keep)
<1>1. out \in Seq(Message) BY LeftIsLeft
<1>2. PICK at : IsLeft(s, keep, Len(s), out, at) BY LeftIsLeft
<1> HIDE DEF out
<1>3. \A i \in 1..Len(out) : Subscribed(x, out[i]) BY <1>2 DEF IsLeft
<1>4. Waiting(x, out) BY <1>1, <1>3 DEF Waiting
<1> QED BY <1>4 DEF out

\* The bridge hears only signals of proxies it has.
LEMMA HeardWaiting ==
  ASSUME NEW x, NEW s \in Seq(Message)
  PROVE  Waiting(x, Heard(x, s))
<1> DEFINE keep == {i \in 1..Len(s) : Subscribed(x, s[i])}
<1>1. Heard(x, s) = SelectAt(s, keep) BY DEF Heard
<1>2. \A i \in keep : Subscribed(x, s[i]) OBVIOUS
<1> HIDE DEF keep
<1> QED BY <1>1, <1>2, SelectWaiting

\* What is sent joins what waits.
LEMMA SendWaiting ==
  ASSUME Waiting(b, q), NEW s \in Seq(Message), Send(s), b' = b
  PROVE  Waiting(b, q)'
<1> DEFINE keep == {i \in 1..Len(s) : Subscribed(b, s[i])} \ {i \in 1..Len(s) : Unheard(s[i])}
           h == SelectAt(s, keep)
<1>1. \A i \in keep : Subscribed(b, s[i]) OBVIOUS
<1>2. q' = q \o h BY DEF Send
<1> HIDE DEF keep
<1>3. Waiting(b, h) BY <1>1, SelectWaiting
<1> HIDE DEF h
<1>4. q \in Seq(Message) /\ h \in Seq(Message) BY <1>3 DEF Waiting
<1>5. /\ q' \in Seq(Message)
      /\ \A i \in 1..Len(q') : \/ i \in 1..Len(q) /\ q'[i] = q[i]
                               \/ i - Len(q) \in 1..Len(h) /\ q'[i] = h[i - Len(q)]
  BY <1>2, <1>4
<1>6. \A i \in 1..Len(q') : Subscribed(b, q'[i])
  BY <1>3, <1>5 DEF Waiting
<1>7. Waiting(b, q') BY <1>5, <1>6 DEF Waiting
<1> QED BY <1>7

\* A signal and two signals make sequences of signals.
LEMMA Messages ==
  ASSUME NEW m \in Message, NEW n \in Message
  PROVE  <<m>> \in Seq(Message) /\ <<m, n>> \in Seq(Message)
OBVIOUS

\* What the daemon sends is well formed.
LEMMA SignalTypes ==
  /\ \A v \in BOOLEAN : Signal("Init", None, v) \in Message
                     /\ Signal("NameOwnerChanged", None, v) \in Message
  /\ \A m \in Modems : /\ \A v \in InterfaceSets : Signal("ModemAdded", m, v) \in Message
                                                /\ Signal("Interfaces", m, v) \in Message
                       /\ Signal("ModemRemoved", m, {}) \in Message
                       /\ \A v \in BOOLEAN : Signal("Powered", m, v) \in Message
                                          /\ Signal("Present", m, v) \in Message
                       /\ \A v \in NetStatuses : Signal("Status", m, v) \in Message
  /\ \A c \in Contexts, k \in ContextKind \ {"plain"} : Signal("Context", c, k) \in Message
BY DEF Signal, Message

\* What a call returns now is an answer the bridge may get.
LEMMA SnapshotReplies == DaemonOK => snapshot \in Replies
<1> SUFFICES ASSUME DaemonOK PROVE snapshot \in Replies OBVIOUS
<1> DEFINE offered == {id \in ifs : Offers(id)}
<1>1. offered = ifs \/ offered = {} BY DEF Offers
<1>2. offered \in InterfaceSets BY <1>1, SystemAssumption DEF DaemonOK
<1> HIDE DEF offered
<1>3. Answers(offered, present, net, ctx) \in Replies
  BY <1>2, SystemAssumption DEF DaemonOK
<1> QED BY <1>3 DEF snapshot, offered

\* What the daemon sends are signals.
LEMMA DaemonSpeaks == SystemInv /\ Daemon => \E s \in Seq(Message) : Send(s)
<1> SUFFICES ASSUME SystemInv, Daemon PROVE \E s \in Seq(Message) : Send(s) OBVIOUS
<1>0. /\ modem \in Modems \cup {None} /\ ifs \in InterfaceSets /\ ctx \in DaemonContexts
      /\ {} \in InterfaceSets /\ BeforeSim \in InterfaceSets
  BY SystemAssumption DEF SystemInv, DaemonOK
<1>1. CASE Start BY <1>1, Messages, SignalTypes DEF Start
<1>2. CASE Stop BY <1>2, Messages, SignalTypes DEF Stop
<1>3. CASE AddModem BY <1>0, <1>3, Messages, SignalTypes DEF AddModem
<1>4. CASE RemoveModem BY <1>0, <1>4, Messages, SignalTypes DEF RemoveModem
<1>5. CASE PowerOn BY <1>0, <1>5, Messages, SignalTypes DEF PowerOn, SetInterfaces
<1>6. CASE PowerOff BY <1>0, <1>6, Messages, SignalTypes DEF PowerOff
<1>7. CASE InsertSim BY <1>0, <1>7, Messages, SignalTypes DEF InsertSim, Offers
<1>8. CASE RemoveSim BY <1>0, <1>8, Messages, SignalTypes DEF RemoveSim, Offers
<1>9. CASE GoOnline BY <1>0, <1>9, Messages, SignalTypes DEF GoOnline, SetInterfaces, Offers
<1>10. CASE NewStatus BY <1>0, <1>10, Messages, SignalTypes DEF NewStatus, Offers
<1>11. CASE NewContext BY <1>11, Messages, SignalTypes DEF NewContext
<1> QED BY <1>1, <1>2, <1>3, <1>4, <1>5, <1>6, <1>7, <1>8, <1>9, <1>10, <1>11 DEF Daemon

\* The daemon keeps its types, leaves the bridge alone and sends to its proxies.
LEMMA DaemonInv == SystemInv /\ Daemon => SystemInv' /\ b' = b
<1> SUFFICES ASSUME SystemInv, Daemon PROVE SystemInv' /\ b' = b OBVIOUS
<1>0. /\ up \in BOOLEAN /\ present \in BOOLEAN /\ modem \in Modems \cup {None}
      /\ ifs \in InterfaceSets /\ net \in NetStatuses /\ ctx \in DaemonContexts
      /\ Waiting(b, q)
      /\ listed \in [modem : Modems \cup {None}, ifs : InterfaceSets]
      /\ listed # NotListed => listed.modem # None
  BY DEF SystemInv, DaemonOK
<1>1. {} \in InterfaceSets /\ BeforeSim \in InterfaceSets BY SystemAssumption
<1>2. b' = b /\ listed' = listed
  BY DEF Daemon, Start, Stop, AddModem, RemoveModem, PowerOn, PowerOff, InsertSim,
         RemoveSim, GoOnline, NewStatus, NewContext, Move
<1>3. DaemonOK'
  BY <1>0, <1>1, <1>2 DEF Daemon, Start, Stop, AddModem, RemoveModem, PowerOn, PowerOff, InsertSim,
         RemoveSim, GoOnline, NewStatus, NewContext, DaemonOK, SetInterfaces, DaemonContexts
<1>4. \E s \in Seq(Message) : Send(s) BY DaemonSpeaks
<1>5. Waiting(b, q)' BY <1>0, <1>2, <1>4, SendWaiting
<1> QED BY <1>2, <1>3, <1>5 DEF SystemInv

\* What is left when a signal has been handled is for the proxies that are left.
LEMMA HandleWaiting ==
  ASSUME NEW on, NEW y, Waiting(b, q), Handle(on, y)
  PROVE  /\ Waiting(b, q)' /\ b' = y
         /\ Head(q) \in Message /\ Head(q).on = on /\ Subscribed(b, Head(q))
<1>1. q \in Seq(Message) /\ q # <<>> /\ \A i \in 1..Len(q) : Subscribed(b, q[i])
  BY DEF Waiting, Handle
<1>2. Tail(q) \in Seq(Message) /\ Head(q) = q[1] /\ Head(q) \in Message /\ 1 \in 1..Len(q)
  BY <1>1, Tailed
<1>3. q' = Heard(b', Tail(q)) /\ b' = y /\ Head(q).on = on BY DEF Handle
<1>4. Waiting(b', Heard(b', Tail(q))) BY <1>2, HeardWaiting
<1>5. Waiting(b', q') BY <1>3, <1>4
<1>6. Subscribed(b, Head(q)) BY <1>1, <1>2
<1> QED BY <1>2, <1>3, <1>5, <1>6

\* Nothing listed is of the type of what is.
LEMMA NotListedType ==
  /\ NotListed \in [modem : Modems \cup {None}, ifs : InterfaceSets]
  /\ NotListed.modem = None
BY SystemAssumption DEF NotListed

\* Handling a signal is an event of the bridge, whose proxy is there.
LEMMA DeliverNext == SystemInv /\ Deliver => SystemInv' /\ [Next]_b
<1> SUFFICES ASSUME SystemInv, Deliver PROVE SystemInv' /\ [Next]_b OBVIOUS
<1>0. DaemonOK /\ Waiting(b, q) /\ snapshot \in Replies
  BY SnapshotReplies DEF SystemInv
<1>1. DaemonOK'
  BY <1>0, NotListedType DEF Deliver, OnInit, OnNameOwnerChanged, OnModemAdded, OnModemRemoved, OnInterfaces,
         OnPowered, OnPresent, OnStatus, OnContext, Handle, daemon, DaemonOK
<1>2. Waiting(b, q)'
  BY <1>0, HandleWaiting
  DEF Deliver, OnInit, OnNameOwnerChanged, OnModemAdded, OnModemRemoved, OnInterfaces,
         OnPowered, OnPresent, OnStatus, OnContext
<1>3. b' = connect => Next
  <2>1. CASE listed = NotListed
    BY <2>1 DEF connect, ConnectManagerNoModem, Next
  <2>2. CASE listed # NotListed
    <3>1. listed.modem \in Modems /\ listed.ifs \in InterfaceSets BY <1>0, <2>2 DEF DaemonOK
    <3>2. Powered(listed.ifs) \in BOOLEAN BY DEF Powered
    <3> QED BY <1>0, <2>2, <3>1, <3>2 DEF connect, ConnectManager, Next
  <2> QED BY <2>1, <2>2
<1>4. CASE OnInit
  <2>1. b' = connect BY <1>4 DEF OnInit, Handle
  <2> QED BY <1>1, <1>2, <1>3, <2>1 DEF SystemInv
<1>5. CASE OnNameOwnerChanged
  <2>1. b' = connect \/ b' = reset_manager(b) BY <1>5 DEF OnNameOwnerChanged, Handle
  <2>2. b' = reset_manager(b) => Next BY DEF ResetManager, Next
  <2> QED BY <1>1, <1>2, <1>3, <2>1, <2>2 DEF SystemInv
<1>6. CASE OnModemAdded
  <2>1. /\ b' = setup_modem(b, path, val, Powered(val), snapshot)
        /\ Head(q) \in Message /\ Head(q).on = "ModemAdded" /\ Subscribed(b, Head(q))
        /\ Powered(val) \in BOOLEAN
    BY <1>0, <1>6, HandleWaiting DEF OnModemAdded, Powered
  <2>2. path \in Modems /\ val \in InterfaceSets /\ b.manager_ = "live"
    BY <2>1 DEF Message, Subscribed, path, val
  <2>3. ModemAdded BY <1>0, <2>1, <2>2 DEF ModemAdded
  <2> QED BY <1>1, <1>2, <2>3 DEF SystemInv, Next
<1>7. CASE OnModemRemoved
  <2>1. /\ b' = (IF b.modem_ = path THEN reset_modem(b, snapshot) ELSE b)
        /\ Head(q) \in Message /\ Head(q).on = "ModemRemoved" /\ Subscribed(b, Head(q))
    BY <1>0, <1>7, HandleWaiting DEF OnModemRemoved
  <2>2. path \in Modems /\ b.manager_ = "live"
    BY <2>1 DEF Message, Subscribed, path
  <2>3. b.modem_ = path => ModemRemoved
    BY <1>0, <2>1, <2>2, BridgeAssumption DEF ModemRemoved
  <2> QED BY <1>1, <1>2, <2>1, <2>3 DEF SystemInv, Next
<1>8. CASE OnInterfaces
  <2>1. /\ b' = process_interfaces(b, val, snapshot)
        /\ Head(q) \in Message /\ Head(q).on = "Interfaces" /\ Subscribed(b, Head(q))
    BY <1>0, <1>8, HandleWaiting DEF OnInterfaces
  <2>2. Head(q).path \in Modems /\ val \in InterfaceSets /\ b.modem_ = Head(q).path
    BY <2>1 DEF Message, Subscribed, val
  <2>3. InterfacesChanged BY <1>0, <2>1, <2>2, BridgeAssumption DEF InterfacesChanged
  <2> QED BY <1>1, <1>2, <2>3 DEF SystemInv, Next
<1>9. CASE OnPowered
  <2>1. /\ b' = modem_powered(b, val, snapshot)
        /\ Head(q) \in Message /\ Head(q).on = "Powered" /\ Subscribed(b, Head(q))
    BY <1>0, <1>9, HandleWaiting DEF OnPowered
  <2>2. Head(q).path \in Modems /\ val \in BOOLEAN /\ b.modem_ = Head(q).path
    BY <2>1 DEF Message, Subscribed, val
  <2>3. PoweredChanged BY <1>0, <2>1, <2>2, BridgeAssumption DEF PoweredChanged
  <2> QED BY <1>1, <1>2, <2>3 DEF SystemInv, Next
<1>10. CASE OnPresent
  <2>1. /\ b' = sim_present_by(LAMBDA x, s : set_status(x, s, snapshot), b, val)
        /\ Head(q) \in Message /\ Head(q).on = "Present" /\ Subscribed(b, Head(q))
    BY <1>0, <1>10, HandleWaiting DEF OnPresent, sim_present_by
  <2>2. val \in BOOLEAN /\ b.sim_ = "live"
    BY <2>1 DEF Message, Subscribed, val
  <2>3. SimPresentChanged BY <1>0, <2>1, <2>2 DEF SimPresentChanged, sim_present_by
  <2> QED BY <1>1, <1>2, <2>3 DEF SystemInv, Next
<1>11. CASE OnStatus
  <2>1. /\ b' = net_update(b, "Status", val, snapshot)
        /\ Head(q) \in Message /\ Head(q).on = "Status" /\ Subscribed(b, Head(q))
    BY <1>0, <1>11, HandleWaiting DEF OnStatus
  <2>2. val \in NetStatuses /\ b.network_
    BY <2>1 DEF Message, Subscribed, val
  <2>3. NetworkStatusChanged BY <1>0, <2>1, <2>2 DEF NetworkStatusChanged
  <2> QED BY <1>1, <1>2, <2>3 DEF SystemInv, Next
<1>12. CASE OnContext
  <2>1. /\ b' = update_mms_context([b EXCEPT !.connectionContexts_[path] = val])
        /\ Head(q) \in Message /\ Head(q).on = "Context" /\ Subscribed(b, Head(q))
    BY <1>0, <1>12, HandleWaiting DEF OnContext
  <2>2. path \in Contexts /\ val \in ContextKind /\ b.connectionManager_
    BY <2>1 DEF Message, Subscribed, path, val
  <2>3. ContextAdded \/ ContextRemoved
    BY <2>1, <2>2 DEF ContextAdded, ContextRemoved
  <2> QED BY <1>1, <1>2, <2>3 DEF SystemInv, Next
<1> QED BY <1>4, <1>5, <1>6, <1>7, <1>8, <1>9, <1>10, <1>11, <1>12 DEF Deliver

\* The system starts with the bridge before its first signal, which is for it.
LEMMA SystemStarts == SystemInit => SystemInv /\ Init
<1> SUFFICES ASSUME SystemInit PROVE SystemInv /\ Init OBVIOUS
<1>1. DaemonOK /\ Init
  BY SystemAssumption, NotListedType DEF SystemInit, DaemonOK, Init, DaemonContexts, NoContexts, ContextKind
<1>2. Signal("Init", None, TRUE) \in Message BY SignalTypes
<1>3. q = <<Signal("Init", None, TRUE)>> /\ Subscribed(b, Signal("Init", None, TRUE))
  BY DEF SystemInit, Signal, Subscribed
<1> DEFINE first == Signal("Init", None, TRUE)
<1>4. q = <<first>> /\ first \in Message /\ Subscribed(b, first) BY <1>2, <1>3
<1> HIDE DEF first
<1>5. q \in Seq(Message) BY <1>4, Messages
<1>6. Len(q) = 1 /\ q[1] = first BY <1>4
<1>7. Waiting(b, q) BY <1>4, <1>5, <1>6 DEF Waiting
<1> QED BY <1>1, <1>7 DEF SystemInv

\* A blocking call that waits is the bridge before one that told of no modem.
LEMMA GetModemsNext == SystemInv /\ GetModems => SystemInv' /\ [Next]_b
<1> SUFFICES ASSUME SystemInv, GetModems PROVE SystemInv' /\ [Next]_b OBVIOUS
<1>0. DaemonOK /\ q \in Seq(Message) BY DEF SystemInv, Waiting
<1>1. DaemonOK' BY <1>0, BridgeAssumption DEF GetModems, daemon, DaemonOK
<1>2. Waiting(b', Heard(b', q)) BY <1>0, HeardWaiting
<1>3. Waiting(b, q)' BY <1>2 DEF GetModems
<1>4. Next BY DEF GetModems, ConnectManagerNoModem, Next
<1> QED BY <1>1, <1>3, <1>4 DEF SystemInv

\* Every step of the system is one of the bridge or leaves it alone.
LEMMA SystemNextInv == SystemInv /\ [SystemNext]_vars => SystemInv' /\ [Next]_b
<1>1. SystemInv /\ UNCHANGED vars => SystemInv' /\ b' = b
  BY DEF vars, daemon, SystemInv, DaemonOK, Waiting
<1>2. SystemInv /\ Connect => SystemInv' /\ b' = b
  BY DEF Connect, daemon, SystemInv, DaemonOK, Waiting
<1> QED BY <1>1, <1>2, DaemonInv, DeliverNext, GetModemsNext DEF SystemNext

\* The queue holds only signals of proxies that the bridge has: dropping a
\* proxy drops its signals (579-602, 435-452).
THEOREM SystemInvHolds == SystemSpec => []SystemInv
<1>1. SystemInit => SystemInv BY SystemStarts
<1>2. SystemInv /\ [SystemNext]_vars => SystemInv' BY SystemNextInv
<1> QED BY <1>1, <1>2, PTL DEF SystemSpec

\* The bridge beside a daemon and its queue of signals does only what it does
\* in OfonoBridge, whatever the daemon answers and sends.
THEOREM SystemImplementsBridge == SystemSpec => ImplementsBridge
<1>1. SystemInit => Init BY SystemStarts
<1>2. SystemInv /\ [SystemNext]_vars => [Next]_b BY SystemNextInv
<1> QED BY <1>1, <1>2, SystemInvHolds, PTL DEF SystemSpec, ImplementsBridge, Spec

\* So a bridge beside a daemon shows a network only with a SIM and with the
\* status it holds, and the MMS context of a connection manager it has.
THEOREM SystemHonest == SystemSpec => [](RegistrationHonest /\ MmsContextLive /\ PublishedOwners)
BY SystemImplementsBridge, RegistrationHonestHolds, MmsContextLiveHolds, PublishedOwnersHolds, PTL
   DEF ImplementsBridge
----------------------------------------------------------------------------
(* What the signals tell.                                                   *)

NR == "NetworkRegistration"
SM == "SimManager"
CM == "ConnectionManager"

Kind(k) == {m \in Message : m.on = k}

Inits == Kind("Init")
Owners == Kind("NameOwnerChanged")
Started == {m \in Owners : m.val}
Gone == {m \in Owners : ~m.val}
Joins == Inits \cup Started
Others == Message \ (Owners \cup Inits)

Removals == Kind("ModemRemoved")
RemovalsOf(mdm) == {m \in Removals : m.path = mdm}
Added == Kind("ModemAdded")
Replugs == Removals \cup Added
\* the signals after which the bridge has the modem mdm, or none
Leaves(mdm) == IF mdm = None THEN Removals ELSE {m \in Added : m.path = mdm}

Ifs == Kind("Interfaces")
With(id) == {m \in Ifs : id \in m.val}
Lacks(id) == {m \in Ifs : id \notin m.val}
Are(faces) == {m \in Ifs : m.val = faces}
IfsOrOwners == Ifs \cup Owners

Powereds == Kind("Powered")
Presents == Kind("Present")
PresentIs(v) == {m \in Presents : m.val = v}
Statuses == Kind("Status")
StatusIs(v) == {m \in Statuses : m.val = v}
CtxOf(c) == {m \in Kind("Context") : m.path = c}
CtxIs(c, k) == {m \in CtxOf(c) : m.val = k}

\* every interface comes with those a modem offers without a SIM
Whole(faces) == faces = {} \/ BeforeSim \subseteq faces
Broken == {m \in Ifs : ~Whole(m.val)} \cup {m \in Added : m.val # {}}

\* what a status must not be preceded by when the bridge x hears it
Against(x) == Lacks(NR) \cup (IF Blank(x) THEN Owners ELSE {})

\* Which signal is in which set.
LEMMA Kinds ==
  ASSUME NEW e \in Message
  PROVE  /\ e \in Inits <=> e.on = "Init"
         /\ e \in Owners <=> e.on = "NameOwnerChanged"
         /\ e \in Started <=> e.on = "NameOwnerChanged" /\ e.val
         /\ e \in Gone <=> e.on = "NameOwnerChanged" /\ ~e.val
         /\ e \in Joins <=> e \in Inits \/ e \in Started
         /\ e \in Others <=> e \notin Owners /\ e \notin Inits
         /\ e \in Removals <=> e.on = "ModemRemoved"
         /\ \A mdm : e \in RemovalsOf(mdm) <=> e \in Removals /\ e.path = mdm
         /\ e \in Added <=> e.on = "ModemAdded"
         /\ e \in Replugs <=> e \in Removals \/ e \in Added
         /\ \A mdm \in Modems : e \in Leaves(mdm) <=> e \in Added /\ e.path = mdm
         /\ e \in Leaves(None) <=> e \in Removals
         /\ e \in Ifs <=> e.on = "Interfaces"
         /\ e \in IfsOrOwners <=> e \in Ifs \/ e \in Owners
         /\ e \in Powereds <=> e.on = "Powered"
         /\ e \in Presents <=> e.on = "Present"
         /\ \A v : e \in PresentIs(v) <=> e \in Presents /\ e.val = v
         /\ e \in Statuses <=> e.on = "Status"
         /\ \A v : e \in StatusIs(v) <=> e \in Statuses /\ e.val = v
         /\ \A c : e \in CtxOf(c) <=> e.on = "Context" /\ e.path = c
         /\ \A c, k : e \in CtxIs(c, k) <=> e \in CtxOf(c) /\ e.val = k
         /\ e.on \in {"Init", "NameOwnerChanged", "ModemAdded", "ModemRemoved",
                      "Interfaces", "Powered", "Present", "Status", "Context"}
<1>1. /\ e \in Joins <=> e \in Inits \/ e \in Started
      /\ e \in Others <=> e \notin Owners /\ e \notin Inits
      /\ e \in Replugs <=> e \in Removals \/ e \in Added
      /\ e \in IfsOrOwners <=> e \in Ifs \/ e \in Owners
  BY DEF Joins, Others, Replugs, IfsOrOwners
<1>2. /\ e \in Inits <=> e.on = "Init"
      /\ e \in Owners <=> e.on = "NameOwnerChanged"
      /\ e \in Removals <=> e.on = "ModemRemoved"
      /\ e \in Added <=> e.on = "ModemAdded"
      /\ e \in Ifs <=> e.on = "Interfaces"
      /\ e \in Powereds <=> e.on = "Powered"
      /\ e \in Presents <=> e.on = "Present"
      /\ e \in Statuses <=> e.on = "Status"
      /\ e \in Kind("Context") <=> e.on = "Context"
  BY DEF Inits, Owners, Removals, Added, Ifs, Powereds, Presents, Statuses, Kind
<1>3. /\ e \in Started <=> e \in Owners /\ e.val
      /\ e \in Gone <=> e \in Owners /\ ~e.val
  BY DEF Started, Gone
<1>4. /\ \A mdm : e \in RemovalsOf(mdm) <=> e \in Removals /\ e.path = mdm
      /\ \A v : e \in PresentIs(v) <=> e \in Presents /\ e.val = v
      /\ \A v : e \in StatusIs(v) <=> e \in Statuses /\ e.val = v
      /\ \A c : e \in CtxOf(c) <=> e \in Kind("Context") /\ e.path = c
      /\ \A c, k : e \in CtxIs(c, k) <=> e \in CtxOf(c) /\ e.val = k
  BY DEF RemovalsOf, PresentIs, StatusIs, CtxOf, CtxIs
<1>5. /\ \A mdm \in Modems : e \in Leaves(mdm) <=> e \in Added /\ e.path = mdm
      /\ e \in Leaves(None) <=> e \in Removals
  BY BridgeAssumption DEF Leaves
<1>6. e.on \in {"Init", "NameOwnerChanged", "ModemAdded", "ModemRemoved",
                "Interfaces", "Powered", "Present", "Status", "Context"}
  BY DEF Message
<1> QED BY <1>1, <1>2, <1>3, <1>4, <1>5, <1>6

\* Which list of interfaces is in which set.
LEMMA Faces ==
  ASSUME NEW e \in Message
  PROVE  /\ \A id : /\ e \in With(id) <=> e \in Ifs /\ id \in e.val
                    /\ e \in Lacks(id) <=> e \in Ifs /\ id \notin e.val
         /\ \A faces : e \in Are(faces) <=> e \in Ifs /\ e.val = faces
         /\ e \in Broken <=> \/ e \in Ifs /\ ~Whole(e.val)
                             \/ e \in Added /\ e.val # {}
         /\ \A x : e \in Against(x) <=> e \in Lacks(NR) \/ (Blank(x) /\ e \in Owners)
BY DEF With, Lacks, Are, Broken, Against

\* A set of signals is part of its kind.
LEMMA Parts ==
  /\ Started \subseteq Owners /\ Gone \subseteq Owners
  /\ Owners \subseteq Message /\ Inits \subseteq Message
  /\ \A id : With(id) \subseteq Ifs /\ Lacks(id) \subseteq Ifs
             /\ With(id) \cup Lacks(id) = Ifs
  /\ \A faces : Are(faces) \subseteq Ifs
  /\ \A id, faces : id \in faces => Are(faces) \subseteq With(id)
  /\ \A id, faces : id \notin faces => Are(faces) \subseteq Lacks(id)
  /\ \A mdm : Leaves(mdm) \subseteq Replugs /\ Leaves(mdm) \cup Replugs = Replugs
              /\ RemovalsOf(mdm) \subseteq Removals
  /\ Removals \cup Replugs = Replugs /\ Leaves(None) = Removals
  /\ Removals \subseteq Replugs /\ Added \subseteq Replugs
  /\ Ifs \subseteq IfsOrOwners /\ Owners \subseteq IfsOrOwners
BY DEF Started, Gone, Owners, Inits, Kind, With, Lacks, Are, Leaves, Replugs, RemovalsOf,
       IfsOrOwners

----------------------------------------------------------------------------
(* What a step does to what the queue tells of the signals in X: t is the   *)
(* queue after it and s the queue before.                                   *)

\* nothing of X was sent, and nothing lost
Aside(s, t, X) ==
  /\ NoneIn(t, X) <=> NoneIn(s, X)
  /\ \A Y : LastIn(s, X, Y) => LastIn(t, X, Y)
  /\ \A Y : Behind(s, X, Y) => Behind(t, X, Y)
  /\ \A Y, B, own : AllTold(s, X, Y, B, own) => AllTold(t, X, Y, B, own)
  /\ \A V, Y : FollowedBy(s, V, X, Y) => FollowedBy(t, V, X, Y)

\* the signal h was handled and nothing of X lost
Carried(s, h, t, X) ==
  /\ NoneIn(t, X) /\ h \notin X => NoneIn(s, X)
  /\ \A Y : LastIn(s, X, Y) =>
       LastIn(t, X, Y) /\ (NoneIn(t, X) /\ h \in X => h \in Y)
  /\ \A V : Behind(s, V, X) => Behind(t, V, X) /\ (h \in V => ~NoneIn(t, X))
  /\ \A Y, B, own, now : AllTold(s, Y, X, B, own)
                         /\ (h \in X \/ (own /\ h \notin B) => now)
                         => AllTold(t, Y, X, B, now)
  /\ \A V, Y : FollowedBy(s, V, Y, X) =>
       FollowedBy(t, V, Y, X) /\ (h \in V /\ ~NoneIn(t, Y) => ~NoneIn(t, X))

\* the signal e is sent, if the bridge listens
Sent(s, e, t) == \/ Subscribed(b, e) /\ t = Append(s, e)
                 \/ ~Subscribed(b, e) /\ t = s

\* What sending e leaves as it is, and what it adds.
LEMMA SentAside ==
  ASSUME NEW s \in Seq(Message), NEW e \in Message, NEW t, Sent(s, e, t)
  PROVE  /\ t \in Seq(Message)
         /\ \A X : e \notin X => Aside(s, t, X)
         /\ \A X : NoneIn(t, X) => NoneIn(s, X)
         /\ ~Subscribed(b, e) => t = s
         /\ Subscribed(b, e) =>
              /\ \A X : e \in X => ~NoneIn(t, X)
              /\ \A X, Y : e \in X /\ e \in Y => LastIn(t, X, Y)
              /\ \A X, Y : e \notin X /\ e \in Y => Behind(t, X, Y)
              /\ \A V, Z, Y : e \in Y => FollowedBy(t, V, Z, Y)
<1>1. CASE t = s
  BY <1>1 DEF Sent, Aside
<1>2. CASE t = Append(s, e)
  <2>1. /\ t \in Seq(Message)
        /\ \A X : NoneIn(t, X) <=> NoneIn(s, X) /\ e \notin X
        /\ \A X, Y : e \in X /\ e \in Y => LastIn(t, X, Y)
        /\ \A X, Y : e \notin X /\ LastIn(s, X, Y) => LastIn(t, X, Y)
    BY <1>2, QueueAppended
  <2>2. /\ \A X, Y : e \notin X /\ e \in Y => Behind(t, X, Y)
        /\ \A X, Y : e \notin X /\ Behind(s, X, Y) => Behind(t, X, Y)
    BY <1>2, BehindAppended
  <2>3. ASSUME NEW X, NEW Y, NEW B, NEW own, e \notin X, AllTold(s, X, Y, B, own)
        PROVE  AllTold(t, X, Y, B, own)
    BY <1>2, <2>3, ToldAppended
  <2>4. ASSUME NEW V, NEW X, NEW Y, e \notin X, FollowedBy(s, V, X, Y)
        PROVE  FollowedBy(t, V, X, Y)
    BY <1>2, <2>4, FollowedAppended
  <2>5. ASSUME NEW V, NEW X, NEW Y, e \in Y PROVE FollowedBy(t, V, X, Y)
    BY <1>2, <2>5, FollowedEnd
  <2>6. ASSUME NEW X, e \notin X PROVE Aside(s, t, X)
    <3>1. NoneIn(t, X) <=> NoneIn(s, X) BY <2>1, <2>6
    <3>2. \A Y : LastIn(s, X, Y) => LastIn(t, X, Y) BY <2>1, <2>6
    <3>3. \A Y : Behind(s, X, Y) => Behind(t, X, Y) BY <2>2, <2>6
    <3>4. \A Y, B, own : AllTold(s, X, Y, B, own) => AllTold(t, X, Y, B, own)
      BY <2>3, <2>6
    <3>5. \A V, Y : FollowedBy(s, V, X, Y) => FollowedBy(t, V, X, Y) BY <2>4, <2>6
    <3> QED BY <3>1, <3>2, <3>3, <3>4, <3>5 DEF Aside
  <2>7. ~Subscribed(b, e) => t = s BY DEF Sent
  <2> QED BY <2>1, <2>2, <2>5, <2>6, <2>7
<1> QED BY <1>1, <1>2 DEF Sent

\* Send sends a signal.
LEMMA SendOne ==
  ASSUME NEW e \in Message, q \in Seq(Message), Send(<<e>>), ~missed'
  PROVE  Sent(q, e, q')
<1> DEFINE s == <<e>>
           keep == {i \in 1..Len(s) : Subscribed(b, s[i])}
           left == LeftOf(s, keep)
<1>1. s \in Seq(Message) /\ Len(s) = 1 /\ s[1] = e OBVIOUS
<1>2. 1 \in keep <=> Subscribed(b, e) BY <1>1
<1>3. q' = q \o left[1]
  <2>1. {i \in 1..Len(s) : Unheard(s[i])} = {} BY DEF Send
  <2>2. keep \ {i \in 1..Len(s) : Unheard(s[i])} = keep BY <2>1
  <2> HIDE DEF keep
  <2>3. q' = q \o SelectAt(s, keep \ {i \in 1..Len(s) : Unheard(s[i])}) BY DEF Send, keep
  <2> QED BY <1>1, <2>2, <2>3 DEF SelectAt
<1> HIDE DEF keep, s
<1>0. left = [n \in 0..Len(s) |-> LeftStep(s, keep, left, n)] BY <1>1, LeftOfDef
<1> HIDE DEF left
<1>4. \A n \in 0..1 : left[n] = LeftStep(s, keep, left, n) BY <1>0, <1>1
<1>5. left[0] = <<>> BY <1>4 DEF LeftStep
<1>6. left[1] = IF 1 \in keep THEN Append(left[1 - 1], s[1]) ELSE left[1 - 1]
  BY <1>4 DEF LeftStep
<1>7. left[1] = IF 1 \in keep THEN <<e>> ELSE <<>>
  <2>1. 1 - 1 = 0 /\ Append(<<>>, e) = <<e>> OBVIOUS
  <2> QED BY <1>1, <1>5, <1>6, <2>1
<1>8. CASE Subscribed(b, e)
  <2>1. q' = q \o <<e>> BY <1>2, <1>3, <1>7, <1>8
  <2> QED BY <1>8, <2>1 DEF Sent
<1>9. CASE ~Subscribed(b, e)
  <2>1. q' = q \o <<>> BY <1>2, <1>3, <1>7, <1>9
  <2> QED BY <1>9, <2>1 DEF Sent
<1> QED BY <1>8, <1>9

\* Send sends two signals, one after the other.
LEMMA SendTwo ==
  ASSUME NEW e \in Message, NEW f \in Message, q \in Seq(Message), Send(<<e, f>>), ~missed'
  PROVE  \E t : Sent(q, e, t) /\ Sent(t, f, q')
<1> DEFINE s == <<e, f>>
           keep == {i \in 1..Len(s) : Subscribed(b, s[i])}
           left == LeftOf(s, keep)
<1>1. s \in Seq(Message) /\ Len(s) = 2 /\ s[1] = e /\ s[2] = f OBVIOUS
<1>2. (1 \in keep <=> Subscribed(b, e)) /\ (2 \in keep <=> Subscribed(b, f)) BY <1>1
<1>3. q' = q \o left[2]
  <2>1. {i \in 1..Len(s) : Unheard(s[i])} = {} BY DEF Send
  <2>2. keep \ {i \in 1..Len(s) : Unheard(s[i])} = keep BY <2>1
  <2> HIDE DEF keep
  <2>3. q' = q \o SelectAt(s, keep \ {i \in 1..Len(s) : Unheard(s[i])}) BY DEF Send, keep
  <2> QED BY <1>1, <2>2, <2>3 DEF SelectAt
<1> HIDE DEF keep, s
<1>0. left = [n \in 0..Len(s) |-> LeftStep(s, keep, left, n)] BY <1>1, LeftOfDef
<1> HIDE DEF left
<1>4. \A n \in 0..2 : left[n] = LeftStep(s, keep, left, n) BY <1>0, <1>1
<1>5. left[0] = <<>> BY <1>4 DEF LeftStep
<1>6. /\ left[1] = IF 1 \in keep THEN Append(left[1 - 1], s[1]) ELSE left[1 - 1]
      /\ left[2] = IF 2 \in keep THEN Append(left[2 - 1], s[2]) ELSE left[2 - 1]
  BY <1>4 DEF LeftStep
<1>7. left[1] = IF 1 \in keep THEN <<e>> ELSE <<>>
  <2>1. 1 - 1 = 0 /\ Append(<<>>, e) = <<e>> OBVIOUS
  <2> QED BY <1>1, <1>5, <1>6, <2>1
<1>8. left[2] = IF 2 \in keep THEN Append(left[1], f) ELSE left[1]
  <2>1. 2 - 1 = 1 OBVIOUS
  <2> QED BY <1>1, <1>6, <2>1
<1> DEFINE t == q \o left[1]
<1>9. Sent(q, e, t)
  <2>1. CASE Subscribed(b, e) BY <1>2, <1>7, <2>1 DEF Sent
  <2>2. CASE ~Subscribed(b, e) BY <1>2, <1>7, <2>2 DEF Sent
  <2> QED BY <2>1, <2>2
<1>10. Sent(t, f, q')
  <2>1. left[1] \in Seq(Message) BY <1>7
  <2>2. CASE Subscribed(b, f)
    <3>1. q' = q \o Append(left[1], f) BY <1>2, <1>3, <1>8, <2>2
    <3>2. q' = Append(t, f) BY <2>1, <3>1
    <3> QED BY <2>2, <3>2 DEF Sent
  <2>3. CASE ~Subscribed(b, f) BY <1>2, <1>3, <1>8, <2>3 DEF Sent
  <2> QED BY <2>2, <2>3
<1> QED BY <1>9, <1>10

\* What is left when the first signal has been handled.
LEMMA Delivered ==
  ASSUME Waiting(b, q), q # <<>>, q' = Heard(b', Tail(q))
  PROVE  /\ \A X : NoneIn(q, X) => NoneIn(q', X) /\ Head(q) \notin X
         /\ \A X : (\A e \in X : Subscribed(b, e) => Subscribed(b', e)) =>
              Carried(q, Head(q), q', X)
         /\ \A Y, X, B, own : AllTold(q, Y, X, B, own) /\ Head(q) \in Y => own
<1> DEFINE t == Tail(q)
           h == Head(q)
           y == b'
           out == q'
           keep == {i \in 1..Len(t) : Subscribed(y, t[i])}
           L == {e \in Message : Subscribed(b, e) /\ ~Subscribed(y, e)}
<1>1. q \in Seq(Message) /\ \A i \in 1..Len(q) : Subscribed(b, q[i]) BY DEF Waiting
<1>2. /\ t \in Seq(Message) /\ Len(t) = Len(q) - 1
      /\ \A i \in 1..Len(t) : i + 1 \in 1..Len(q) /\ t[i] = q[i + 1]
  BY <1>1, Tailed
<1>3. out = SelectAt(t, keep) BY DEF Heard
<1>4. \A i \in 1..Len(t) : i \in keep <=> t[i] \notin L BY <1>1, <1>2
<1>5. \A X : (\A e \in X : Subscribed(b, e) => Subscribed(y, e)) => \A e \in X : e \notin L
  OBVIOUS
<1> HIDE DEF keep, L
<1>6. /\ out \in Seq(Message) /\ NoneIn(out, L)
      /\ \A X : NoneIn(t, X) => NoneIn(out, X)
      /\ \A X : (\A e \in X : e \notin L) =>
              /\ NoneIn(out, X) => NoneIn(t, X)
              /\ \A Y : LastIn(t, X, Y) => LastIn(out, X, Y)
      /\ \A X, Y : (\A e \in Y : e \notin L) /\ Behind(t, X, Y) => Behind(out, X, Y)
  BY <1>2, <1>3, <1>4, QueueSelected
<1>7. ASSUME NEW Y, NEW X, \A e \in X : e \notin L
      PROVE  /\ \A B, own : AllTold(t, Y, X, B, own) => AllTold(out, Y, X, B, own)
             /\ \A V : FollowedBy(t, V, Y, X) => FollowedBy(out, V, Y, X)
  BY <1>2, <1>3, <1>4, <1>7, ToldSelected
<1>8. /\ \A X : NoneIn(q, X) <=> NoneIn(t, X) /\ h \notin X
      /\ \A X, Y : LastIn(q, X, Y) => LastIn(t, X, Y) /\ (NoneIn(t, X) /\ h \in X => h \in Y)
  BY <1>1, QueueHandled
<1>9. \A X, Y : Behind(q, X, Y) => Behind(t, X, Y) /\ (h \in X => ~NoneIn(t, Y))
  BY <1>1, BehindHandled
<1>10. ASSUME NEW Y, NEW X, NEW B, NEW own, AllTold(q, Y, X, B, own), NEW now,
              h \in X \/ (own /\ h \notin B) => now
       PROVE  AllTold(t, Y, X, B, now)
  BY <1>1, <1>10, ToldHandled
<1>11. ASSUME NEW Y, NEW X, NEW B, NEW own, AllTold(q, Y, X, B, own), h \in Y
       PROVE  own
  <2>1. 1 \in 1..Len(q) /\ h = q[1] BY <1>1
  <2>2. ToldAt(q, 1, X, B, own) BY <1>11, <2>1 DEF AllTold
  <2>3. \A j \in 1..Len(q) : ~(j < 1) BY <1>1
  <2> QED BY <2>2, <2>3 DEF ToldAt
<1>12. ASSUME NEW V, NEW Y, NEW X, FollowedBy(q, V, Y, X)
       PROVE  /\ FollowedBy(t, V, Y, X)
              /\ h \in V /\ ~NoneIn(t, Y) => ~NoneIn(t, X)
  BY <1>1, <1>12, FollowedHandled
<1> HIDE DEF t, h, y, out
<1>14. ASSUME NEW X, \A e \in X : e \notin L PROVE Carried(q, h, out, X)
  <2>1. NoneIn(out, X) <=> NoneIn(t, X) BY <1>6, <1>14
  <2>2. NoneIn(out, X) /\ h \notin X => NoneIn(q, X) BY <1>8, <2>1
  <2>3. \A Y : LastIn(q, X, Y) =>
          LastIn(out, X, Y) /\ (NoneIn(out, X) /\ h \in X => h \in Y)
    BY <1>6, <1>8, <1>14, <2>1
  <2>4. \A V : Behind(q, V, X) => Behind(out, V, X) /\ (h \in V => ~NoneIn(out, X))
    BY <1>6, <1>9, <1>14, <2>1
  <2>5. ASSUME NEW Y, NEW B, NEW own, NEW now, AllTold(q, Y, X, B, own),
               h \in X \/ (own /\ h \notin B) => now
        PROVE  AllTold(out, Y, X, B, now)
    <3>1. AllTold(t, Y, X, B, now) BY <1>10, <2>5
    <3> QED BY <1>7, <1>14, <3>1
  <2>6. ASSUME NEW V, NEW Y, FollowedBy(q, V, Y, X)
        PROVE  /\ FollowedBy(out, V, Y, X)
               /\ h \in V /\ ~NoneIn(out, Y) => ~NoneIn(out, X)
    <3>1. FollowedBy(t, V, Y, X) /\ (h \in V /\ ~NoneIn(t, Y) => ~NoneIn(t, X))
      BY <1>12, <2>6
    <3>2. NoneIn(t, Y) => NoneIn(out, Y) BY <1>6
    <3>3. FollowedBy(out, V, Y, X) BY <1>7, <1>14, <3>1
    <3> QED BY <2>1, <3>1, <3>2, <3>3
  <2> QED BY <2>2, <2>3, <2>4, <2>5, <2>6 DEF Carried
<1>15. \A X : (\A e \in X : Subscribed(b, e) => Subscribed(y, e)) => Carried(q, h, out, X)
  BY <1>5, <1>14
<1>16. \A X : NoneIn(q, X) => NoneIn(out, X) /\ h \notin X BY <1>6, <1>8
<1> QED BY <1>11, <1>15, <1>16 DEF h, y, out

----------------------------------------------------------------------------
(* The invariant of the bridge beside its daemon.  Each part is about the   *)
(* bridge, the daemon and the signals between them; together they say what  *)
(* the bridge will show once the signals have been handled.                 *)

\* What has happened has left its signals, what has not has left none.
World == /\ ~restarted => NoneIn(q, Owners)
         /\ ~replugged => NoneIn(q, Replugs)

\* The first signal of all has none before it and finds the bridge as made.
First == /\ AllTold(q, Inits, {}, Message, TRUE)
         /\ ~NoneIn(q, Inits) =>
              b.manager_ # "live" /\ b = [InitBridge EXCEPT !.manager_ = b.manager_]

\* No list has the network without the SIM, and none is offered without one.
Shape == /\ Whole(ifs) /\ Whole(b.interfaces_)
         /\ NoneIn(q, Broken)
         /\ ifs \ BeforeSim # {} => present

\* When oFono has not restarted the bridge will have the modem that oFono has.
ModemTold ==
  ~restarted =>
  /\ b.modem_ # None => b.manager_ = "live"
  /\ b.manager_ = "live" => up
  /\ \A mdm \in Modems : AllTold(q, RemovalsOf(mdm), Leaves(mdm), Replugs, b.modem_ = mdm)
  /\ AllTold(q, Added, Removals, Replugs, b.modem_ = None)
  /\ b.manager_ = "live" => /\ LastIn(q, Replugs, Leaves(modem))
                            /\ NoneIn(q, Replugs) => b.modem_ = modem
  /\ up /\ modem # None /\ Steady => b.modem_ # None \/ ~NoneIn(q, Inits)

\* It will have the interfaces that the modem has, but for a modem that came
\* back: reset_modem leaves interfaces_ alone, and setup_modem of a modem
\* without interfaces clears them but finds no network to reset.
InterfacesTold ==
  ~restarted /\ b.modem_ # None /\ NoneIn(q, Replugs) =>
    /\ LastIn(q, Ifs, Are(ifs))
    /\ NoneIn(q, Ifs) =>
         \/ b.interfaces_ = ifs
         \/ b.interfaces_ = {} /\ replugged /\ (b.network_ => NR \notin ifs)

\* Without a modem there are no interfaces, until one is removed.
Bare == ~replugged /\ b.modem_ = None => b.interfaces_ = {}

\* oFono has restarted, and it has but one modem, which was never replaced
Crash == restarted /\ ~replugged /\ SingleModem

\* What GetModems has told is so, or oFono has left since, which the bridge
\* will hear when it has connected.
Asked ==
  listed # NotListed =>
    /\ q # <<>> /\ Head(q) \in Joins
    /\ b.manager_ = "idle"
    /\ Whole(listed.ifs)
    /\ \/ up /\ modem = listed.modem /\ ifs = listed.ifs
       \/ /\ restarted
          /\ Crash => /\ ~NoneIn(q, Gone) /\ LastIn(q, IfsOrOwners, Owners)
                      /\ up => ifs = BeforeSim

\* The bridge will hear of the oFono that runs.
OwnerTold ==
  Crash => /\ up /\ modem # None => b.modem_ # None \/ ~NoneIn(q, Joins)
           /\ up => LastIn(q, Owners, Started)

\* After a restart it will have the interfaces of the modem, although the
\* lists of the old oFono and of the new one may wait together.
Restored ==
  Crash /\ up /\ modem # None /\ b.modem_ # None =>
    \/ ~NoneIn(q, Ifs) /\ LastIn(q, IfsOrOwners, Are(ifs))
    \/ /\ NoneIn(q, Ifs) /\ b.interfaces_ = ifs
       /\ NoneIn(q, Owners) \/ ~Blank(b) \/ NR \notin ifs
    \/ /\ ~NoneIn(q, Owners) /\ LastIn(q, IfsOrOwners, Owners)
       /\ ifs = BeforeSim

\* When oFono is gone the bridge shows no network, or will hear that it left
\* after anything else it hears.
Withdrawn ==
  Crash /\ (~up \/ modem = None) =>
    /\ Behind(q, Others, Gone)
    /\ NoneIn(q, Gone) => b.pub.RegistrationStatus \notin Known

\* the cases that NoNetworkShown is about
Alone == restarted => ~replugged /\ SingleModem

\* A status that claims a network is one of a modem that lists it.
Claimed ==
  Alone /\ Registered(b) =>
    b.modem_ # None /\ (NoneIn(q, Replugs) => NR \in b.interfaces_)

\* When the bridge hears the status of a network, its modem lists a network.
StatusesTold ==
  Alone /\ NoneIn(q, Replugs) =>
    AllTold(q, Statuses, With(NR), Against(b), NR \in b.interfaces_)

\* The network of a steady modem that lists one is set up, and its status is
\* the one that was read last or heard last.
NetworkKnown ==
  Steady /\ b.modem_ # None /\ NR \in b.interfaces_ /\ NoneIn(q, Lacks(NR)) =>
    /\ b.network_ /\ b.has_sim_
    /\ NoneIn(q, Statuses) => b.status_ = map_status(net)

\* So is its SIM; one that was listed when it had already gone is not.
SimKnown ==
  Steady /\ b.modem_ # None =>
    /\ b.sim_ = None => SM \notin b.interfaces_
    /\ b.sim_ = "idle" /\ SM \in b.interfaces_ => ~NoneIn(q, Lacks(SM))
    /\ LastIn(q, Presents, PresentIs(present))
    /\ b.sim_ = "live" /\ SM \in b.interfaces_ /\ NoneIn(q, Presents) =>
         b.has_sim_ = present

\* A SIM that comes or goes takes the network with it.
SimTakesNetwork ==
  Steady =>
    /\ NR \in b.interfaces_ /\ ~NoneIn(q, Presents) => ~NoneIn(q, Lacks(NR))
    /\ FollowedBy(q, With(NR), Presents, Lacks(NR))

\* What is shown is the status, while oFono has not left.
StatusShown == ~restarted => Exact(b)

\* The contexts of a steady modem are known as they were read or heard last.
ContextsKnown ==
  /\ LastIn(q, Statuses, StatusIs(net))
  /\ \A c \in Contexts :
       /\ LastIn(q, CtxOf(c), CtxIs(c, ctx[c]))
       /\ NoneIn(q, CtxOf(c)) => b.connectionContexts_[c] \in {"absent", ctx[c]}
  /\ Steady /\ b.modem_ # None /\ CM \in b.interfaces_ /\ NoneIn(q, Lacks(CM)) =>
       /\ b.connectionManager_
       /\ \A c \in Contexts :
            NoneIn(q, CtxOf(c)) => b.connectionContexts_[c] = ctx[c]

Beside ==
  /\ SystemInv /\ Inv
  /\ World /\ First /\ Asked /\ Shape /\ ModemTold /\ InterfacesTold /\ Bare
  /\ OwnerTold /\ Restored /\ Withdrawn /\ Claimed /\ StatusesTold
  /\ NetworkKnown /\ SimKnown /\ SimTakesNetwork /\ StatusShown /\ ContextsKnown

----------------------------------------------------------------------------
(* What the bridge hears, and what it reads.                                *)

\* For which signals a bridge has a proxy.
LEMMA Hears ==
  ASSUME NEW x, NEW e \in Message
  PROVE  /\ e \in Owners \/ e \in Inits => Subscribed(x, e)
         /\ e \in Replugs => (Subscribed(x, e) <=> x.manager_ = "live")
         /\ e \in Ifs \/ e \in Powereds =>
              (Subscribed(x, e) <=> x.modem_ = e.path) /\ e.path \in Modems
         /\ e \in Presents => (Subscribed(x, e) <=> x.sim_ = "live")
         /\ e \in Statuses => (Subscribed(x, e) <=> x.network_)
         /\ \A c : e \in CtxOf(c) => (Subscribed(x, e) <=> x.connectionManager_)
<1>1. /\ e.on = "NameOwnerChanged" \/ e.on = "Init" => Subscribed(x, e)
      /\ e.on = "ModemAdded" \/ e.on = "ModemRemoved" =>
           (Subscribed(x, e) <=> x.manager_ = "live")
      /\ e.on = "Interfaces" \/ e.on = "Powered" => (Subscribed(x, e) <=> x.modem_ = e.path)
      /\ e.on = "Present" => (Subscribed(x, e) <=> x.sim_ = "live")
      /\ e.on = "Status" => (Subscribed(x, e) <=> x.network_)
      /\ e.on = "Context" => (Subscribed(x, e) <=> x.connectionManager_)
  BY DEF Subscribed
<1>2. e.on = "Interfaces" \/ e.on = "Powered" => e.path \in Modems BY DEF Message
<1> QED BY <1>1, <1>2, Kinds

\* What waits for a bridge without one proxy or another.
LEMMA Silent ==
  ASSUME NEW x, NEW s, Waiting(x, s)
  PROVE  /\ x.manager_ # "live" => /\ NoneIn(s, Replugs) /\ NoneIn(s, Added)
                                   /\ \A mdm : NoneIn(s, RemovalsOf(mdm))
         /\ x.modem_ = None => NoneIn(s, Ifs) /\ NoneIn(s, Powereds)
         /\ x.sim_ # "live" => NoneIn(s, Presents)
         /\ ~x.network_ => NoneIn(s, Statuses)
         /\ ~x.connectionManager_ => \A c : NoneIn(s, CtxOf(c))
<1>1. \A i \in 1..Len(s) : s[i] \in Message /\ Subscribed(x, s[i]) BY DEF Waiting
<1>2. x.manager_ # "live" => NoneIn(s, Replugs) BY <1>1, Hears DEF NoneIn
<1>3. x.modem_ = None => NoneIn(s, Ifs) /\ NoneIn(s, Powereds)
  BY <1>1, Hears, BridgeAssumption DEF NoneIn
<1>4. x.sim_ # "live" => NoneIn(s, Presents) BY <1>1, Hears DEF NoneIn
<1>5. ~x.network_ => NoneIn(s, Statuses) BY <1>1, Hears DEF NoneIn
<1>6. ~x.connectionManager_ => \A c : NoneIn(s, CtxOf(c)) BY <1>1, Hears DEF NoneIn
<1>7. NoneIn(s, Replugs) => NoneIn(s, Added) /\ \A mdm : NoneIn(s, RemovalsOf(mdm))
  BY DEF NoneIn, Replugs, RemovalsOf
<1> QED BY <1>2, <1>3, <1>4, <1>5, <1>6, <1>7

\* the bridge y hears what the bridge x does of the signals in X
Keeps(x, y, X) == \A e \in X : Subscribed(x, e) => Subscribed(y, e)

\* Of which signals none is lost when the bridge x becomes y.
LEMMA KeepsKinds ==
  ASSUME NEW x, NEW y
  PROVE  /\ Keeps(x, y, Owners) /\ Keeps(x, y, Inits) /\ Keeps(x, y, Joins)
         /\ Keeps(x, y, Gone) /\ Keeps(x, y, Started)
         /\ (x.manager_ = "live" => y.manager_ = "live") =>
              /\ Keeps(x, y, Replugs) /\ Keeps(x, y, Removals) /\ Keeps(x, y, Added)
              /\ \A mdm : Keeps(x, y, Leaves(mdm))
         /\ (x.modem_ # None => y.modem_ = x.modem_) =>
              /\ Keeps(x, y, Ifs) /\ Keeps(x, y, IfsOrOwners)
              /\ \A id : Keeps(x, y, With(id)) /\ Keeps(x, y, Lacks(id))
              /\ \A faces : Keeps(x, y, Are(faces))
         /\ (x.sim_ = "live" => y.sim_ = "live") => Keeps(x, y, Presents)
         /\ (x.network_ => y.network_) => Keeps(x, y, Statuses)
         /\ (x.connectionManager_ => y.connectionManager_) =>
              \A c : Keeps(x, y, CtxOf(c))
<1>1. Keeps(x, y, Owners) /\ Keeps(x, y, Inits)
  BY Hears DEF Keeps, Owners, Inits, Kind
<1>2. (x.manager_ = "live" => y.manager_ = "live") => Keeps(x, y, Replugs)
  BY Hears DEF Keeps, Replugs, Removals, Added, Kind
<1>3. (x.modem_ # None => y.modem_ = x.modem_) => Keeps(x, y, Ifs)
  BY Hears, BridgeAssumption DEF Keeps, Ifs, Kind
<1>4. (x.sim_ = "live" => y.sim_ = "live") => Keeps(x, y, Presents)
  BY Hears DEF Keeps, Presents, Kind
<1>5. (x.network_ => y.network_) => Keeps(x, y, Statuses)
  BY Hears DEF Keeps, Statuses, Kind
<1>6. (x.connectionManager_ => y.connectionManager_) => \A c : Keeps(x, y, CtxOf(c))
  <2> SUFFICES ASSUME x.connectionManager_ => y.connectionManager_, NEW c,
                      NEW e \in CtxOf(c), Subscribed(x, e)
               PROVE  Subscribed(y, e)
    BY DEF Keeps
  <2>1. e \in Message BY DEF CtxOf, Kind
  <2> QED BY <2>1, Hears
<1>7. Keeps(x, y, Joins) /\ Keeps(x, y, Gone) /\ Keeps(x, y, Started)
  BY <1>1 DEF Keeps, Joins, Gone, Started
<1>8. Keeps(x, y, Replugs) => /\ Keeps(x, y, Removals) /\ Keeps(x, y, Added)
                              /\ \A mdm : Keeps(x, y, Leaves(mdm))
  BY Parts DEF Keeps
<1>9. Keeps(x, y, Ifs) => /\ Keeps(x, y, IfsOrOwners)
                          /\ \A id : Keeps(x, y, With(id)) /\ Keeps(x, y, Lacks(id))
                          /\ \A faces : Keeps(x, y, Are(faces))
  BY <1>1, Parts DEF Keeps, IfsOrOwners
<1> QED BY <1>1, <1>2, <1>3, <1>4, <1>5, <1>6, <1>7, <1>8, <1>9

\* What the calls return now.
LEMMA Snapshot ==
  DaemonOK =>
  /\ snapshot \in Reply
  /\ snapshot.sim = IF Offers(SM) THEN IF present THEN "present" ELSE "absent" ELSE "error"
  /\ snapshot.net = IF Offers(NR) THEN net ELSE "error"
  /\ Offers(NR) => snapshot.net # "error"
  /\ Offers(CM) => snapshot.cm = "all" /\ snapshot.ctx = ctx
  /\ \A c \in Contexts : snapshot.ctx[c] \in {"absent", ctx[c]}
<1> SUFFICES ASSUME DaemonOK
             PROVE  /\ snapshot \in Reply
                    /\ snapshot.sim = IF Offers(SM) THEN IF present THEN "present" ELSE "absent"
                                      ELSE "error"
                    /\ snapshot.net = IF Offers(NR) THEN net ELSE "error"
                    /\ Offers(NR) => snapshot.net # "error"
                    /\ Offers(CM) => snapshot.cm = "all" /\ snapshot.ctx = ctx
                    /\ \A c \in Contexts : snapshot.ctx[c] \in {"absent", ctx[c]}
  OBVIOUS
<1>1. snapshot \in Reply BY SnapshotReplies, BridgeAssumption
<1> DEFINE offered == {id \in ifs : Offers(id)}
<1>2. \A id : id \in offered <=> Offers(id) BY DEF Offers
<1>3. snapshot = Answers(offered, present, net, ctx) BY DEF snapshot
<1> HIDE DEF offered
<1>4. /\ snapshot.sim = IF SM \in offered THEN IF present THEN "present" ELSE "absent"
                        ELSE "error"
      /\ snapshot.net = IF NR \in offered THEN net ELSE "error"
      /\ snapshot.cm = IF CM \in offered THEN "all" ELSE "error"
      /\ snapshot.ctx = IF CM \in offered THEN ctx ELSE NoContexts
  BY <1>3 DEF Answers, SM, NR, CM
<1>5. net # "error" BY BridgeAssumption DEF DaemonOK
<1>6. \A c \in Contexts : NoContexts[c] = "absent" BY DEF NoContexts
<1> QED BY <1>1, <1>2, <1>4, <1>5, <1>6

----------------------------------------------------------------------------
(* What the handler of the signal m makes of the bridge x: the bridge y.    *)

\* what process_interfaces makes of the bridge, but for its modem
Read(x, faces, r, y) ==
  /\ y.interfaces_ = faces
  /\ Blank(y) => Blank(x)
  /\ Registered(y) => NR \in faces \/ (Registered(x) /\ NR \notin x.interfaces_)
  /\ NR \in x.interfaces_ \ faces => (y.network_ => Blank(x))
  /\ NR \notin faces => (y.network_ => x.network_ \/ r.net = "error")
  /\ SM \in x.interfaces_ \cap faces /\ x.sim_ # None =>
       y.sim_ = x.sim_ /\ y.has_sim_ = x.has_sim_
  /\ SM \in faces \ x.interfaces_ =>
       /\ r.sim = "error" => y.sim_ = "idle"
       /\ r.sim # "error" => y.sim_ = "live" /\ y.has_sim_ = (r.sim = "present")
  /\ NR \in faces \ x.interfaces_ /\ SM \in faces
       /\ (SM \in x.interfaces_ => x.sim_ # None) =>
       (y.has_sim_ =>
          y.network_ /\ (r.net # "error" => y.status_ = map_status(r.net)))
  /\ NR \in faces \cap x.interfaces_ /\ SM \in faces \cap x.interfaces_
       => SameRadio(x, y)
  /\ SM \in faces => ContextsRead(x, faces, r, y)
  /\ \A c \in Contexts :
       y.connectionContexts_[c] \in {x.connectionContexts_[c], r.ctx[c], "absent"}

Idled(m, x, y) ==
  /\ m \in Joins /\ (~up \/ modem = None)
  /\ SameObjects(x, y) /\ y.modem_ = x.modem_ /\ y.manager_ = "idle" /\ y.pub = x.pub

Joined(m, x, y) ==
  /\ m \in Joins /\ up /\ modem # None
  /\ y.modem_ = modem /\ y.manager_ = "live" /\ Read(x, ifs, snapshot, y)

\* oFono has left since it told of its modem
JoinedLate(m, x, y) ==
  /\ m \in Joins /\ x.manager_ = "idle"
  /\ y.modem_ = listed.modem /\ y.modem_ \in Modems
  /\ y.manager_ = "live" /\ Read(x, listed.ifs, snapshot, y) /\ Whole(listed.ifs)
  /\ restarted
  /\ Crash => /\ ~NoneIn(q, Gone) /\ LastIn(q, IfsOrOwners, Owners)
              /\ up => ifs = BeforeSim

Left(m, x, y) ==
  /\ m \in Gone
  /\ SameObjects(x, y) /\ y.modem_ = x.modem_ /\ y.manager_ = None
  /\ y.pub.RegistrationStatus = "offline"

Plugged(m, x, y) ==
  /\ m \in Added /\ m.path \in Modems /\ x.manager_ = "live"
  /\ y.modem_ = m.path /\ y.manager_ = "live" /\ Read(x, m.val, snapshot, y)

Unplugged(m, x, y) ==
  /\ m \in Removals /\ m.path \in Modems /\ x.manager_ = "live"
  /\ x.modem_ # m.path => y = x
  /\ x.modem_ = m.path =>
       /\ y.manager_ = "live" /\ y.modem_ = None /\ y.interfaces_ = x.interfaces_
       /\ y.sim_ = None /\ ~y.network_ /\ ~y.connectionManager_ /\ y.status_ \in Lost

Listed(m, x, y) ==
  /\ m \in Ifs /\ m.path \in Modems /\ x.modem_ = m.path
  /\ y.manager_ = x.manager_ /\ y.modem_ = x.modem_ /\ Read(x, m.val, snapshot, y)

Switched(m, x, y) ==
  /\ m \in Powereds /\ x.modem_ # None
  /\ y = x \/ (x.sim_ = None /\ Framed(x, y) /\ ~y.network_ /\ y.status_ \in Lost)

Carded(m, x, y) ==
  /\ m \in Presents /\ x.sim_ = "live" /\ PresentSet(x, m.val, snapshot, y)

Networked(m, x, y) ==
  /\ m \in Statuses /\ x.network_ /\ Framed(x, y)
  /\ Blank(y) => Blank(x)
  /\ x.sim_ # None =>
       /\ y.sim_ = x.sim_
       /\ ~x.has_sim_ => ~y.has_sim_
       /\ x.has_sim_ => y.has_sim_ /\ y.network_ /\ y.status_ = map_status(m.val)

Contexted(m, x, y) ==
  /\ m.path \in Contexts /\ m \in CtxOf(m.path) /\ x.connectionManager_
  /\ SameRadio(x, y) /\ SameModem(x, y) /\ y.connectionManager_
  /\ y.connectionContexts_ = [x.connectionContexts_ EXCEPT ![m.path] = m.val]

Handled(m, x, y) ==
  \/ Idled(m, x, y) \/ Joined(m, x, y) \/ JoinedLate(m, x, y) \/ Left(m, x, y)
  \/ Plugged(m, x, y) \/ Unplugged(m, x, y)
  \/ Listed(m, x, y) \/ Switched(m, x, y)
  \/ Carded(m, x, y) \/ Networked(m, x, y) \/ Contexted(m, x, y)

\* What is read of a bridge is read of one with the same objects.
LEMMA ReadAlike ==
  ASSUME NEW x, NEW z, NEW y, NEW faces, NEW r,
         SameObjects(x, z), Processed(z, faces, r, y)
  PROVE  Read(x, faces, r, y) /\ y.modem_ = z.modem_ /\ y.manager_ = z.manager_
<1>1. /\ z.interfaces_ = x.interfaces_ /\ z.sim_ = x.sim_ /\ z.network_ = x.network_
      /\ z.has_sim_ = x.has_sim_ /\ z.status_ = x.status_
      /\ z.connectionManager_ = x.connectionManager_
      /\ z.connectionContexts_ = x.connectionContexts_
  BY DEF SameObjects, SameRadio
<1>2. (Blank(z) <=> Blank(x)) /\ (Registered(z) <=> Registered(x))
  BY <1>1 DEF Blank, Registered
<1>3. SameRadio(z, y) <=> SameRadio(x, y) BY <1>1 DEF SameRadio
<1>4. ContextsRead(z, faces, r, y) <=> ContextsRead(x, faces, r, y)
  BY <1>1 DEF ContextsRead
<1> QED BY <1>1, <1>2, <1>3, <1>4 DEF Processed, Read, NR, SM

\* Connecting to the manager of an oFono that runs reads its modem.
LEMMA ConnectEffect ==
  ASSUME DaemonOK, Good(b), Asked, Answered, NEW m \in Joins, NEW y, y = connect
  PROVE  (Idled(m, b, y) \/ Joined(m, b, y) \/ JoinedLate(m, b, y)) /\ Follows(b, y)
<1>1. CASE listed = NotListed
  <2>1. y = [b EXCEPT !.manager_ = "idle"] /\ (~up \/ modem = None)
    BY <1>1 DEF connect, Answered
  <2>2. Idled(m, b, y) BY <2>1, ManagerEffect DEF Idled
  <2>3. "idle" \in ProxyState BY DEF ProxyState
  <2>4. Follows(b, y) BY <2>1, <2>3, BookkeepingGood DEF Kept
  <2> QED BY <2>2, <2>4
<1>2. CASE listed # NotListed
  <2> DEFINE mdm == listed.modem
             faces == listed.ifs
             powered == Powered(faces)
  <2>1. y = connect_manager(b, mdm, faces, powered, snapshot) BY <1>2 DEF connect
  <2>2. mdm \in Modems /\ faces \in SUBSET Interfaces /\ snapshot \in Reply
    BY <1>2, Snapshot, BridgeAssumption DEF DaemonOK
  <2>3. faces # {} => powered BY DEF Powered
  <2> HIDE DEF powered
  <2>4. PICK z : /\ SameObjects(b, z) /\ z.modem_ = mdm /\ z.manager_ = "live"
                 /\ Processed(z, faces, snapshot, y)
    <3> HIDE DEF mdm, faces
    <3>1. \E z : /\ SameObjects(b, z) /\ z.modem_ = mdm /\ z.manager_ = "live"
                 /\ Processed(z, faces, snapshot, connect_manager(b, mdm, faces, powered, snapshot))
      BY <2>2, <2>3, SetupModemEffect
    <3> QED BY <2>1, <3>1
  <2>5. Read(b, faces, snapshot, y) /\ y.modem_ = mdm /\ y.manager_ = "live"
    BY <2>4, ReadAlike
  <2>6. /\ b.manager_ = "idle" /\ Whole(faces)
        /\ \/ up /\ modem = mdm /\ ifs = faces
           \/ /\ restarted
              /\ Crash => /\ ~NoneIn(q, Gone) /\ LastIn(q, IfsOrOwners, Owners)
                          /\ up => ifs = BeforeSim
    BY <1>2 DEF Asked
  <2>7. Joined(m, b, y) \/ JoinedLate(m, b, y)
    BY <2>2, <2>5, <2>6, BridgeAssumption DEF Joined, JoinedLate
  <2> DEFINE w == setup_modem(b, mdm, faces, powered, snapshot)
  <2>8. Good(w) /\ Follows(b, w) BY <2>2, SetupModemGood
  <2>9. y = [w EXCEPT !.manager_ = "live"] BY <2>1 DEF connect_manager
  <2>10. "live" \in ProxyState BY DEF ProxyState
  <2> HIDE DEF w
  <2>11. Follows(w, y) BY <2>8, <2>9, <2>10, BookkeepingGood DEF Kept
  <2>12. Follows(b, y) BY <2>8, <2>11 DEF Follows
  <2> QED BY <2>7, <2>12
<1> QED BY <1>1, <1>2

\* Each signal is handled in one of these ways.
LEMMA DeliverEffect ==
  ASSUME SystemInv, Good(b), Asked, Deliver
  PROVE  /\ q # <<>> /\ q' = Heard(b', Tail(q)) /\ UNCHANGED daemon
         /\ listed' = NotListed
         /\ Head(q) \in Message /\ Subscribed(b, Head(q))
         /\ Handled(Head(q), b, b')
         /\ Head(q) \notin Owners => Follows(b, b')
<1> DEFINE m == Head(q)
<1>0. DaemonOK /\ Waiting(b, q) /\ snapshot \in Reply BY Snapshot DEF SystemInv
<1>1. q # <<>> /\ q' = Heard(b', Tail(q)) /\ UNCHANGED daemon /\ listed' = NotListed
  BY DEF Deliver, OnInit, OnNameOwnerChanged, OnModemAdded, OnModemRemoved, OnInterfaces,
         OnPowered, OnPresent, OnStatus, OnContext, Handle
<1>2. ASSUME NEW on, NEW z, Handle(on, z)
      PROVE  b' = z /\ m \in Message /\ m.on = on /\ Subscribed(b, m)
  BY <1>0, <1>2, HandleWaiting
<1> SUFFICES /\ m \in Message /\ Subscribed(b, m) /\ Handled(m, b, b')
             /\ m \notin Owners => Follows(b, b')
  BY <1>1
<1>3. path = m.path /\ val = m.val BY DEF path, val
<1> HIDE DEF m
<1>4. CASE OnInit
  <2>1. b' = connect /\ Answered /\ m \in Message /\ m.on = "Init" /\ Subscribed(b, m)
    BY <1>2, <1>4 DEF OnInit
  <2>2. m \in Joins BY <2>1, Kinds
  <2> QED BY <1>0, <2>1, <2>2, ConnectEffect DEF Handled
<1>5. CASE OnNameOwnerChanged
  <2>1. /\ b' = (IF val THEN connect ELSE reset_manager(b))
        /\ val => Answered
        /\ m \in Message /\ m.on = "NameOwnerChanged" /\ Subscribed(b, m)
    BY <1>2, <1>5 DEF OnNameOwnerChanged
  <2>2. m \in Owners BY <2>1, Kinds
  <2>3. CASE val
    <3>1. m \in Joins BY <1>3, <2>1, <2>3, Kinds
    <3> QED BY <1>0, <2>1, <2>2, <2>3, <3>1, ConnectEffect DEF Handled
  <2>4. CASE ~val
    <3>1. m \in Gone BY <1>3, <2>1, <2>4, Kinds
    <3>2. Left(m, b, b') BY <2>1, <2>4, <3>1, ManagerEffect DEF Left
    <3> QED BY <2>1, <2>2, <3>2 DEF Handled
  <2> QED BY <2>3, <2>4
<1>6. CASE OnModemAdded
  <2>1. /\ b' = setup_modem(b, m.path, m.val, Powered(m.val), snapshot)
        /\ m \in Message /\ m.on = "ModemAdded" /\ Subscribed(b, m)
    BY <1>2, <1>3, <1>6 DEF OnModemAdded
  <2>2. m \in Added /\ m \in Replugs BY <2>1, Kinds
  <2>3. m.path \in Modems /\ m.val \in SUBSET Interfaces
    BY <2>1, BridgeAssumption DEF Message
  <2>4. b.manager_ = "live" BY <2>1, <2>2, Hears
  <2>5. PICK z : /\ SameObjects(b, z) /\ z.modem_ = m.path /\ z.manager_ = b.manager_
                 /\ Processed(z, m.val, snapshot, b')
    <3>1. m.val # {} => Powered(m.val) BY DEF Powered
    <3> QED BY <1>0, <2>1, <2>3, <3>1, SetupModemEffect
  <2>6. Plugged(m, b, b') BY <2>2, <2>3, <2>4, <2>5, ReadAlike DEF Plugged
  <2>7. Follows(b, b') BY <1>0, <2>1, <2>3, SetupModemGood
  <2> QED BY <2>1, <2>6, <2>7 DEF Handled
<1>7. CASE OnModemRemoved
  <2>1. /\ b' = (IF b.modem_ = m.path THEN reset_modem(b, snapshot) ELSE b)
        /\ m \in Message /\ m.on = "ModemRemoved" /\ Subscribed(b, m)
    BY <1>2, <1>3, <1>7 DEF OnModemRemoved
  <2>2. m \in Removals /\ m \in Replugs BY <2>1, Kinds
  <2>3. m.path \in Modems BY <2>1 DEF Message
  <2>4. b.manager_ = "live" BY <2>1, <2>2, Hears
  <2>5. Unplugged(m, b, b')
    BY <1>0, <2>1, <2>2, <2>3, <2>4, ResetModemEffect DEF Unplugged
  <2>6. Follows(b, b')
    <3>1. b.modem_ = m.path => Follows(b, b')
      BY <1>0, <2>1, ResetModemGood DEF Follows
    <3>2. b.modem_ # m.path => Follows(b, b') BY <2>1 DEF Follows
    <3> QED BY <3>1, <3>2
  <2> QED BY <2>1, <2>5, <2>6 DEF Handled
<1>8. CASE OnInterfaces
  <2>1. /\ b' = process_interfaces(b, m.val, snapshot)
        /\ m \in Message /\ m.on = "Interfaces" /\ Subscribed(b, m)
    BY <1>2, <1>3, <1>8 DEF OnInterfaces
  <2>2. m \in Ifs BY <2>1, Kinds
  <2>3. m.path \in Modems /\ m.val \in SUBSET Interfaces
    BY <2>1, BridgeAssumption DEF Message
  <2>4. b.modem_ = m.path /\ b.modem_ # None BY <2>1, <2>2, <2>3, Hears, BridgeAssumption
  <2>5. Processed(b, m.val, snapshot, b')
    BY <1>0, <2>1, <2>3, <2>4, ProcessInterfacesEffect
  <2>6. SameObjects(b, b) BY DEF SameObjects, SameRadio
  <2>7. Listed(m, b, b') BY <2>2, <2>3, <2>4, <2>5, <2>6, ReadAlike DEF Listed
  <2>8. Follows(b, b') BY <1>0, <2>1, <2>3, <2>4, ProcessInterfacesGood DEF Kept
  <2> QED BY <2>1, <2>7, <2>8 DEF Handled
<1>9. CASE OnPowered
  <2>1. /\ b' = modem_powered(b, m.val, snapshot)
        /\ m \in Message /\ m.on = "Powered" /\ Subscribed(b, m)
    BY <1>2, <1>3, <1>9 DEF OnPowered
  <2>2. m \in Powereds BY <2>1, Kinds
  <2>3. b.modem_ # None BY <2>1, <2>2, Hears, BridgeAssumption
  <2>4. Switched(m, b, b')
    <3>1. CASE ~m.val /\ b.sim_ = None
      <4>1. b' = reset_sim(b, snapshot) BY <2>1, <3>1 DEF modem_powered
      <4> QED BY <1>0, <2>2, <2>3, <3>1, <4>1, ResetSimEffect DEF Switched
    <3>2. CASE ~(~m.val /\ b.sim_ = None)
      <4>1. b' = b BY <2>1, <3>2 DEF modem_powered
      <4> QED BY <2>2, <2>3, <4>1 DEF Switched
    <3> QED BY <3>1, <3>2
  <2>5. Follows(b, b') BY <1>0, <2>1, ModemPoweredGood DEF Kept
  <2> QED BY <2>1, <2>4, <2>5 DEF Handled
<1>10. CASE OnPresent
  <2>1. /\ b' = sim_present_by(LAMBDA br, s : set_status(br, s, snapshot), b, m.val)
        /\ m \in Message /\ m.on = "Present" /\ Subscribed(b, m)
    BY <1>2, <1>3, <1>10 DEF OnPresent, sim_present_by
  <2>2. m \in Presents BY <2>1, Kinds
  <2>3. b.sim_ = "live" /\ m.val \in BOOLEAN BY <2>1, <2>2, Hears DEF Message
  <2>4. b.sim_ # None BY <2>3 DEF None
  <2>5. PresentSet(b, m.val, snapshot, b') BY <1>0, <2>1, <2>3, <2>4, SimPresentEffect
  <2>6. Carded(m, b, b') BY <2>2, <2>3, <2>5 DEF Carded
  <2>7. Kept(b, b') BY <1>0, <2>1, <2>3, SimPresent1
  <2> QED BY <2>1, <2>6, <2>7 DEF Handled, Kept
<1>11. CASE OnStatus
  <2>1. /\ b' = net_update(b, "Status", m.val, snapshot)
        /\ m \in Message /\ m.on = "Status" /\ Subscribed(b, m)
    BY <1>2, <1>3, <1>11 DEF OnStatus
  <2>2. m \in Statuses BY <2>1, Kinds
  <2>3. b.network_ /\ m.val \in NetStatuses BY <2>1, <2>2, Hears DEF Message
  <2>4. NetValue("Status", m.val) BY <2>3 DEF NetValue
  <2>5. Networked(m, b, b') BY <1>0, <2>1, <2>2, <2>3, <2>4, NetUpdateEffect DEF Networked
  <2>6. Kept(b, b') BY <1>0, <2>1, <2>4, NetUpdate1 DEF net_update
  <2> QED BY <2>1, <2>5, <2>6 DEF Handled, Kept
<1>12. CASE OnContext
  <2>1. /\ b' = update_mms_context([b EXCEPT !.connectionContexts_[m.path] = m.val])
        /\ m \in Message /\ m.on = "Context" /\ Subscribed(b, m)
    BY <1>2, <1>3, <1>12 DEF OnContext
  <2>2. m \in CtxOf(m.path) BY <2>1, Kinds
  <2>3. b.connectionManager_ /\ m.path \in Contexts /\ m.val \in ContextKind
    BY <2>1, <2>2, Hears DEF Message
  <2>4. Contexted(m, b, b')
    <3>2. /\ SameRadio(b, b') /\ SameModem(b, b')
          /\ b'.connectionManager_ = b.connectionManager_
          /\ b'.connectionContexts_ = [b.connectionContexts_ EXCEPT ![m.path] = m.val]
      BY <2>1, <2>3 DEF Good, Weak, Bridge, Published, SameModem, SameRadio, update_mms_context
    <3> QED BY <2>2, <2>3, <3>2 DEF Contexted
  <2>5. Kept(b, b') BY <2>1, <2>3, ContextsGood
  <2> QED BY <2>1, <2>4, <2>5 DEF Handled, Kept
<1> QED BY <1>4, <1>5, <1>6, <1>7, <1>8, <1>9, <1>10, <1>11, <1>12 DEF Deliver

----------------------------------------------------------------------------
(* What each change of the daemon sends.                                    *)

\* e is the last signal in t
Latest(t, e) ==
  /\ \A X : e \in X => ~NoneIn(t, X)
  /\ \A X, Y : e \in X /\ e \in Y => LastIn(t, X, Y)
  /\ \A V, Z, Y : e \in Y => FollowedBy(t, V, Z, Y)

\* the signal e was sent, and nothing else
SentOnly(e) ==
  /\ \A X : e \notin X => Aside(q, q', X)
  /\ \A X : NoneIn(q', X) => NoneIn(q, X)
  /\ \/ Subscribed(b, e) /\ q' = Append(q, e) /\ Latest(q', e)
     \/ ~Subscribed(b, e) /\ q' = q

\* the signal e was sent and then f
SentBoth(e, f) ==
  /\ \A X : e \notin X /\ f \notin X => Aside(q, q', X)
  /\ \A X : NoneIn(q', X) => NoneIn(q, X)
  /\ Subscribed(b, e) => /\ \A X : e \in X => ~NoneIn(q', X)
                         /\ \A X, Y : e \in X /\ f \notin X /\ e \in Y => LastIn(q', X, Y)
  /\ ~Subscribed(b, e) => \A X : f \notin X => Aside(q, q', X)
  /\ Subscribed(b, f) => Latest(q', f)

\* What is sent leaves what it leaves.
LEMMA SentOne ==
  ASSUME q \in Seq(Message), NEW e \in Message, Send(<<e>>), ~missed'
  PROVE  SentOnly(e)
<1>1. Sent(q, e, q') BY SendOne
<1> DEFINE t == q'
<1> HIDE DEF t
<1>2. Sent(q, e, t) BY <1>1 DEF t
<1>3. /\ \A X : e \notin X => Aside(q, t, X)
      /\ \A X : NoneIn(t, X) => NoneIn(q, X)
      /\ Subscribed(b, e) => Latest(t, e)
  BY <1>2, SentAside DEF Latest
<1> QED BY <1>2, <1>3 DEF SentOnly, Sent, t

\* One signal and then another.
LEMMA SentTwo ==
  ASSUME q \in Seq(Message), NEW e \in Message, NEW f \in Message, Send(<<e, f>>), ~missed'
  PROVE  SentBoth(e, f)
<1>1. PICK t : Sent(q, e, t) /\ Sent(t, f, q') BY SendTwo
<1> DEFINE u == q'
<1> HIDE DEF u
<1>2. Sent(t, f, u) BY <1>1 DEF u
<1>3. /\ t \in Seq(Message)
      /\ \A X : e \notin X => Aside(q, t, X)
      /\ \A X : NoneIn(t, X) => NoneIn(q, X)
      /\ ~Subscribed(b, e) => t = q
      /\ Subscribed(b, e) => Latest(t, e)
  BY <1>1, SentAside DEF Latest
<1>4. /\ \A X : f \notin X => Aside(t, u, X)
      /\ \A X : NoneIn(u, X) => NoneIn(t, X)
      /\ Subscribed(b, f) => Latest(u, f)
  BY <1>2, <1>3, SentAside DEF Latest
<1>5. ASSUME NEW X, e \notin X, f \notin X PROVE Aside(q, u, X)
  <2>1. Aside(q, t, X) /\ Aside(t, u, X) BY <1>3, <1>4, <1>5
  <2> QED BY <2>1 DEF Aside
<1>6. ASSUME Subscribed(b, e)
      PROVE  /\ \A X : e \in X => ~NoneIn(u, X)
             /\ \A X, Y : e \in X /\ f \notin X /\ e \in Y => LastIn(u, X, Y)
  BY <1>3, <1>4, <1>6 DEF Latest, Aside
<1>7. \A X : NoneIn(u, X) => NoneIn(q, X) BY <1>3, <1>4
<1> QED BY <1>3, <1>4, <1>5, <1>6, <1>7 DEF SentBoth, u

\* a modem offers other interfaces
Relists == PowerOn \/ PowerOff \/ GoOnline

\* What the changes of the daemon send.
LEMMA DaemonSends ==
  ASSUME SystemInv, ~missed'
  PROVE  /\ Start => \E e \in Message : e \in Started /\ SentOnly(e)
         /\ Stop => \E e \in Message : e \in Gone /\ SentOnly(e)
         /\ AddModem => \E e \in Message :
              e \in Added /\ e.path = modem' /\ e.val = {} /\ SentOnly(e)
         /\ RemoveModem => \E e \in Message :
              e \in Removals /\ e.path = modem /\ SentOnly(e)
         /\ PowerOn \/ GoOnline => \E e \in Message :
              e \in Are(ifs') /\ e.path = modem /\ SentOnly(e)
         /\ PowerOff => \E e, f \in Message :
              e \in Are(ifs') /\ e.path = modem /\ f \in Powereds /\ SentBoth(e, f)
         /\ InsertSim => \E e \in Message : e \in PresentIs(present') /\ SentOnly(e)
         /\ RemoveSim => \E e \in Message :
              /\ e \in PresentIs(present')
              /\ \/ ifs = BeforeSim /\ SentOnly(e)
                 \/ \E f \in Message : f \in Are(ifs') /\ f.path = modem /\ SentBoth(e, f)
         /\ NewStatus => \E e \in Message : e \in StatusIs(net') /\ SentOnly(e)
         /\ NewContext => \E e \in Message, c \in Contexts, k \in ContextKind :
              ctx' = [ctx EXCEPT ![c] = k] /\ e \in CtxIs(c, k) /\ SentOnly(e)
<1>0. /\ q \in Seq(Message) /\ modem \in Modems \cup {None} /\ ifs \in InterfaceSets
      /\ {} \in InterfaceSets /\ BeforeSim \in InterfaceSets
  BY SystemAssumption DEF SystemInv, DaemonOK, Waiting
<1>1. ASSUME Start PROVE \E e \in Message : e \in Started /\ SentOnly(e)
  <2> DEFINE e == Signal("NameOwnerChanged", None, TRUE)
  <2>1. e \in Message BY SignalTypes
  <2>2. e \in Started BY <2>1, Kinds DEF Signal
  <2> QED BY <1>0, <1>1, <2>1, <2>2, SentOne DEF Start
<1>2. ASSUME Stop PROVE \E e \in Message : e \in Gone /\ SentOnly(e)
  <2> DEFINE e == Signal("NameOwnerChanged", None, FALSE)
  <2>1. e \in Message BY SignalTypes
  <2>2. e \in Gone BY <2>1, Kinds DEF Signal
  <2> QED BY <1>0, <1>2, <2>1, <2>2, SentOne DEF Stop
<1>3. ASSUME AddModem
      PROVE  \E e \in Message : e \in Added /\ e.path = modem' /\ e.val = {} /\ SentOnly(e)
  <2> DEFINE e == Signal("ModemAdded", modem', {})
  <2>1. e \in Message BY <1>0, <1>3, SignalTypes DEF AddModem
  <2>2. e \in Added /\ e.path = modem' /\ e.val = {} BY <2>1, Kinds DEF Signal
  <2>3. SentOnly(e) BY <1>0, <1>3, <2>1, SentOne DEF AddModem
  <2> QED BY <2>1, <2>2, <2>3
<1>4. ASSUME RemoveModem
      PROVE  \E e \in Message : e \in Removals /\ e.path = modem /\ SentOnly(e)
  <2> DEFINE e == Signal("ModemRemoved", modem, {})
  <2>1. e \in Message BY <1>0, <1>4, SignalTypes DEF RemoveModem
  <2>2. e \in Removals /\ e.path = modem BY <2>1, Kinds DEF Signal
  <2>3. SentOnly(e) BY <1>0, <1>4, <2>1, SentOne DEF RemoveModem
  <2> QED BY <2>1, <2>2, <2>3
<1>5. ASSUME NEW faces \in InterfaceSets, modem # None
      PROVE  /\ Signal("Interfaces", modem, faces) \in Message
             /\ Signal("Interfaces", modem, faces) \in Are(faces)
             /\ Signal("Interfaces", modem, faces).path = modem
  <2> DEFINE e == Signal("Interfaces", modem, faces)
  <2>1. e \in Message BY <1>0, <1>5, SignalTypes
  <2>2. e \in Ifs /\ e.path = modem BY <2>1, Kinds DEF Signal
  <2>3. e \in Are(faces) BY <2>1, <2>2, Faces DEF Signal
  <2> QED BY <2>1, <2>2, <2>3
<1>6. ASSUME PowerOn \/ GoOnline
      PROVE  \E e \in Message : e \in Are(ifs') /\ e.path = modem /\ SentOnly(e)
  <2> DEFINE e == Signal("Interfaces", modem, ifs')
  <2>1. ifs' \in InterfaceSets /\ modem # None /\ Send(<<e>>)
    BY <1>0, <1>6 DEF PowerOn, GoOnline, SetInterfaces, Offers
  <2>2. e \in Message /\ e \in Are(ifs') /\ e.path = modem BY <1>5, <2>1
  <2>3. SentOnly(e) BY <1>0, <2>1, <2>2, SentOne
  <2> QED BY <2>2, <2>3
<1>7. ASSUME PowerOff
      PROVE  \E e, f \in Message :
              e \in Are(ifs') /\ e.path = modem /\ f \in Powereds /\ SentBoth(e, f)
  <2> DEFINE e == Signal("Interfaces", modem, ifs')
             f == Signal("Powered", modem, FALSE)
  <2>1. ifs' \in InterfaceSets /\ modem # None /\ Send(<<e, f>>)
    BY <1>0, <1>7 DEF PowerOff
  <2>2. e \in Message /\ e \in Are(ifs') /\ e.path = modem BY <1>5, <2>1
  <2>3. f \in Message BY <1>0, <2>1, SignalTypes
  <2>4. f \in Powereds BY <2>3, Kinds DEF Signal
  <2>5. SentBoth(e, f) BY <1>0, <2>1, <2>2, <2>3, SentTwo
  <2> QED BY <2>2, <2>3, <2>4, <2>5
<1>8. ASSUME modem # None, NEW v \in BOOLEAN
      PROVE  /\ Signal("Present", modem, v) \in Message
             /\ Signal("Present", modem, v) \in PresentIs(v)
  <2> DEFINE e == Signal("Present", modem, v)
  <2>1. e \in Message BY <1>0, <1>8, SignalTypes
  <2> QED BY <2>1, Kinds DEF Signal
<1>9. ASSUME InsertSim PROVE \E e \in Message : e \in PresentIs(present') /\ SentOnly(e)
  <2> DEFINE e == Signal("Present", modem, present')
  <2>1. modem # None /\ present' \in BOOLEAN /\ Send(<<e>>) BY <1>9 DEF InsertSim, Offers
  <2>2. e \in Message /\ e \in PresentIs(present') BY <1>8, <2>1
  <2>3. SentOnly(e) BY <1>0, <2>1, <2>2, SentOne
  <2> QED BY <2>2, <2>3
<1>10. ASSUME RemoveSim
       PROVE  \E e \in Message :
              /\ e \in PresentIs(present')
              /\ \/ ifs = BeforeSim /\ SentOnly(e)
                 \/ \E f \in Message : f \in Are(ifs') /\ f.path = modem /\ SentBoth(e, f)
  <2> DEFINE e == Signal("Present", modem, present')
             f == Signal("Interfaces", modem, ifs')
  <2>1. /\ modem # None /\ present' \in BOOLEAN /\ ifs' = BeforeSim
        /\ Send(IF ifs = BeforeSim THEN <<e>> ELSE <<e, f>>)
    BY <1>10 DEF RemoveSim, Offers
  <2>2. e \in Message /\ e \in PresentIs(present') BY <1>8, <2>1
  <2>3. f \in Message /\ f \in Are(ifs') /\ f.path = modem BY <1>0, <1>5, <2>1
  <2>4. CASE ifs = BeforeSim
    <3>1. SentOnly(e) BY <1>0, <2>1, <2>2, <2>4, SentOne
    <3> QED BY <2>2, <2>4, <3>1
  <2>5. CASE ifs # BeforeSim
    <3>1. SentBoth(e, f) BY <1>0, <2>1, <2>2, <2>3, <2>5, SentTwo
    <3> QED BY <2>2, <2>3, <3>1
  <2> QED BY <2>4, <2>5
<1>11. ASSUME NewStatus PROVE \E e \in Message : e \in StatusIs(net') /\ SentOnly(e)
  <2> DEFINE e == Signal("Status", modem, net')
  <2>1. modem # None /\ net' \in NetStatuses /\ Send(<<e>>) BY <1>11 DEF NewStatus, Offers
  <2>2. e \in Message BY <1>0, <2>1, SignalTypes
  <2>3. e \in StatusIs(net') BY <2>2, Kinds DEF Signal
  <2>4. SentOnly(e) BY <1>0, <2>1, <2>2, SentOne
  <2> QED BY <2>2, <2>3, <2>4
<1>12. ASSUME NewContext
       PROVE  \E e \in Message, c \in Contexts, k \in ContextKind :
              ctx' = [ctx EXCEPT ![c] = k] /\ e \in CtxIs(c, k) /\ SentOnly(e)
  <2>1. PICK c \in Contexts, k \in ContextKind \ {"plain"} :
          ctx' = [ctx EXCEPT ![c] = k] /\ Send(<<Signal("Context", c, k)>>)
    BY <1>12 DEF NewContext
  <2> DEFINE e == Signal("Context", c, k)
  <2>2. e \in Message BY SignalTypes
  <2>3. e \in CtxIs(c, k) BY <2>2, Kinds DEF Signal
  <2>4. SentOnly(e) BY <1>0, <2>1, <2>2, SentOne
  <2> QED BY <2>1, <2>2, <2>3, <2>4
<1> QED BY <1>1, <1>2, <1>3, <1>4, <1>6, <1>7, <1>9, <1>10, <1>11, <1>12

\* no signal of the kinds was sent
NoOwner == /\ Aside(q, q', Owners) /\ Aside(q, q', Inits) /\ Aside(q, q', Started)
           /\ Aside(q, q', Gone) /\ Aside(q, q', Joins)
NoPlug == /\ Aside(q, q', Replugs) /\ Aside(q, q', Removals) /\ Aside(q, q', Added)
          /\ \A mdm : Aside(q, q', RemovalsOf(mdm))
NoList == /\ Aside(q, q', Ifs)
          /\ \A id : Aside(q, q', With(id)) /\ Aside(q, q', Lacks(id))
NoCard == Aside(q, q', Presents)
NoStatus == Aside(q, q', Statuses)
NoContext == \A c : Aside(q, q', CtxOf(c))
NoBoth == Aside(q, q', IfsOrOwners)

\* What a change does not concern it sends nothing of.
LEMMA Unsent ==
  ASSUME SystemInv, ~missed', Daemon
  PROVE  /\ \A X : NoneIn(q', X) => NoneIn(q, X)
         /\ Aside(q, q', Inits)
         /\ Start \/ Stop => NoPlug /\ NoList /\ NoCard /\ NoStatus /\ NoContext
         /\ AddModem \/ RemoveModem =>
              NoOwner /\ NoList /\ NoCard /\ NoStatus /\ NoContext /\ NoBoth
         /\ Relists => NoOwner /\ NoPlug /\ NoCard /\ NoStatus /\ NoContext
         /\ InsertSim => NoOwner /\ NoPlug /\ NoList /\ NoStatus /\ NoContext /\ NoBoth
         /\ RemoveSim => NoOwner /\ NoPlug /\ NoStatus /\ NoContext
         /\ NewStatus => NoOwner /\ NoPlug /\ NoList /\ NoCard /\ NoContext /\ NoBoth
         /\ NewContext => NoOwner /\ NoPlug /\ NoList /\ NoCard /\ NoStatus /\ NoBoth
<1> DEFINE Rest(e) == /\ e \notin Owners /\ e \notin Inits => NoOwner
                      /\ e \notin Inits => Aside(q, q', Inits)
                      /\ e \notin Replugs => NoPlug
                      /\ e \notin Ifs => NoList
                      /\ e \notin Presents => NoCard
                      /\ e \notin Statuses => NoStatus
                      /\ e.on # "Context" => NoContext
                      /\ e \notin Ifs /\ e \notin Owners => NoBoth
           Both(e, f) == /\ {e, f} \cap (Owners \cup Inits) = {} => NoOwner
                         /\ {e, f} \cap Inits = {} => Aside(q, q', Inits)
                         /\ {e, f} \cap Replugs = {} => NoPlug
                         /\ {e, f} \cap Ifs = {} => NoList
                         /\ {e, f} \cap Presents = {} => NoCard
                         /\ {e, f} \cap Statuses = {} => NoStatus
                         /\ e.on # "Context" /\ f.on # "Context" => NoContext
<1>1. ASSUME NEW e \in Message, NEW f \in Message,
             \A X : e \notin X /\ f \notin X => Aside(q, q', X)
      PROVE  Both(e, f)
  BY <1>1, Kinds, Faces DEF NoOwner, NoPlug, NoList, NoCard, NoStatus, NoContext
<1>2. ASSUME NEW e \in Message, SentOnly(e)
      PROVE  Rest(e) /\ \A X : NoneIn(q', X) => NoneIn(q, X)
  <2>1. Both(e, e) BY <1>1, <1>2 DEF SentOnly
  <2>2. e \notin Ifs /\ e \notin Owners => NoBoth
    BY <1>2, Kinds DEF SentOnly, NoBoth
  <2> QED BY <1>2, <2>1, <2>2 DEF SentOnly
<1>3. ASSUME NEW e \in Message, NEW f \in Message, SentBoth(e, f)
      PROVE  Both(e, f) /\ \A X : NoneIn(q', X) => NoneIn(q, X)
  BY <1>1, <1>3 DEF SentBoth
<1>4. \A e \in Message : /\ e \in Started \/ e \in Gone => e \in Owners
                         /\ \A faces : e \in Are(faces) => e \in Ifs
                         /\ \A v : e \in PresentIs(v) => e \in Presents
                         /\ \A v : e \in StatusIs(v) => e \in Statuses
                         /\ \A c, k : e \in CtxIs(c, k) => e.on = "Context"
  BY Kinds, Faces
<1> HIDE DEF Rest, Both
<1> DEFINE Always == Aside(q, q', Inits) /\ \A X : NoneIn(q', X) => NoneIn(q, X)
<1>5. ASSUME Start \/ Stop
      PROVE  Always /\ NoPlug /\ NoList /\ NoCard /\ NoStatus /\ NoContext
  <2>1. PICK e \in Message : e \in Owners /\ SentOnly(e) BY <1>4, <1>5, DaemonSends
  <2> QED BY <1>2, <1>5, <2>1, Kinds DEF Rest
<1>6. ASSUME AddModem \/ RemoveModem
      PROVE  Always /\ NoOwner /\ NoList /\ NoCard /\ NoStatus /\ NoContext /\ NoBoth
  <2>1. PICK e \in Message : e \in Replugs /\ SentOnly(e) BY <1>6, DaemonSends, Kinds
  <2> QED BY <1>2, <1>6, <2>1, Kinds DEF Rest
<1>7. ASSUME PowerOn \/ GoOnline
      PROVE  Always /\ NoOwner /\ NoPlug /\ NoCard /\ NoStatus /\ NoContext
  <2>1. PICK e \in Message : e \in Ifs /\ SentOnly(e) BY <1>4, <1>7, DaemonSends
  <2> QED BY <1>2, <1>7, <2>1, Kinds DEF Rest
<1>8. ASSUME PowerOff
      PROVE  Always /\ NoOwner /\ NoPlug /\ NoCard /\ NoStatus /\ NoContext
  <2>1. PICK e \in Message, f \in Message : e \in Ifs /\ f \in Powereds /\ SentBoth(e, f)
    BY <1>4, <1>8, DaemonSends
  <2> QED BY <1>3, <1>8, <2>1, Kinds DEF Both
<1>9. ASSUME InsertSim
      PROVE  Always /\ NoOwner /\ NoPlug /\ NoList /\ NoStatus /\ NoContext /\ NoBoth
  <2>1. PICK e \in Message : e \in Presents /\ SentOnly(e) BY <1>4, <1>9, DaemonSends
  <2> QED BY <1>2, <1>9, <2>1, Kinds DEF Rest
<1>10. ASSUME RemoveSim
       PROVE  Always /\ NoOwner /\ NoPlug /\ NoStatus /\ NoContext
  <2>1. PICK e \in Message : /\ e \in Presents
                             /\ \/ SentOnly(e)
                                \/ \E f \in Message : f \in Ifs /\ SentBoth(e, f)
    BY <1>4, <1>10, DaemonSends
  <2>2. CASE SentOnly(e) BY <1>2, <1>10, <2>1, <2>2, Kinds DEF Rest
  <2>3. ASSUME NEW f \in Message, f \in Ifs, SentBoth(e, f)
        PROVE  Both(e, f) /\ \A X : NoneIn(q', X) => NoneIn(q, X)
    BY <1>3, <2>3
  <2>4. ASSUME NEW f \in Message, f \in Ifs, SentBoth(e, f)
        PROVE  NoOwner /\ NoPlug /\ NoStatus /\ NoContext /\ Aside(q, q', Inits)
               /\ \A X : NoneIn(q', X) => NoneIn(q, X)
    BY <2>1, <2>3, <2>4, Kinds DEF Both
  <2> QED BY <1>10, <2>1, <2>2, <2>4
<1>11. ASSUME NewStatus
       PROVE  Always /\ NoOwner /\ NoPlug /\ NoList /\ NoCard /\ NoContext /\ NoBoth
  <2>1. PICK e \in Message : e \in Statuses /\ SentOnly(e) BY <1>4, <1>11, DaemonSends
  <2> QED BY <1>2, <1>11, <2>1, Kinds DEF Rest
<1>12. ASSUME NewContext
       PROVE  Always /\ NoOwner /\ NoPlug /\ NoList /\ NoCard /\ NoStatus /\ NoBoth
  <2>1. PICK e \in Message : e.on = "Context" /\ SentOnly(e) BY <1>4, <1>12, DaemonSends
  <2> QED BY <1>2, <1>12, <2>1, Kinds DEF Rest
<1> QED BY <1>5, <1>6, <1>7, <1>8, <1>9, <1>10, <1>11, <1>12 DEF Daemon, Relists

\* neither oFono nor its modem comes or goes
Calm == /\ b' = b /\ (restarted' <=> restarted) /\ (replugged' <=> replugged)
        /\ up' = up /\ modem' = modem

\* What the changes change.
LEMMA Changes ==
  /\ Start => /\ b' = b /\ restarted' /\ (replugged' <=> replugged)
              /\ ~up /\ up' /\ ifs' = BeforeSim /\ net' = net /\ ctx' = ctx
  /\ Stop => /\ b' = b /\ restarted' /\ (replugged' <=> replugged) /\ up /\ ~up'
             /\ modem' = modem /\ ifs' = ifs /\ present' = present
             /\ net' = net /\ ctx' = ctx
  /\ AddModem => /\ b' = b /\ (restarted' <=> restarted) /\ replugged' /\ up' = up
                 /\ up /\ modem = None /\ modem' \in Modems /\ ifs' = {}
                 /\ net' = net /\ ctx' = ctx
  /\ RemoveModem => /\ b' = b /\ (restarted' <=> restarted) /\ replugged' /\ up' = up
                    /\ up /\ modem # None /\ modem' = None
                    /\ ifs' = ifs /\ present' = present /\ net' = net /\ ctx' = ctx
  /\ Relists => /\ Calm /\ up /\ modem # None
                /\ present' = present /\ net' = net /\ ctx' = ctx
                /\ \/ ifs = {} /\ ifs' = BeforeSim
                   \/ ifs' = {}
                   \/ BeforeSim \subseteq ifs' /\ present
  /\ InsertSim => /\ Calm /\ Offers(SM) /\ ~present /\ present' = TRUE
                  /\ ifs' = ifs /\ net' = net /\ ctx' = ctx
  /\ RemoveSim => /\ Calm /\ Offers(SM) /\ present /\ present' = FALSE
                  /\ ifs' = BeforeSim /\ net' = net /\ ctx' = ctx
  /\ NewStatus => /\ Calm /\ Offers(NR) /\ ifs' = ifs /\ present' = present /\ ctx' = ctx
  /\ NewContext => /\ Calm /\ Offers(CM) /\ ifs' = ifs /\ present' = present /\ net' = net
  /\ Daemon <=> \/ Start \/ Stop \/ AddModem \/ RemoveModem \/ Relists \/ InsertSim
                \/ RemoveSim \/ NewStatus \/ NewContext
<1>1. Start => /\ b' = b /\ restarted' /\ (replugged' <=> replugged)
               /\ ~up /\ up' /\ ifs' = BeforeSim /\ net' = net /\ ctx' = ctx
  BY DEF Start, Move
<1>2. Stop => /\ b' = b /\ restarted' /\ (replugged' <=> replugged) /\ up /\ ~up'
              /\ modem' = modem /\ ifs' = ifs /\ present' = present /\ net' = net /\ ctx' = ctx
  BY DEF Stop, Move
<1>3. AddModem => /\ b' = b /\ (restarted' <=> restarted) /\ replugged' /\ up' = up
                  /\ up /\ modem = None /\ modem' \in Modems /\ ifs' = {}
                  /\ net' = net /\ ctx' = ctx
  BY DEF AddModem, Move
<1>4. RemoveModem => /\ b' = b /\ (restarted' <=> restarted) /\ replugged' /\ up' = up
                     /\ up /\ modem # None /\ modem' = None
                     /\ ifs' = ifs /\ present' = present /\ net' = net /\ ctx' = ctx
  BY DEF RemoveModem, Move
<1>5. Relists => /\ Calm /\ up /\ modem # None
                 /\ present' = present /\ net' = net /\ ctx' = ctx
                 /\ \/ ifs = {} /\ ifs' = BeforeSim
                    \/ ifs' = {}
                    \/ BeforeSim \subseteq ifs' /\ present
  BY DEF Relists, PowerOn, PowerOff, GoOnline, SetInterfaces, Move, Offers, Calm
<1>6. InsertSim => /\ Calm /\ Offers(SM) /\ ~present /\ present' = TRUE
                   /\ ifs' = ifs /\ net' = net /\ ctx' = ctx
  BY DEF InsertSim, Move, SM, Calm
<1>7. RemoveSim => /\ Calm /\ Offers(SM) /\ present /\ present' = FALSE
                   /\ ifs' = BeforeSim /\ net' = net /\ ctx' = ctx
  BY DEF RemoveSim, Move, SM, Calm
<1>8. NewStatus => /\ Calm /\ Offers(NR) /\ ifs' = ifs /\ present' = present /\ ctx' = ctx
  BY DEF NewStatus, Move, NR, Calm
<1>9. NewContext => /\ Calm /\ Offers(CM) /\ ifs' = ifs /\ present' = present /\ net' = net
  BY DEF NewContext, Move, CM, Calm
<1>10. Daemon <=> \/ Start \/ Stop \/ AddModem \/ RemoveModem \/ Relists \/ InsertSim
                  \/ RemoveSim \/ NewStatus \/ NewContext
  BY DEF Daemon, Relists
<1> QED BY <1>1, <1>2, <1>3, <1>4, <1>5, <1>6, <1>7, <1>8, <1>9, <1>10

----------------------------------------------------------------------------
(* The changes of the daemon keep each part of the invariant.               *)

\* Without a modem the bridge has no proxy of its objects.
LEMMA Proxies ==
  ASSUME Good(b)
  PROVE  /\ b \in Bridge
         /\ b.modem_ = None => b.sim_ = None /\ ~b.network_ /\ ~b.connectionManager_
         /\ ~b.connectionManager_ => b.connectionContexts_ = NoContexts
BY DEF Good, Weak, OwnersKept

\* What a change does, if it is not of oFono or its modem, leaves their signals.
LEMMA Quiet ==
  ASSUME SystemInv, ~missed', Daemon
  PROVE  \/ Start \/ Stop \/ AddModem \/ RemoveModem
         \/ Calm /\ NoOwner /\ NoPlug /\ up /\ modem # None
<1>1. \/ Start \/ Stop \/ AddModem \/ RemoveModem \/ Relists \/ InsertSim
      \/ RemoveSim \/ NewStatus \/ NewContext
  BY Changes
<1>2. Relists => Calm /\ NoOwner /\ NoPlug /\ up /\ modem # None
  BY Changes, Unsent DEF Offers
<1>3. InsertSim => Calm /\ NoOwner /\ NoPlug /\ up /\ modem # None
  BY Changes, Unsent DEF Offers
<1>4. RemoveSim => Calm /\ NoOwner /\ NoPlug /\ up /\ modem # None
  BY Changes, Unsent DEF Offers
<1>5. NewStatus => Calm /\ NoOwner /\ NoPlug /\ up /\ modem # None
  BY Changes, Unsent DEF Offers
<1>6. NewContext => Calm /\ NoOwner /\ NoPlug /\ up /\ modem # None
  BY Changes, Unsent DEF Offers
<1> QED BY <1>1, <1>2, <1>3, <1>4, <1>5, <1>6

\* Only a restart sends a signal of the owner, and only a modem that comes or goes
\* one of the manager.
LEMMA WorldDaemon == Beside /\ Daemon /\ ~missed' => World'
<1> SUFFICES ASSUME Beside, Daemon, ~missed' PROVE World' OBVIOUS
<1>1. SystemInv /\ World BY DEF Beside
<1>2. CASE Start \/ Stop
  <2>1. restarted' /\ (replugged' <=> replugged) /\ Aside(q, q', Replugs)
    BY <1>1, <1>2, Changes, Unsent DEF NoPlug
  <2> QED BY <1>1, <2>1 DEF World, Aside
<1>3. CASE AddModem \/ RemoveModem
  <2>1. replugged' /\ (restarted' <=> restarted) /\ Aside(q, q', Owners)
    BY <1>1, <1>3, Changes, Unsent DEF NoOwner
  <2> QED BY <1>1, <2>1 DEF World, Aside
<1>4. CASE Calm /\ NoOwner /\ NoPlug
  BY <1>1, <1>4 DEF World, Aside, Calm, NoOwner, NoPlug
<1> QED BY <1>1, <1>2, <1>3, <1>4, Quiet

\* The daemon leaves the bridge alone.
LEMMA BridgeStays == Daemon => b' = b
BY Changes DEF Calm

\* What the daemon sends comes after the first signal of all.
LEMMA FirstDaemon == Beside /\ Daemon /\ ~missed' => First'
<1> SUFFICES ASSUME Beside, Daemon, ~missed' PROVE First' OBVIOUS
<1>1. SystemInv /\ First BY DEF Beside
<1>2. Aside(q, q', Inits) /\ b' = b BY <1>1, Unsent, BridgeStays
<1>3. AllTold(q', Inits, {}, Message, TRUE) BY <1>1, <1>2 DEF First, Aside
<1>4. ~NoneIn(q', Inits) =>
        b'.manager_ # "live" /\ b' = [InitBridge EXCEPT !.manager_ = b'.manager_]
  BY <1>1, <1>2 DEF First, Aside
<1> QED BY <1>3, <1>4 DEF First

\* What is sent comes after what waits.
LEMMA HeadStays ==
  ASSUME SystemInv, Daemon, q # <<>>
  PROVE  q' # <<>> /\ Head(q') = Head(q)
<1>1. PICK s \in Seq(Message) : Send(s) BY DaemonSpeaks
<1> DEFINE keep == {i \in 1..Len(s) : Subscribed(b, s[i])} \ {i \in 1..Len(s) : Unheard(s[i])}
           h == SelectAt(s, keep)
<1>2. q' = q \o h BY <1>1 DEF Send
<1> HIDE DEF keep
<1>3. h \in Seq(Message) /\ q \in Seq(Message) BY LeftIsLeft DEF SystemInv, Waiting
<1> HIDE DEF h
<1> QED BY <1>2, <1>3

\* No list and no modem is lost while the bridge is about to connect to it.
LEMMA Window ==
  ASSUME SystemInv, listed # NotListed, modem = listed.modem, ~missed'
  PROVE  ~RemoveModem /\ ~Relists /\ (RemoveSim => ifs = BeforeSim)
<1>1. ASSUME NEW s, Send(s), NEW i \in 1..Len(s) PROVE ~Unheard(s[i])
  BY <1>1 DEF Send
<1>2. ASSUME NEW m, (m.on = "Interfaces" /\ m.path = modem) \/ m.on = "ModemRemoved"
      PROVE  Unheard(m)
  BY <1>2 DEF Unheard, Replug
<1>3. ASSUME NEW m, (m.on = "Interfaces" /\ m.path = modem) \/ m.on = "ModemRemoved",
             Send(<<m>>)
      PROVE  FALSE
  <2>1. 1 \in 1..Len(<<m>>) /\ <<m>>[1] = m OBVIOUS
  <2> QED BY <1>1, <1>2, <1>3, <2>1
<1>4. ASSUME NEW m, NEW n, Send(<<m, n>>) PROVE ~Unheard(m) /\ ~Unheard(n)
  <2>1. /\ 1 \in 1..Len(<<m, n>>) /\ <<m, n>>[1] = m
        /\ 2 \in 1..Len(<<m, n>>) /\ <<m, n>>[2] = n
    OBVIOUS
  <2>2. ~Unheard(<<m, n>>[1]) /\ ~Unheard(<<m, n>>[2]) BY <1>1, <1>4, <2>1
  <2> QED BY <2>1, <2>2
<1>5. /\ \A new : Signal("Interfaces", modem, new).on = "Interfaces"
                  /\ Signal("Interfaces", modem, new).path = modem
      /\ Signal("ModemRemoved", modem, {}).on = "ModemRemoved"
  BY DEF Signal
<1>6. ASSUME RemoveModem PROVE FALSE BY <1>3, <1>5, <1>6 DEF RemoveModem
<1>7. ASSUME PowerOn \/ GoOnline PROVE FALSE
  BY <1>3, <1>5, <1>7 DEF PowerOn, GoOnline, SetInterfaces
<1>8. ASSUME PowerOff PROVE FALSE BY <1>2, <1>4, <1>5, <1>8 DEF PowerOff
<1>9. ASSUME RemoveSim, ifs # BeforeSim PROVE FALSE BY <1>2, <1>4, <1>5, <1>9 DEF RemoveSim
<1> QED BY <1>6, <1>7, <1>8, <1>9 DEF Relists

\* What GetModems told stays so, or oFono leaves and will be heard to have left.
LEMMA AskedDaemon == Beside /\ Daemon /\ ~missed' => Asked'
<1> SUFFICES ASSUME Beside, Daemon, ~missed', listed' # NotListed PROVE Asked' BY DEF Asked
<1>1. SystemInv /\ Asked /\ b' = b BY BridgeStays DEF Beside
<1>2. listed' = listed
  BY DEF Daemon, Start, Stop, AddModem, RemoveModem, PowerOn, PowerOff, InsertSim,
         RemoveSim, GoOnline, NewStatus, NewContext, Move
<1>3. /\ q # <<>> /\ Head(q) \in Joins /\ b.manager_ = "idle" /\ Whole(listed.ifs)
      /\ \/ up /\ modem = listed.modem /\ ifs = listed.ifs
         \/ /\ restarted
            /\ Crash => /\ ~NoneIn(q, Gone) /\ LastIn(q, IfsOrOwners, Owners)
                        /\ up => ifs = BeforeSim
  BY <1>1, <1>2 DEF Asked
<1>4. q' # <<>> /\ Head(q') \in Joins BY <1>1, <1>3, HeadStays
<1>5. listed.modem \in Modems /\ modem \in Modems \cup {None} /\ modem' \in Modems \cup {None}
  BY <1>1, <1>2, DaemonInv DEF SystemInv, DaemonOK
<1> DEFINE GoneLast == ~NoneIn(q', Gone) /\ LastIn(q', IfsOrOwners, Owners)
           Goal == \/ up' /\ modem' = listed.modem /\ ifs' = listed.ifs
                   \/ restarted' /\ (Crash' => GoneLast /\ (up' => ifs' = BeforeSim))
<1> SUFFICES Goal BY <1>1, <1>2, <1>3, <1>4 DEF Asked
<1>6. ASSUME NEW e \in Message, e \in Owners, SentOnly(e)
      PROVE  /\ LastIn(q', IfsOrOwners, Owners)
             /\ e \in Gone \/ ~NoneIn(q, Gone) => ~NoneIn(q', Gone)
  <2>1. Subscribed(b, e) /\ e \in IfsOrOwners BY <1>6, Hears, Parts
  <2> QED BY <1>6, <2>1 DEF SentOnly, Latest
<1>7. \A e \in Message : e \in Started \/ e \in Gone => e \in Owners BY Parts
<1>8. CASE Stop
  <2>1. PICK e \in Message : e \in Gone /\ SentOnly(e) BY <1>1, <1>8, DaemonSends
  <2>2. GoneLast BY <1>6, <1>7, <2>1
  <2>3. restarted' /\ ~up' BY <1>8, Changes
  <2> QED BY <2>2, <2>3
<1>9. CASE Start
  <2>1. PICK e \in Message : e \in Started /\ SentOnly(e) BY <1>1, <1>9, DaemonSends
  <2>2. /\ ~up /\ restarted' /\ ifs' = BeforeSim /\ (replugged' <=> replugged)
    BY <1>9, Changes
  <2>3. restarted /\ (Crash => ~NoneIn(q, Gone)) BY <1>3, <2>2
  <2>4. Crash' => Crash BY <2>2, <2>3 DEF Crash
  <2>5. Crash' => GoneLast BY <1>6, <1>7, <2>1, <2>3, <2>4
  <2> QED BY <2>2, <2>5
<1>10. CASE AddModem \/ RemoveModem
  <2>1. /\ (restarted' <=> restarted) /\ replugged'
        /\ AddModem => modem = None
    BY <1>10, Changes
  <2>2. ~(up /\ modem = listed.modem)
    <3>1. RemoveModem => modem # listed.modem BY <1>1, <1>2, Window
    <3> QED BY <1>3, <1>5, <1>10, <2>1, <3>1, BridgeAssumption
  <2>3. restarted' /\ ~Crash' BY <1>3, <2>1, <2>2 DEF Crash
  <2> QED BY <2>3
<1>11. CASE Calm /\ NoOwner /\ NoPlug /\ up /\ modem # None
  <2>1. /\ up' /\ modem' = modem /\ (restarted' <=> restarted) /\ (replugged' <=> replugged)
    BY <1>11 DEF Calm
  <2>2. modem = listed.modem => ifs' = ifs /\ NoBoth
    <3> SUFFICES ASSUME modem = listed.modem PROVE ifs' = ifs /\ NoBoth OBVIOUS
    <3>1. ~RemoveModem /\ ~Relists /\ (RemoveSim => ifs = BeforeSim) BY <1>1, <1>2, Window
    <3>2. ~AddModem /\ ~Start /\ ~Stop BY <1>11, Changes, <2>1
    <3>3. CASE RemoveSim
      <4>1. ifs' = BeforeSim /\ ifs = BeforeSim BY <3>1, <3>3, Changes
      <4> DEFINE e == Signal("Present", modem, FALSE)
      <4>2. modem \in Modems BY <1>5, <1>11
      <4>3. e \in Message /\ e.on = "Present" BY <4>2, SignalTypes DEF Signal
      <4>4. Send(<<e>>) BY <3>3, <4>1 DEF RemoveSim
      <4>5. q \in Seq(Message) BY <1>1 DEF SystemInv, Waiting
      <4> HIDE DEF e
      <4>6. SentOnly(e) BY <4>3, <4>4, <4>5, SentOne
      <4>7. e \notin IfsOrOwners BY <4>3 DEF IfsOrOwners, Ifs, Owners, Kind
      <4> QED BY <4>1, <4>6, <4>7 DEF SentOnly, NoBoth
    <3>4. CASE InsertSim \/ NewStatus \/ NewContext
      BY <1>1, <3>4, Changes, Unsent
    <3> QED BY <3>1, <3>2, <3>3, <3>4, Changes
  <2>3. Crash => modem = listed.modem BY <1>5, <1>11 DEF Crash, SingleModem
  <2>4. ASSUME Crash, ~NoneIn(q, Gone), LastIn(q, IfsOrOwners, Owners) PROVE GoneLast
    <3>1. NoBoth /\ \A X : NoneIn(q', X) => NoneIn(q, X) BY <1>1, <2>2, <2>3, <2>4, Unsent
    <3> QED BY <2>4, <3>1 DEF NoBoth, Aside
  <2>5. Crash' => Crash BY <2>1 DEF Crash
  <2>6. CASE modem = listed.modem /\ ifs = listed.ifs BY <2>1, <2>2, <2>6
  <2>7. CASE ~(modem = listed.modem /\ ifs = listed.ifs)
    <3>1. /\ restarted
          /\ Crash => /\ ~NoneIn(q, Gone) /\ LastIn(q, IfsOrOwners, Owners)
                      /\ up => ifs = BeforeSim
      BY <1>3, <2>7
    <3>2. Crash => GoneLast BY <2>4, <3>1
    <3>3. Crash => ifs' = BeforeSim BY <1>11, <2>2, <2>3, <3>1
    <3> HIDE DEF GoneLast
    <3> QED BY <2>1, <2>5, <3>1, <3>2, <3>3
  <2> QED BY <2>6, <2>7
<1> QED BY <1>1, <1>8, <1>9, <1>10, <1>11, Quiet

\* The daemon lists nothing but the SIM's interface without a SIM, and sends no
\* list that has not the SIM's interface first.
LEMMA ShapeDaemon == Beside /\ Daemon /\ ~missed' => Shape'
<1> SUFFICES ASSUME Beside, Daemon, ~missed' PROVE Shape' OBVIOUS
<1>1. SystemInv /\ Shape /\ b' = b BY BridgeStays DEF Beside
<1>2. Whole({}) /\ Whole(BeforeSim) /\ BeforeSim \ BeforeSim = {} /\ {} \ BeforeSim = {}
  BY DEF Whole
<1>3. ASSUME NEW e \in Message, SentOnly(e), e \notin Broken
      PROVE  NoneIn(q', Broken)
  BY <1>1, <1>3 DEF SentOnly, Aside, Shape
<1>4. ASSUME NEW e \in Message, NEW f \in Message, SentBoth(e, f), e \notin Broken,
             f \notin Broken
      PROVE  NoneIn(q', Broken)
  BY <1>1, <1>4 DEF SentBoth, Aside, Shape
<1>5. \A e \in Message : /\ e \in Owners \/ e \in Removals => e \notin Broken
                         /\ e \in Presents \/ e \in Powereds => e \notin Broken
                         /\ e \in Statuses \/ e.on = "Context" => e \notin Broken
                         /\ e \in Added /\ e.val = {} => e \notin Broken
                         /\ \A faces : e \in Are(faces) /\ Whole(faces) => e \notin Broken
  BY Kinds, Faces
<1>6. CASE Start
  <2>1. ifs' = BeforeSim BY <1>6, Changes
  <2>2. PICK e \in Message : e \in Started /\ SentOnly(e) BY <1>1, <1>6, DaemonSends
  <2>3. NoneIn(q', Broken) BY <1>3, <1>5, <2>2, Kinds
  <2> QED BY <1>1, <1>2, <2>1, <2>3 DEF Shape
<1>7. CASE Stop
  <2>1. ifs' = ifs /\ present' = present BY <1>7, Changes
  <2>2. PICK e \in Message : e \in Gone /\ SentOnly(e) BY <1>1, <1>7, DaemonSends
  <2>3. NoneIn(q', Broken) BY <1>3, <1>5, <2>2, Kinds
  <2> QED BY <1>1, <2>1, <2>3 DEF Shape
<1>8. CASE AddModem
  <2>1. ifs' = {} BY <1>8, Changes
  <2>2. PICK e \in Message : e \in Added /\ e.val = {} /\ SentOnly(e)
    BY <1>1, <1>8, DaemonSends
  <2>3. NoneIn(q', Broken) BY <1>3, <1>5, <2>2
  <2> QED BY <1>1, <1>2, <2>1, <2>3 DEF Shape
<1>9. CASE RemoveModem
  <2>1. ifs' = ifs /\ present' = present BY <1>9, Changes
  <2>2. PICK e \in Message : e \in Removals /\ SentOnly(e) BY <1>1, <1>9, DaemonSends
  <2>3. NoneIn(q', Broken) BY <1>3, <1>5, <2>2
  <2> QED BY <1>1, <2>1, <2>3 DEF Shape
<1>10. CASE Relists
  <2>1. /\ Whole(ifs') /\ present' = present
        /\ ifs' \ BeforeSim # {} => present
    BY <1>2, <1>10, Changes DEF Whole
  <2>2. CASE PowerOff
    <3>1. PICK e \in Message, f \in Message : e \in Are(ifs') /\ f \in Powereds
                                              /\ SentBoth(e, f)
      BY <1>1, <2>2, DaemonSends
    <3>2. NoneIn(q', Broken) BY <1>4, <1>5, <2>1, <3>1
    <3> QED BY <1>1, <2>1, <3>2 DEF Shape
  <2>3. CASE PowerOn \/ GoOnline
    <3>1. PICK e \in Message : e \in Are(ifs') /\ SentOnly(e) BY <1>1, <2>3, DaemonSends
    <3>2. NoneIn(q', Broken) BY <1>3, <1>5, <2>1, <3>1
    <3> QED BY <1>1, <2>1, <3>2 DEF Shape
  <2> QED BY <1>10, <2>2, <2>3 DEF Relists
<1>11. CASE InsertSim
  <2>1. ifs' = ifs /\ present' = TRUE BY <1>11, Changes
  <2>2. PICK e \in Message : e \in PresentIs(present') /\ SentOnly(e)
    BY <1>1, <1>11, DaemonSends
  <2>3. NoneIn(q', Broken) BY <1>3, <1>5, <2>2, Kinds
  <2> QED BY <1>1, <2>1, <2>3 DEF Shape
<1>12. CASE RemoveSim
  <2>1. ifs' = BeforeSim BY <1>12, Changes
  <2>2. PICK e \in Message : /\ e \in PresentIs(present')
                             /\ \/ SentOnly(e)
                                \/ \E f \in Message : f \in Are(ifs') /\ SentBoth(e, f)
    BY <1>1, <1>12, DaemonSends
  <2>3. e \notin Broken BY <1>5, <2>2, Kinds
  <2>4. NoneIn(q', Broken) BY <1>2, <1>3, <1>4, <1>5, <2>1, <2>2, <2>3
  <2> QED BY <1>1, <1>2, <2>1, <2>4 DEF Shape
<1>13. CASE NewStatus
  <2>1. ifs' = ifs /\ present' = present BY <1>13, Changes
  <2>2. PICK e \in Message : e \in StatusIs(net') /\ SentOnly(e)
    BY <1>1, <1>13, DaemonSends
  <2>3. NoneIn(q', Broken) BY <1>3, <1>5, <2>2, Kinds
  <2> QED BY <1>1, <2>1, <2>3 DEF Shape
<1>14. CASE NewContext
  <2>1. ifs' = ifs /\ present' = present BY <1>14, Changes
  <2>2. PICK e \in Message : e.on = "Context" /\ SentOnly(e)
    <3>1. PICK e \in Message, c \in Contexts, k \in ContextKind :
            e \in CtxIs(c, k) /\ SentOnly(e)
      BY <1>1, <1>14, DaemonSends
    <3> QED BY <3>1, Kinds
  <2>3. NoneIn(q', Broken) BY <1>3, <1>5, <2>2
  <2> QED BY <1>1, <2>1, <2>3 DEF Shape
<1> QED BY <1>6, <1>7, <1>8, <1>9, <1>10, <1>11, <1>12, <1>13, <1>14, Changes

\* Without a modem the daemon sends no list.
LEMMA BareDaemon == Beside /\ Daemon /\ ~missed' => Bare'
<1> SUFFICES ASSUME Beside, Daemon, ~missed' PROVE Bare' OBVIOUS
<1>1. SystemInv /\ Bare /\ b' = b BY BridgeStays DEF Beside
<1>2. CASE AddModem \/ RemoveModem BY <1>2, Changes DEF Bare
<1>3. CASE Start \/ Stop BY <1>1, <1>3, Changes DEF Bare
<1>4. CASE Calm BY <1>1, <1>4 DEF Bare, Calm
<1> QED BY <1>1, <1>2, <1>3, <1>4, Quiet

\* What the bridge shows is its own.
LEMMA StatusShownDaemon == Beside /\ Daemon /\ ~missed' => StatusShown'
<1> SUFFICES ASSUME Beside, Daemon, ~missed' PROVE StatusShown' OBVIOUS
<1>1. SystemInv /\ StatusShown /\ b' = b BY BridgeStays DEF Beside
<1>2. CASE AddModem \/ RemoveModem BY <1>1, <1>2, Changes DEF StatusShown, Exact
<1>3. CASE Start \/ Stop BY <1>3, Changes DEF StatusShown
<1>4. CASE Calm BY <1>1, <1>4 DEF StatusShown, Calm, Exact
<1> QED BY <1>1, <1>2, <1>3, <1>4, Quiet

\* A claim stands until the bridge hears otherwise.
LEMMA ClaimedDaemon == Beside /\ Daemon /\ ~missed' => Claimed'
<1> SUFFICES ASSUME Beside, Daemon, ~missed' PROVE Claimed' OBVIOUS
<1>1. SystemInv /\ Claimed /\ b' = b BY BridgeStays DEF Beside
<1>2. \A X : NoneIn(q', X) => NoneIn(q, X) BY <1>1, Unsent
<1>3. Alone' => Alone
  <2>1. CASE AddModem \/ RemoveModem BY <2>1, Changes DEF Alone
  <2>2. CASE Start \/ Stop BY <2>2, Changes DEF Alone
  <2>3. CASE Calm BY <2>3 DEF Alone, Calm
  <2> QED BY <1>1, <2>1, <2>2, <2>3, Quiet
<1> QED BY <1>1, <1>2, <1>3 DEF Claimed, Registered

\* The list that a modem sends is the last one, and it has or lacks what it says.
LEMMA ListsSent ==
  ASSUME SystemInv, ~missed', Relists \/ RemoveSim, b.modem_ = modem
  PROVE  \/ RemoveSim /\ ifs = BeforeSim /\ ifs' = ifs /\ NoList /\ NoBoth
         \/ /\ ~NoneIn(q', Ifs)
            /\ LastIn(q', Ifs, Are(ifs')) /\ LastIn(q', IfsOrOwners, Are(ifs'))
            /\ \A id : id \notin ifs' => ~NoneIn(q', Lacks(id))
<1>1. ASSUME NEW e \in Message, e \in Are(ifs'), e.path = modem
      PROVE  /\ e \in Ifs /\ e \in IfsOrOwners /\ Subscribed(b, e)
             /\ \A id : id \notin ifs' => e \in Lacks(id)
  BY <1>1, Faces, Kinds, Hears
<1>2. CASE PowerOn \/ GoOnline
  <2>1. PICK e \in Message : e \in Are(ifs') /\ e.path = modem /\ SentOnly(e)
    BY <1>2, DaemonSends
  <2>2. Latest(q', e) BY <1>1, <2>1 DEF SentOnly
  <2> QED BY <1>1, <2>1, <2>2 DEF Latest
<1>3. CASE PowerOff
  <2>1. PICK e \in Message, f \in Message :
          e \in Are(ifs') /\ e.path = modem /\ f \in Powereds /\ SentBoth(e, f)
    BY <1>3, DaemonSends
  <2>2. f \notin Ifs /\ f \notin IfsOrOwners BY <2>1, Kinds
  <2> QED BY <1>1, <2>1, <2>2 DEF SentBoth
<1>4. CASE RemoveSim
  <2>1. PICK e \in Message :
          /\ e \in PresentIs(present')
          /\ \/ ifs = BeforeSim /\ SentOnly(e)
             \/ \E f \in Message : f \in Are(ifs') /\ f.path = modem /\ SentBoth(e, f)
    BY <1>4, DaemonSends
  <2>2. CASE ifs = BeforeSim /\ SentOnly(e)
    <3>1. e \notin Ifs /\ e \notin IfsOrOwners BY <2>1, Kinds
    <3>2. \A id : e \notin With(id) /\ e \notin Lacks(id) BY <2>1, Kinds, Faces
    <3>3. NoList /\ NoBoth BY <2>2, <3>1, <3>2 DEF SentOnly, NoList, NoBoth
    <3>4. ifs' = BeforeSim BY <1>4, Changes
    <3> QED BY <1>4, <2>2, <3>3, <3>4
  <2>3. ASSUME NEW f \in Message, f \in Are(ifs'), f.path = modem, SentBoth(e, f)
        PROVE  /\ ~NoneIn(q', Ifs)
               /\ LastIn(q', Ifs, Are(ifs')) /\ LastIn(q', IfsOrOwners, Are(ifs'))
               /\ \A id : id \notin ifs' => ~NoneIn(q', Lacks(id))
    BY <1>1, <2>3 DEF SentBoth, Latest
  <2> QED BY <2>1, <2>2, <2>3
<1> QED BY <1>2, <1>3, <1>4 DEF Relists

\* What a change says of the interfaces to a bridge that has the modem.
LEMMA ListsTold ==
  ASSUME SystemInv, ~missed', Daemon, Calm, b.modem_ = modem, modem # None
  PROVE  \/ ifs' = ifs /\ NoList /\ NoBoth
         \/ /\ ~NoneIn(q', Ifs)
            /\ LastIn(q', Ifs, Are(ifs')) /\ LastIn(q', IfsOrOwners, Are(ifs'))
<1>1. CASE Relists \/ RemoveSim BY <1>1, ListsSent
<1>2. CASE InsertSim BY <1>2, Changes, Unsent
<1>3. CASE NewStatus BY <1>3, Changes, Unsent
<1>4. CASE NewContext BY <1>4, Changes, Unsent
<1>5. ~Start /\ ~Stop /\ ~AddModem /\ ~RemoveModem BY Changes DEF Calm
<1> QED BY <1>1, <1>2, <1>3, <1>4, <1>5, Changes

\* Of a modem that comes or goes a live manager's proxy sends word, and those words
\* alternate.
LEMMA ModemToldDaemon == Beside /\ Daemon /\ ~missed' => ModemTold'
<1> SUFFICES ASSUME Beside, Daemon, ~missed', ~restarted'
             PROVE  /\ b'.modem_ # None => b'.manager_ = "live"
                    /\ b'.manager_ = "live" => up'
                    /\ \A mdm \in Modems :
                         AllTold(q', RemovalsOf(mdm), Leaves(mdm), Replugs, b'.modem_ = mdm)
                    /\ AllTold(q', Added, Removals, Replugs, b'.modem_ = None)
                    /\ b'.manager_ = "live" =>
                         /\ LastIn(q', Replugs, Leaves(modem'))
                         /\ NoneIn(q', Replugs) => b'.modem_ = modem'
                    /\ up' /\ modem' # None /\ Steady' =>
                         b'.modem_ # None \/ ~NoneIn(q', Inits)
  BY DEF ModemTold
<1>1. SystemInv /\ ModemTold /\ b' = b BY BridgeStays DEF Beside
<1>2. ~restarted /\ (AddModem \/ RemoveModem \/ (Calm /\ NoPlug))
  BY <1>1, Quiet, Changes DEF Calm
<1>3. /\ b.modem_ # None => b.manager_ = "live"
      /\ b.manager_ = "live" => up
      /\ \A mdm \in Modems : AllTold(q, RemovalsOf(mdm), Leaves(mdm), Replugs, b.modem_ = mdm)
      /\ AllTold(q, Added, Removals, Replugs, b.modem_ = None)
      /\ b.manager_ = "live" => /\ LastIn(q, Replugs, Leaves(modem))
                                /\ NoneIn(q, Replugs) => b.modem_ = modem
      /\ up /\ modem # None /\ Steady => b.modem_ # None \/ ~NoneIn(q, Inits)
  BY <1>1, <1>2 DEF ModemTold
<1>4. q \in Seq(Message) /\ Aside(q, q', Inits) BY <1>1, Unsent DEF SystemInv, Waiting
<1>5. CASE Calm /\ NoPlug
  <2>1. /\ \A mdm \in Modems :
             AllTold(q', RemovalsOf(mdm), Leaves(mdm), Replugs, b.modem_ = mdm)
        /\ AllTold(q', Added, Removals, Replugs, b.modem_ = None)
    BY <1>3, <1>5 DEF NoPlug, Aside
  <2>2. /\ LastIn(q, Replugs, Leaves(modem)) => LastIn(q', Replugs, Leaves(modem))
        /\ NoneIn(q', Replugs) => NoneIn(q, Replugs)
        /\ NoneIn(q', Inits) => NoneIn(q, Inits)
    BY <1>4, <1>5 DEF NoPlug, Aside
  <2>3. up' = up /\ modem' = modem /\ (Steady' => Steady) BY <1>5 DEF Calm, Steady
  <2> QED BY <1>1, <1>3, <2>1, <2>2, <2>3
<1>6. CASE AddModem
  <2>0. up' = up /\ modem = None /\ modem' \in Modems /\ ~Steady'
    BY <1>6, Changes DEF Steady
  <2>1. PICK e \in Message : e \in Added /\ e.path = modem' /\ SentOnly(e)
    BY <1>1, <1>6, DaemonSends
  <2>2. /\ e \in Replugs /\ e \in Leaves(modem') /\ e \notin Removals
        /\ \A mdm : e \notin RemovalsOf(mdm)
    BY <2>0, <2>1, Kinds
  <2>3. Subscribed(b, e) <=> b.manager_ = "live" BY <2>2, Hears
  <2>4. \A mdm \in Modems :
          AllTold(q', RemovalsOf(mdm), Leaves(mdm), Replugs, b.modem_ = mdm)
    BY <1>3, <2>1, <2>2 DEF SentOnly, Aside
  <2>5. CASE b.manager_ # "live"
    <3>1. q' = q BY <2>1, <2>3, <2>5 DEF SentOnly
    <3> QED BY <1>1, <1>3, <2>0, <2>4, <2>5, <3>1
  <2>6. CASE b.manager_ = "live"
    <3>1. q' = Append(q, e) /\ Latest(q', e) BY <2>1, <2>3, <2>6 DEF SentOnly
    <3>2. LastIn(q, Removals \cup Replugs, Removals)
          /\ (NoneIn(q, Removals \cup Replugs) => b.modem_ = None)
      BY <1>3, <2>0, <2>6, Parts
    <3>3. AllTold(Append(q, e), Added, Removals, Replugs, b.modem_ = None)
      BY <1>3, <1>4, <3>2, ToldAppended
    <3>4. LastIn(q', Replugs, Leaves(modem')) /\ ~NoneIn(q', Replugs)
      BY <2>2, <3>1 DEF Latest
    <3> QED BY <1>1, <1>3, <2>0, <2>4, <3>1, <3>3, <3>4
  <2> QED BY <2>5, <2>6
<1>7. CASE RemoveModem
  <2>0. up' = up /\ modem # None /\ modem' = None /\ ~Steady' /\ modem \in Modems
    BY <1>1, <1>7, Changes DEF Steady, SystemInv, DaemonOK
  <2>1. PICK e \in Message : e \in Removals /\ e.path = modem /\ SentOnly(e)
    BY <1>1, <1>7, DaemonSends
  <2>2. /\ e \in Replugs /\ e \in Leaves(None) /\ e \notin Added
        /\ \A mdm : mdm # modem => e \notin RemovalsOf(mdm)
    BY <2>1, Kinds
  <2>3. Subscribed(b, e) <=> b.manager_ = "live" BY <2>2, Hears
  <2>4. AllTold(q', Added, Removals, Replugs, b.modem_ = None)
    BY <1>3, <2>1, <2>2 DEF SentOnly, Aside
  <2>5. CASE b.manager_ # "live"
    <3>1. q' = q BY <2>1, <2>3, <2>5 DEF SentOnly
    <3> QED BY <1>1, <1>3, <2>0, <2>4, <2>5, <3>1
  <2>6. CASE b.manager_ = "live"
    <3>1. q' = Append(q, e) /\ Latest(q', e) BY <2>1, <2>3, <2>6 DEF SentOnly
    <3>2. LastIn(q, Leaves(modem) \cup Replugs, Leaves(modem))
          /\ (NoneIn(q, Leaves(modem) \cup Replugs) => b.modem_ = modem)
      BY <1>3, <2>6, Parts
    <3>3. AllTold(Append(q, e), RemovalsOf(modem), Leaves(modem), Replugs, b.modem_ = modem)
      BY <1>3, <1>4, <2>0, <3>2, ToldAppended
    <3>4. ASSUME NEW mdm \in Modems
          PROVE  AllTold(q', RemovalsOf(mdm), Leaves(mdm), Replugs, b.modem_ = mdm)
      <4>1. CASE mdm = modem BY <3>1, <3>3, <4>1
      <4>2. CASE mdm # modem BY <1>3, <2>1, <2>2, <4>2 DEF SentOnly, Aside
      <4> QED BY <4>1, <4>2
    <3>5. LastIn(q', Replugs, Leaves(modem')) /\ ~NoneIn(q', Replugs)
      BY <2>0, <2>2, <3>1 DEF Latest
    <3> QED BY <1>1, <1>3, <2>0, <2>4, <3>4, <3>5
  <2> QED BY <2>5, <2>6
<1> QED BY <1>2, <1>5, <1>6, <1>7

\* A change that the bridge hears of leaves it the modem, or a signal of another.
LEMMA Heeded ==
  ASSUME Beside, Daemon, ~missed', b.modem_ # None, NoneIn(q', Replugs), ~restarted'
  PROVE  /\ ~restarted /\ Calm /\ NoOwner /\ NoPlug /\ NoneIn(q, Replugs)
         /\ up /\ modem # None /\ b.modem_ = modem
<1>1. SystemInv /\ ModemTold BY DEF Beside
<1>2. ~restarted /\ ~Start /\ ~Stop
  <2>1. Start \/ Stop => restarted' BY Changes
  <2>2. restarted => restarted' BY Quiet, Changes, <1>1 DEF Calm
  <2> QED BY <2>1, <2>2
<1>3. b.manager_ = "live" BY <1>1, <1>2 DEF ModemTold
<1>4. ASSUME AddModem \/ RemoveModem PROVE FALSE
  <2>1. PICK e \in Message : e \in Replugs /\ SentOnly(e) BY <1>1, <1>4, DaemonSends, Kinds
  <2>2. Subscribed(b, e) BY <1>3, <2>1, Hears
  <2>3. ~NoneIn(q', Replugs) BY <2>1, <2>2 DEF SentOnly, Latest
  <2> QED BY <2>3
<1>5. Calm /\ NoOwner /\ NoPlug /\ up /\ modem # None BY <1>1, <1>2, <1>4, Quiet
<1>6. NoneIn(q, Replugs) BY <1>5 DEF NoPlug, Aside
<1> QED BY <1>1, <1>2, <1>3, <1>5, <1>6 DEF ModemTold

\* A list that the daemon sends is the last, and is of what it has.
LEMMA InterfacesToldDaemon == Beside /\ Daemon /\ ~missed' => InterfacesTold'
<1> SUFFICES ASSUME Beside, Daemon, ~missed', ~restarted', b'.modem_ # None, NoneIn(q', Replugs)
             PROVE  /\ LastIn(q', Ifs, Are(ifs'))
                    /\ NoneIn(q', Ifs) =>
                         \/ b'.interfaces_ = ifs'
                         \/ /\ b'.interfaces_ = {} /\ replugged'
                            /\ b'.network_ => NR \notin ifs'
  BY DEF InterfacesTold
<1>1. SystemInv /\ InterfacesTold /\ b' = b BY BridgeStays DEF Beside
<1>2. /\ ~restarted /\ Calm /\ NoneIn(q, Replugs)
      /\ up /\ modem # None /\ b.modem_ = modem
  BY <1>1, Heeded
<1>3. /\ LastIn(q, Ifs, Are(ifs))
      /\ NoneIn(q, Ifs) => \/ b.interfaces_ = ifs
                           \/ b.interfaces_ = {} /\ replugged /\ (b.network_ => NR \notin ifs)
  BY <1>1, <1>2 DEF InterfacesTold
<1>4. CASE ifs' = ifs /\ NoList
  <2>1. LastIn(q', Ifs, Are(ifs)) /\ (NoneIn(q', Ifs) => NoneIn(q, Ifs))
    BY <1>3, <1>4 DEF NoList, Aside
  <2>2. replugged' <=> replugged BY <1>2 DEF Calm
  <2> QED BY <1>1, <1>3, <1>4, <2>1, <2>2
<1> QED BY <1>1, <1>2, <1>4, ListsTold

\* The word that oFono starts is the last of its owners.
LEMMA OwnerToldDaemon == Beside /\ Daemon /\ ~missed' => OwnerTold'
<1> SUFFICES ASSUME Beside, Daemon, ~missed', Crash'
             PROVE  /\ up' /\ modem' # None => b'.modem_ # None \/ ~NoneIn(q', Joins)
                    /\ up' => LastIn(q', Owners, Started)
  BY DEF OwnerTold
<1>1. SystemInv /\ OwnerTold /\ b' = b BY BridgeStays DEF Beside
<1>2. CASE Start
  <2>1. PICK e \in Message : e \in Started /\ SentOnly(e) BY <1>1, <1>2, DaemonSends
  <2>2. e \in Owners /\ e \in Joins /\ Subscribed(b, e) BY <2>1, Kinds, Hears
  <2>3. Latest(q', e) BY <2>1, <2>2 DEF SentOnly
  <2> QED BY <2>1, <2>2, <2>3 DEF Latest
<1>3. CASE Stop BY <1>3, Changes
<1>4. CASE AddModem \/ RemoveModem BY <1>4, Changes DEF Crash
<1>5. CASE Calm /\ NoOwner
  <2>1. Crash BY <1>5 DEF Calm, Crash
  <2>2. /\ up /\ modem # None => b.modem_ # None \/ ~NoneIn(q, Joins)
        /\ up => LastIn(q, Owners, Started)
    BY <1>1, <2>1 DEF OwnerTold
  <2>3. /\ NoneIn(q', Joins) => NoneIn(q, Joins)
        /\ LastIn(q, Owners, Started) => LastIn(q', Owners, Started)
    BY <1>5 DEF NoOwner, Aside
  <2> QED BY <1>1, <1>5, <2>2, <2>3 DEF Calm
<1> QED BY <1>1, <1>2, <1>3, <1>4, <1>5, Quiet

\* A bridge without proxies hears of nothing but the name of oFono.
LEMMA Deaf ==
  ASSUME Good(b), Waiting(b, q), b.manager_ # "live", b.modem_ = None
  PROVE  NoneIn(q, Others)
<1>1. b.sim_ # "live" /\ ~b.network_ /\ ~b.connectionManager_
  BY Proxies DEF None
<1>2. /\ NoneIn(q, Replugs) /\ NoneIn(q, Ifs) /\ NoneIn(q, Powereds) /\ NoneIn(q, Presents)
      /\ NoneIn(q, Statuses) /\ \A c : NoneIn(q, CtxOf(c))
  BY <1>1, Silent
<1>3. \A i \in 1..Len(q) : q[i] \in Message BY DEF Waiting
<1>4. ASSUME NEW i \in 1..Len(q), q[i] \in Others PROVE FALSE
  <2> DEFINE e == q[i]
  <2>1. e \in Message /\ e \in Others BY <1>3, <1>4
  <2>2. /\ e \notin Replugs /\ e \notin Ifs /\ e \notin Powereds /\ e \notin Presents
        /\ e \notin Statuses /\ e \notin CtxOf(e.path)
    BY <1>2 DEF NoneIn
  <2> HIDE DEF e
  <2> QED BY <2>1, <2>2, Kinds
<1> QED BY <1>4 DEF NoneIn

\* Nothing of one kind is behind anything.
LEMMA BehindNothing ==
  ASSUME NEW s, NEW X, NoneIn(s, X)
  PROVE  \A Y : Behind(s, X, Y)
BY DEF NoneIn, Behind

\* The word that oFono left comes after all that the bridge will hear, as what is
\* gone sends nothing more.
LEMMA WithdrawnDaemon == Beside /\ Daemon /\ ~missed' => Withdrawn'
<1> SUFFICES ASSUME Beside, Daemon, ~missed', Crash', ~up' \/ modem' = None
             PROVE  /\ Behind(q', Others, Gone)
                    /\ NoneIn(q', Gone) => b'.pub.RegistrationStatus \notin Known
  BY DEF Withdrawn
<1>1. SystemInv /\ Withdrawn /\ b' = b /\ Good(b) /\ q \in Seq(Message)
  BY BridgeStays DEF Beside, Inv, SystemInv, Waiting
<1>2. CASE Stop
  <2>1. PICK e \in Message : e \in Gone /\ SentOnly(e) BY <1>1, <1>2, DaemonSends
  <2>2. e \in Owners /\ Subscribed(b, e) /\ e \notin Others BY <2>1, Kinds, Hears
  <2>3. q' = Append(q, e) /\ Latest(q', e) BY <2>1, <2>2 DEF SentOnly
  <2>4. Behind(Append(q, e), Others, Gone) BY <1>1, <2>1, <2>2, BehindAppended
  <2> QED BY <2>1, <2>3, <2>4 DEF Latest
<1>3. CASE Start
  <2>1. PICK e \in Message : e \in Started /\ SentOnly(e) BY <1>1, <1>3, DaemonSends
  <2>2. e \notin Others /\ e \in Owners /\ Subscribed(b, e) BY <2>1, Kinds, Hears
  <2>3. q' = Append(q, e) BY <2>1, <2>2 DEF SentOnly
  <2>4. ~up BY <1>3, Changes
  <2>5. Behind(q, Others, Gone) => Behind(q', Others, Gone)
    BY <1>1, <2>2, <2>3, BehindAppended
  <2>6. NoneIn(q', Gone) => NoneIn(q, Gone) BY <1>1, Unsent
  <2>7. CASE restarted
    <3>1. Crash BY <1>3, <2>7, Changes DEF Crash
    <3> QED BY <1>1, <2>4, <2>5, <2>6, <3>1 DEF Withdrawn
  <2>8. CASE ~restarted
    <3>1. b.manager_ # "live" /\ b.modem_ = None BY <2>4, <2>8 DEF Beside, ModemTold
    <3>2. Behind(q, Others, Gone) BY <1>1, <3>1, Deaf, BehindNothing DEF SystemInv
    <3>3. ~Registered(b) BY <2>8, <3>1 DEF Beside, Claimed, Alone
    <3>4. b.status_ \in Status BY <1>1, Proxies DEF Bridge
    <3>5. b.pub.RegistrationStatus \notin Known
      BY <1>1, <3>3, <3>4, RegisteredWord DEF Good, Weak, HonestStatus
    <3> QED BY <1>1, <2>5, <3>2, <3>5
  <2> QED BY <2>7, <2>8
<1>4. CASE AddModem \/ RemoveModem BY <1>4, Changes DEF Crash
<1>5. CASE Calm /\ up /\ modem # None BY <1>5 DEF Calm
<1> QED BY <1>1, <1>2, <1>3, <1>4, <1>5, Quiet

\* The modem that a bridge has is the one that oFono has, when there is but one.
LEMMA TheModem ==
  ASSUME SystemInv, Good(b), SingleModem, b.modem_ # None, modem # None
  PROVE  b.modem_ = modem
BY Proxies DEF SystemInv, DaemonOK, SingleModem, Bridge

\* When oFono starts again its modem has the SIM's interface alone, and the word of
\* the start comes after the lists of the oFono that left.
LEMMA RestoredDaemon == Beside /\ Daemon /\ ~missed' => Restored'
<1> SUFFICES ASSUME Beside, Daemon, ~missed', Crash', up', modem' # None, b'.modem_ # None
             PROVE  \/ ~NoneIn(q', Ifs) /\ LastIn(q', IfsOrOwners, Are(ifs'))
                    \/ /\ NoneIn(q', Ifs) /\ b'.interfaces_ = ifs'
                       /\ NoneIn(q', Owners) \/ ~Blank(b') \/ NR \notin ifs'
                    \/ /\ ~NoneIn(q', Owners) /\ LastIn(q', IfsOrOwners, Owners)
                       /\ ifs' = BeforeSim
  BY DEF Restored
<1>1. SystemInv /\ Restored /\ b' = b /\ Good(b) BY BridgeStays DEF Beside, Inv
<1>2. CASE Start
  <2>1. PICK e \in Message : e \in Started /\ SentOnly(e) BY <1>1, <1>2, DaemonSends
  <2>2. e \in Owners /\ e \in IfsOrOwners /\ Subscribed(b, e) BY <2>1, Kinds, Hears
  <2>3. Latest(q', e) BY <2>1, <2>2 DEF SentOnly
  <2>4. ifs' = BeforeSim BY <1>2, Changes
  <2> QED BY <2>2, <2>3, <2>4 DEF Latest
<1>3. CASE Stop BY <1>3, Changes
<1>4. CASE AddModem \/ RemoveModem BY <1>4, Changes DEF Crash
<1>5. CASE Calm /\ NoOwner /\ up /\ modem # None
  <2>1. Crash /\ b.modem_ # None BY <1>1, <1>5 DEF Calm, Crash
  <2>2. b.modem_ = modem BY <1>1, <1>5, <2>1, TheModem DEF Crash
  <2>3. CASE ~NoneIn(q', Ifs) /\ LastIn(q', IfsOrOwners, Are(ifs')) BY <2>3
  <2>4. CASE ifs' = ifs /\ NoList /\ NoBoth
    <3>1. \/ ~NoneIn(q, Ifs) /\ LastIn(q, IfsOrOwners, Are(ifs))
          \/ /\ NoneIn(q, Ifs) /\ b.interfaces_ = ifs
             /\ NoneIn(q, Owners) \/ ~Blank(b) \/ NR \notin ifs
          \/ /\ ~NoneIn(q, Owners) /\ LastIn(q, IfsOrOwners, Owners)
             /\ ifs = BeforeSim
      BY <1>1, <1>5, <2>1 DEF Restored
    <3>2. /\ NoneIn(q', Ifs) <=> NoneIn(q, Ifs)
          /\ NoneIn(q', Owners) <=> NoneIn(q, Owners)
          /\ \A Y : LastIn(q, IfsOrOwners, Y) => LastIn(q', IfsOrOwners, Y)
      BY <1>5, <2>4 DEF NoOwner, NoList, NoBoth, Aside
    <3>3. Blank(b') <=> Blank(b) BY <1>1
    <3> QED BY <1>1, <2>4, <3>1, <3>2, <3>3
  <2> QED BY <1>1, <1>5, <2>2, <2>3, <2>4, ListsTold
<1> QED BY <1>1, <1>2, <1>3, <1>4, <1>5, Quiet

\* A status is sent of a network that is offered, and so after a list that has it
\* or with one that the bridge already has.
LEMMA StatusesToldDaemon == Beside /\ Daemon /\ ~missed' => StatusesTold'
<1> SUFFICES ASSUME Beside, Daemon, ~missed', Alone', NoneIn(q', Replugs)
             PROVE  AllTold(q', Statuses, With(NR), Against(b), NR \in b.interfaces_)
  <2>1. b' = b \/ ~Daemon BY BridgeStays
  <2> QED BY <2>1 DEF StatusesTold
<1>1. SystemInv /\ StatusesTold /\ Good(b) /\ q \in Seq(Message)
  BY DEF Beside, Inv, SystemInv, Waiting
<1>2. NoneIn(q, Replugs) BY <1>1, Unsent
<1>3. Alone
  <2>1. CASE AddModem \/ RemoveModem BY <2>1, Changes DEF Alone
  <2>2. CASE Start \/ Stop BY <2>2, Changes DEF Alone
  <2>3. CASE Calm BY <2>3 DEF Alone, Calm
  <2> QED BY <1>1, <2>1, <2>2, <2>3, Quiet
<1>4. AllTold(q, Statuses, With(NR), Against(b), NR \in b.interfaces_)
  BY <1>1, <1>2, <1>3 DEF StatusesTold
<1>5. NewStatus \/ NoStatus BY <1>1, Unsent, Changes
<1>6. CASE NoStatus BY <1>4, <1>6 DEF NoStatus, Aside
<1>7. CASE NewStatus
  <2>1. PICK e \in Message : e \in StatusIs(net') /\ SentOnly(e) BY <1>1, <1>7, DaemonSends
  <2>2. Subscribed(b, e) <=> b.network_ BY <2>1, Kinds, Hears
  <2>3. CASE ~b.network_
    <3>1. q' = q BY <2>1, <2>2, <2>3 DEF SentOnly
    <3> QED BY <1>4, <3>1
  <2>4. CASE b.network_
    <3>1. q' = Append(q, e) BY <2>1, <2>2, <2>4 DEF SentOnly
    <3>2. b.modem_ # None BY <1>1, <2>4, Proxies
    <3>3. up /\ modem # None /\ NR \in ifs BY <1>7, Changes DEF Offers
    <3> DEFINE Z == IF Blank(b) THEN Owners ELSE {}
               W == With(NR) \cup Against(b)
    <3>4. W = Ifs \cup Z /\ Are(ifs) \subseteq With(NR) BY <3>3, Parts DEF Against
    <3>5. NoneIn(q, W) <=> NoneIn(q, Ifs) /\ NoneIn(q, Z) BY <3>4 DEF NoneIn
    <3>6. NoneIn(q, {}) BY DEF NoneIn
    <3>7. LastIn(q, W, Are(ifs)) /\ (NoneIn(q, W) => NR \in b.interfaces_)
      <4>1. CASE ~restarted
        <5>1. NoneIn(q, Z) BY <3>6, <4>1 DEF Beside, World
        <5>2. /\ LastIn(q, Ifs, Are(ifs))
              /\ NoneIn(q, Ifs) => b.interfaces_ = ifs
          BY <1>2, <2>4, <3>2, <3>3, <4>1 DEF Beside, InterfacesTold
        <5>3. LastIn(q, Ifs \cup Z, Are(ifs)) BY <5>1, <5>2, LastOfTwo
        <5> QED BY <3>3, <3>4, <3>5, <5>2, <5>3
      <4>2. CASE restarted
        <5>1. Crash BY <1>3, <4>2 DEF Crash, Alone
        <5>2. NR \notin BeforeSim BY DEF NR, BeforeSim
        <5>3. CASE ~NoneIn(q, Ifs) /\ LastIn(q, IfsOrOwners, Are(ifs))
          <6>1. CASE Blank(b)
            <7>1. W = IfsOrOwners BY <3>4, <6>1 DEF IfsOrOwners
            <7> QED BY <3>5, <5>3, <7>1
          <6>2. CASE ~Blank(b)
            <7>1. W = Ifs BY <3>4, <6>2
            <7>2. \A e1 \in IfsOrOwners : e1 \in Ifs \/ e1 \notin Are(ifs) BY Parts
            <7>3. LastIn(q, Ifs, Are(ifs)) BY <1>1, <5>3, <7>2, LastNarrowed, Parts
            <7> QED BY <3>5, <5>3, <7>1, <7>3
          <6> QED BY <6>1, <6>2
        <5>4. CASE /\ NoneIn(q, Ifs) /\ b.interfaces_ = ifs
                   /\ NoneIn(q, Owners) \/ ~Blank(b) \/ NR \notin ifs
          <6>1. NoneIn(q, Z) BY <3>3, <3>6, <5>4
          <6>2. NoneIn(q, W) BY <3>5, <5>4, <6>1
          <6> QED BY <3>3, <5>4, <6>2, QueueNone
        <5> QED BY <3>2, <3>3, <5>1, <5>2, <5>3, <5>4 DEF Beside, Restored
      <4> QED BY <4>1, <4>2
    <3>8. LastIn(q, W, With(NR)) BY <3>4, <3>7, LastWidened
    <3>9. AllTold(Append(q, e), Statuses, With(NR), Against(b), NR \in b.interfaces_)
      BY <1>1, <1>4, <3>7, <3>8, ToldAppended
    <3> QED BY <3>1, <3>9
  <2> QED BY <2>3, <2>4
<1> QED BY <1>5, <1>6, <1>7

\* What a change leaves when neither oFono nor its modem ever came or went.
LEMMA SteadyDaemon ==
  ASSUME Beside, Daemon, ~missed', Steady'
  PROVE  /\ Steady /\ Calm /\ NoOwner /\ NoPlug /\ up /\ modem # None
         /\ NoneIn(q, Owners) /\ NoneIn(q, Replugs)
         /\ b.modem_ # None => b.modem_ = modem
<1>1. SystemInv BY DEF Beside
<1>2. ~Start /\ ~Stop /\ ~AddModem /\ ~RemoveModem BY Changes DEF Steady
<1>3. Calm /\ NoOwner /\ NoPlug /\ up /\ modem # None BY <1>1, <1>2, Quiet
<1>4. Steady BY <1>3 DEF Calm, Steady
<1>5. NoneIn(q, Owners) /\ NoneIn(q, Replugs) BY <1>4 DEF Beside, World, Steady
<1>6. NoneIn(q', Replugs) BY <1>3, <1>5 DEF NoPlug, Aside
<1>7. b.modem_ # None => b.modem_ = modem BY <1>6, Heeded DEF Steady
<1> QED BY <1>3, <1>4, <1>5, <1>7

\* A network that comes, goes or changes its status sends word to the bridge that
\* has set it up.
LEMMA NetworkKnownDaemon == Beside /\ Daemon /\ ~missed' => NetworkKnown'
<1> SUFFICES ASSUME Beside, Daemon, ~missed', Steady', b'.modem_ # None, NR \in b'.interfaces_,
                    NoneIn(q', Lacks(NR))
             PROVE  /\ b'.network_ /\ b'.has_sim_
                    /\ NoneIn(q', Statuses) => b'.status_ = map_status(net')
  BY DEF NetworkKnown
<1>1. SystemInv /\ b' = b BY BridgeStays DEF Beside
<1>2. \A X : NoneIn(q', X) => NoneIn(q, X) BY <1>1, Unsent
<1>3. /\ b.network_ /\ b.has_sim_
      /\ NoneIn(q, Statuses) => b.status_ = map_status(net)
  BY <1>1, <1>2, SteadyDaemon DEF Beside, NetworkKnown
<1>4. CASE NewStatus
  <2>1. PICK e \in Message : e \in StatusIs(net') /\ SentOnly(e) BY <1>1, <1>4, DaemonSends
  <2>2. e \in Statuses /\ Subscribed(b, e) BY <1>3, <2>1, Kinds, Hears
  <2>3. ~NoneIn(q', Statuses) BY <2>1, <2>2 DEF SentOnly, Latest
  <2> QED BY <1>1, <1>3, <2>3
<1>5. ~NewStatus => net' = net BY Changes
<1> QED BY <1>1, <1>2, <1>3, <1>4, <1>5

\* What a change says of the SIM to the bridge.
LEMMA CardsTold ==
  ASSUME SystemInv, ~missed', Daemon, Calm
  PROVE  \/ present' = present /\ NoCard
         \/ LastIn(q', Presents, PresentIs(present')) /\ ~NoneIn(q', Presents)
         \/ b.sim_ # "live" /\ (NoneIn(q, Presents) => NoneIn(q', Presents))
<1>1. ASSUME NEW e \in Message, e \in PresentIs(present'), SentOnly(e)
      PROVE  \/ LastIn(q', Presents, PresentIs(present')) /\ ~NoneIn(q', Presents)
             \/ b.sim_ # "live" /\ (NoneIn(q, Presents) => NoneIn(q', Presents))
  <2>1. e \in Presents /\ (Subscribed(b, e) <=> b.sim_ = "live") BY <1>1, Kinds, Hears
  <2> QED BY <1>1, <2>1 DEF SentOnly, Latest
<1>2. CASE InsertSim
  <2>1. PICK e \in Message : e \in PresentIs(present') /\ SentOnly(e)
    BY <1>2, DaemonSends
  <2> QED BY <1>1, <2>1
<1>3. CASE RemoveSim
  <2>1. PICK e \in Message : /\ e \in PresentIs(present')
                             /\ \/ SentOnly(e)
                                \/ \E f \in Message : f \in Are(ifs') /\ SentBoth(e, f)
    BY <1>3, DaemonSends
  <2>2. e \in Presents /\ (Subscribed(b, e) <=> b.sim_ = "live") BY <2>1, Kinds, Hears
  <2>3. ASSUME NEW f \in Message, f \in Are(ifs'), SentBoth(e, f)
        PROVE  \/ LastIn(q', Presents, PresentIs(present')) /\ ~NoneIn(q', Presents)
               \/ b.sim_ # "live" /\ (NoneIn(q, Presents) => NoneIn(q', Presents))
    <3>1. f \notin Presents BY <2>3, Kinds, Faces
    <3> QED BY <2>1, <2>2, <2>3, <3>1 DEF SentBoth, Aside
  <2> QED BY <1>1, <2>1, <2>3
<1>4. CASE Relists BY <1>4, Changes, Unsent
<1>5. CASE NewStatus BY <1>5, Changes, Unsent
<1>6. CASE NewContext BY <1>6, Changes, Unsent
<1>7. ~Start /\ ~Stop /\ ~AddModem /\ ~RemoveModem
  BY Changes, BridgeAssumption DEF Calm
<1> QED BY <1>2, <1>3, <1>4, <1>5, <1>6, <1>7, Changes

\* A SIM that comes or goes sends word to the bridge that has set it up.
LEMMA SimKnownDaemon == Beside /\ Daemon /\ ~missed' => SimKnown'
<1> SUFFICES ASSUME Beside, Daemon, ~missed', Steady', b'.modem_ # None
             PROVE  /\ b'.sim_ = None => SM \notin b'.interfaces_
                    /\ b'.sim_ = "idle" /\ SM \in b'.interfaces_ => ~NoneIn(q', Lacks(SM))
                    /\ LastIn(q', Presents, PresentIs(present'))
                    /\ b'.sim_ = "live" /\ SM \in b'.interfaces_ /\ NoneIn(q', Presents) =>
                         b'.has_sim_ = present'
  BY DEF SimKnown
<1>1. SystemInv /\ b' = b /\ Calm BY BridgeStays, SteadyDaemon DEF Beside
<1>2. \A X : NoneIn(q', X) => NoneIn(q, X) BY <1>1, Unsent
<1>3. /\ b.sim_ = None => SM \notin b.interfaces_
      /\ b.sim_ = "idle" /\ SM \in b.interfaces_ => ~NoneIn(q, Lacks(SM))
      /\ LastIn(q, Presents, PresentIs(present))
      /\ b.sim_ = "live" /\ SM \in b.interfaces_ /\ NoneIn(q, Presents) =>
           b.has_sim_ = present
  BY <1>1, SteadyDaemon DEF Beside, SimKnown
<1>4. CASE present' = present /\ NoCard
  BY <1>1, <1>2, <1>3, <1>4 DEF NoCard, Aside
<1>5. CASE LastIn(q', Presents, PresentIs(present')) /\ ~NoneIn(q', Presents)
  BY <1>1, <1>2, <1>3, <1>5
<1>6. CASE b.sim_ # "live" /\ (NoneIn(q, Presents) => NoneIn(q', Presents))
  <2>1. NoneIn(q, Presents) BY <1>1, <1>6, Silent DEF SystemInv
  <2>2. LastIn(q', Presents, PresentIs(present')) BY <1>6, <2>1, QueueNone
  <2> QED BY <1>1, <1>2, <1>3, <1>6, <2>2
<1> QED BY <1>1, <1>4, <1>5, <1>6, CardsTold

\* What none follows is followed.
LEMMA FollowedNone ==
  ASSUME NEW s, NEW Z, NoneIn(s, Z)
  PROVE  \A X, Y : FollowedBy(s, X, Z, Y)
BY DEF NoneIn, FollowedBy

\* A SIM that goes takes the network along in the next list; one that comes finds a
\* last list without the network.
LEMMA SimTakesNetworkDaemon == Beside /\ Daemon /\ ~missed' => SimTakesNetwork'
<1> SUFFICES ASSUME Beside, Daemon, ~missed', Steady'
             PROVE  /\ NR \in b'.interfaces_ /\ ~NoneIn(q', Presents) =>
                         ~NoneIn(q', Lacks(NR))
                    /\ FollowedBy(q', With(NR), Presents, Lacks(NR))
  BY DEF SimTakesNetwork
<1>1. SystemInv /\ b' = b /\ Calm /\ Good(b) /\ q \in Seq(Message)
  BY BridgeStays, SteadyDaemon DEF Beside, Inv, SystemInv, Waiting
<1>2. \A X : NoneIn(q', X) => NoneIn(q, X) BY <1>1, Unsent
<1>3. /\ NR \in b.interfaces_ /\ ~NoneIn(q, Presents) => ~NoneIn(q, Lacks(NR))
      /\ FollowedBy(q, With(NR), Presents, Lacks(NR))
  BY SteadyDaemon DEF Beside, SimTakesNetwork
<1>4. CASE NoCard
  <2>1. /\ NoneIn(q', Presents) <=> NoneIn(q, Presents)
        /\ FollowedBy(q', With(NR), Presents, Lacks(NR))
    BY <1>3, <1>4 DEF NoCard, Aside
  <2> QED BY <1>1, <1>2, <1>3, <2>1
<1>5. CASE b.sim_ # "live"
  <2>1. NoneIn(q', Presents)
    <3>1. SystemInv' BY <1>1, DaemonInv
    <3>2. Waiting(b, q') BY <1>1, <3>1 DEF SystemInv
    <3> DEFINE t == q'
    <3>3. Waiting(b, t) BY <3>2
    <3> HIDE DEF t
    <3>4. NoneIn(t, Presents) BY <1>5, <3>3, Silent
    <3> QED BY <3>4 DEF t
  <2> QED BY <2>1, FollowedNone
<1>6. CASE b.sim_ = "live" /\ (InsertSim \/ RemoveSim)
  <2>1. b.modem_ # None BY <1>1, <1>6, Proxies DEF None
  <2>2. b.modem_ = modem /\ Steady /\ NoneIn(q, Replugs) BY <2>1, SteadyDaemon
  <2>3. /\ LastIn(q, Ifs, Are(ifs))
        /\ NoneIn(q, Ifs) => b.interfaces_ = ifs
    BY <2>1, <2>2 DEF Beside, InterfacesTold, Steady
  <2>4. NR \notin BeforeSim BY DEF NR, BeforeSim
  <2>5. ASSUME NR \notin ifs, NEW e \in Message, e \in Presents, SentOnly(e)
        PROVE  /\ NR \in b.interfaces_ => ~NoneIn(q', Lacks(NR))
               /\ FollowedBy(q', With(NR), Presents, Lacks(NR))
    <3>1. LastIn(q, Ifs, Lacks(NR)) /\ (NoneIn(q, Ifs) => NR \notin b.interfaces_)
      BY <2>3, <2>5, LastWidened, Parts
    <3>2. NoneIn(q, Lacks(NR)) => NoneIn(q, Ifs) BY <1>1, <3>1, LastFound
    <3>3. \A e1 \in With(NR) : e1 \notin Lacks(NR) BY DEF With, Lacks
    <3>4. Behind(q, With(NR), Lacks(NR)) BY <1>1, <3>1, <3>3, Parts, LastNarrowed
    <3>5. FollowedBy(Append(q, e), With(NR), Presents, Lacks(NR))
      BY <1>1, <1>3, <3>4, FollowedAppended
    <3>6. q' = Append(q, e) BY <1>6, <2>5, Hears DEF SentOnly
    <3> QED BY <1>2, <3>1, <3>2, <3>5, <3>6
  <2>6. CASE InsertSim
    <3>1. ~present BY <2>6, Changes
    <3>2. NR \notin ifs BY <2>4, <3>1 DEF Beside, Shape
    <3>3. PICK e \in Message : e \in PresentIs(present') /\ SentOnly(e)
      BY <1>1, <2>6, DaemonSends
    <3>4. e \in Presents BY <3>3, Kinds
    <3> QED BY <1>1, <2>5, <3>2, <3>3, <3>4
  <2>7. CASE RemoveSim
    <3>0. ifs' = BeforeSim BY <2>7, Changes
    <3>1. PICK e \in Message :
            /\ e \in PresentIs(present')
            /\ \/ ifs = BeforeSim /\ SentOnly(e)
               \/ \E f \in Message : f \in Are(ifs') /\ f.path = modem /\ SentBoth(e, f)
      BY <1>1, <2>7, DaemonSends
    <3>2. e \in Presents BY <3>1, Kinds
    <3>3. CASE ifs = BeforeSim /\ SentOnly(e) BY <1>1, <2>4, <2>5, <3>2, <3>3
    <3>4. ASSUME NEW f \in Message, f \in Are(ifs'), f.path = modem, SentBoth(e, f)
          PROVE  /\ ~NoneIn(q', Lacks(NR))
                 /\ FollowedBy(q', With(NR), Presents, Lacks(NR))
      <4>1. f \in Ifs /\ f \in Lacks(NR) BY <2>4, <3>0, <3>4, Faces
      <4>2. Subscribed(b, f) BY <2>2, <3>4, <4>1, Hears
      <4> QED BY <3>4, <4>1, <4>2 DEF SentBoth, Latest
    <3> QED BY <1>1, <3>1, <3>3, <3>4
  <2> QED BY <1>6, <2>6, <2>7
<1>7. NoCard \/ InsertSim \/ RemoveSim
  <2>1. ~Start /\ ~Stop /\ ~AddModem /\ ~RemoveModem
    BY <1>1, Changes, BridgeAssumption DEF Calm
  <2> QED BY <1>1, <2>1, Unsent, Changes
<1> QED BY <1>4, <1>5, <1>6, <1>7

\* A context that changes sends word to the bridge that has set the contexts up.
LEMMA ContextsKnownDaemon == Beside /\ Daemon /\ ~missed' => ContextsKnown'
<1> SUFFICES ASSUME Beside, Daemon, ~missed' PROVE ContextsKnown' OBVIOUS
<1>1. /\ SystemInv /\ b' = b /\ Good(b) /\ Waiting(b, q)
      /\ ctx \in [Contexts -> ContextKind \ {"plain"}]
  BY BridgeStays DEF Beside, Inv, SystemInv, DaemonOK, DaemonContexts
<1>2. \A X : NoneIn(q', X) => NoneIn(q, X) BY <1>1, Unsent
<1>3. ContextsKnown BY DEF Beside
<1>4. LastIn(q', Statuses, StatusIs(net'))
  <2>1. CASE NewStatus
    <3>1. PICK e \in Message : e \in StatusIs(net') /\ SentOnly(e)
      BY <1>1, <2>1, DaemonSends
    <3>2. e \in Statuses /\ (Subscribed(b, e) <=> b.network_) BY <3>1, Kinds, Hears
    <3>3. CASE b.network_ BY <3>1, <3>2, <3>3 DEF SentOnly, Latest
    <3>4. CASE ~b.network_
      <4>1. q' = q BY <3>1, <3>2, <3>4 DEF SentOnly
      <4>2. NoneIn(q, Statuses) BY <1>1, <3>4, Silent
      <4> QED BY <4>1, <4>2, QueueNone
    <3> QED BY <3>3, <3>4
  <2>2. CASE ~NewStatus
    <3>1. NoStatus /\ net' = net
      <4>1. CASE Start \/ Stop BY <1>1, <4>1, Unsent, Changes
      <4>2. CASE AddModem \/ RemoveModem BY <1>1, <4>2, Unsent, Changes
      <4>3. CASE Relists \/ InsertSim BY <1>1, <4>3, Unsent, Changes
      <4>4. CASE RemoveSim \/ NewContext BY <1>1, <4>4, Unsent, Changes
      <4> QED BY <2>2, <4>1, <4>2, <4>3, <4>4, Changes
    <3> QED BY <1>3, <3>1 DEF NoStatus, Aside, ContextsKnown
  <2> QED BY <2>1, <2>2
<1>5. ASSUME NEW c \in Contexts
      PROVE  /\ LastIn(q', CtxOf(c), CtxIs(c, ctx'[c]))
             /\ NoneIn(q', CtxOf(c)) => b.connectionContexts_[c] \in {"absent", ctx'[c]}
             /\ b.connectionManager_ /\ NoneIn(q', CtxOf(c)) => ctx'[c] = ctx[c]
  <2>1. /\ LastIn(q, CtxOf(c), CtxIs(c, ctx[c]))
        /\ NoneIn(q, CtxOf(c)) => b.connectionContexts_[c] \in {"absent", ctx[c]}
    BY <1>3 DEF ContextsKnown
  <2>2. CASE NewContext
    <3>1. PICK e \in Message, d \in Contexts, k \in ContextKind :
            ctx' = [ctx EXCEPT ![d] = k] /\ e \in CtxIs(d, k) /\ SentOnly(e)
      BY <1>1, <2>2, DaemonSends
    <3>2. /\ e \in CtxOf(d) /\ (Subscribed(b, e) <=> b.connectionManager_)
          /\ d # c => e \notin CtxOf(c)
      BY <3>1, Kinds, Hears
    <3>3. CASE d = c
      <4>1. ctx'[c] = k BY <1>1, <3>1, <3>3
      <4>2. CASE b.connectionManager_
        <5>1. ~NoneIn(q', CtxOf(c)) /\ LastIn(q', CtxOf(c), CtxIs(c, k))
          BY <3>1, <3>2, <3>3, <4>2 DEF SentOnly, Latest
        <5> QED BY <4>1, <5>1
      <4>3. CASE ~b.connectionManager_
        <5>1. q' = q BY <3>1, <3>2, <4>3 DEF SentOnly
        <5>2. NoneIn(q', CtxOf(c)) BY <1>1, <4>3, <5>1, Silent
        <5>3. b.connectionContexts_[c] = "absent" BY <1>1, <4>3, Proxies DEF NoContexts
        <5> QED BY <4>3, <5>2, <5>3, QueueNone
      <4> QED BY <4>2, <4>3
    <3>4. CASE d # c
      <4>1. ctx'[c] = ctx[c] BY <1>1, <3>1, <3>4
      <4>2. Aside(q, q', CtxOf(c)) BY <3>1, <3>2, <3>4 DEF SentOnly
      <4> QED BY <2>1, <4>1, <4>2 DEF Aside
    <3> QED BY <3>3, <3>4
  <2>3. CASE ~NewContext
    <3>1. NoContext /\ ctx' = ctx
      <4>1. CASE Start \/ Stop BY <1>1, <4>1, Unsent, Changes
      <4>2. CASE AddModem \/ RemoveModem BY <1>1, <4>2, Unsent, Changes
      <4>3. CASE Relists \/ InsertSim BY <1>1, <4>3, Unsent, Changes
      <4>4. CASE RemoveSim \/ NewStatus BY <1>1, <4>4, Unsent, Changes
      <4> QED BY <2>3, <4>1, <4>2, <4>3, <4>4, Changes
    <3> QED BY <2>1, <3>1 DEF NoContext, Aside
  <2> QED BY <2>2, <2>3
<1>6. ASSUME Steady', b.modem_ # None, CM \in b.interfaces_, NoneIn(q', Lacks(CM))
      PROVE  /\ b.connectionManager_
             /\ \A c \in Contexts : NoneIn(q', CtxOf(c)) => b.connectionContexts_[c] = ctx'[c]
  <2>1. /\ b.connectionManager_
        /\ \A c \in Contexts : NoneIn(q, CtxOf(c)) => b.connectionContexts_[c] = ctx[c]
    BY <1>2, <1>3, <1>6, SteadyDaemon DEF ContextsKnown
  <2> QED BY <1>2, <1>5, <2>1
<1> QED BY <1>1, <1>4, <1>5, <1>6 DEF ContextsKnown

----------------------------------------------------------------------------
(* What is handled keeps each part of the invariant.                        *)

\* the signal that is handled
sig == Head(q)

\* What is known of a step that handles a signal.
LEMMA Delivery ==
  ASSUME Beside, Deliver
  PROVE  /\ SystemInv /\ DaemonOK /\ Waiting(b, q) /\ Good(b) /\ Good(b')
         /\ up' = up /\ modem' = modem /\ ifs' = ifs /\ present' = present
         /\ net' = net /\ ctx' = ctx
         /\ (restarted' <=> restarted) /\ (replugged' <=> replugged)
         /\ sig \in Message /\ Subscribed(b, sig) /\ Handled(sig, b, b')
         /\ sig \notin Owners => Follows(b, b')
         /\ \A X : NoneIn(q, X) => NoneIn(q', X) /\ sig \notin X
         /\ \A X : Keeps(b, b', X) => Carried(q, sig, q', X)
         /\ \A Y, X, B, own : AllTold(q, Y, X, B, own) /\ sig \in Y => own
<1>1. SystemInv /\ DaemonOK /\ Waiting(b, q) /\ Good(b) /\ Inv /\ Asked
  BY DEF Beside, SystemInv, Inv
<1>2. SystemInv' /\ [Next]_b BY <1>1, DeliverNext
<1>3. Good(b')
  <2>1. Inv' BY <1>1, <1>2, NextInv
  <2> QED BY <2>1 DEF Inv
<1>4. /\ q # <<>> /\ q' = Heard(b', Tail(q)) /\ UNCHANGED daemon
      /\ sig \in Message /\ Subscribed(b, sig) /\ Handled(sig, b, b')
      /\ sig \notin Owners => Follows(b, b')
  BY <1>1, DeliverEffect DEF sig
<1>5. /\ \A X : NoneIn(q, X) => NoneIn(q', X) /\ sig \notin X
      /\ \A X : (\A e \in X : Subscribed(b, e) => Subscribed(b', e)) =>
           Carried(q, sig, q', X)
      /\ \A Y, X, B, own : AllTold(q, Y, X, B, own) /\ sig \in Y => own
  BY <1>1, <1>4, Delivered DEF sig
<1>6. /\ up' = up /\ modem' = modem /\ ifs' = ifs /\ present' = present
      /\ net' = net /\ ctx' = ctx
      /\ (restarted' <=> restarted) /\ (replugged' <=> replugged)
  BY <1>4 DEF daemon
<1> QED BY <1>1, <1>3, <1>4, <1>5, <1>6 DEF Keeps

\* What is known of the bridge that a handler leaves.
LEMMA After ==
  ASSUME Beside, Deliver
  PROVE  /\ b' \in Bridge
         /\ b'.modem_ = None => b'.sim_ = None /\ ~b'.network_ /\ ~b'.connectionManager_
         /\ ~b'.connectionManager_ => /\ b'.connectionContexts_ = NoContexts
                                      /\ \A c : NoneIn(q', CtxOf(c))
         /\ b'.sim_ # "live" => NoneIn(q', Presents)
         /\ ~b'.network_ => NoneIn(q', Statuses)
<1>1. Good(b') BY Delivery
<1>2. /\ b' \in Bridge
      /\ b'.modem_ = None => b'.sim_ = None /\ ~b'.network_ /\ ~b'.connectionManager_
      /\ ~b'.connectionManager_ => b'.connectionContexts_ = NoContexts
  BY <1>1 DEF Good, Weak, OwnersKept
<1>3. SystemInv' BY DeliverNext DEF Beside
<1>4. Waiting(b', q') BY <1>3 DEF SystemInv
<1> DEFINE x == b'
           s == q'
<1>5. Waiting(x, s) BY <1>4
<1> HIDE DEF x, s
<1>6. /\ x.sim_ # "live" => NoneIn(s, Presents)
      /\ ~x.network_ => NoneIn(s, Statuses)
      /\ ~x.connectionManager_ => \A c : NoneIn(s, CtxOf(c))
  BY <1>5, Silent
<1> QED BY <1>2, <1>6 DEF x, s

\* What is known of the bridge and its signals before.
LEMMA Before ==
  ASSUME Beside
  PROVE  /\ b \in Bridge /\ Waiting(b, q) /\ q \in Seq(Message)
         /\ b.modem_ = None => /\ b.sim_ = None /\ ~b.network_ /\ ~b.connectionManager_
                               /\ NoneIn(q, Ifs)
         /\ ~b.connectionManager_ => /\ b.connectionContexts_ = NoContexts
                                     /\ \A c : NoneIn(q, CtxOf(c))
         /\ b.sim_ # "live" => NoneIn(q, Presents)
         /\ ~b.network_ => NoneIn(q, Statuses)
         /\ b.manager_ # "live" => NoneIn(q, Replugs)
<1>1. Good(b) /\ Waiting(b, q) /\ q \in Seq(Message) BY DEF Beside, Inv, SystemInv, Waiting
<1> QED BY <1>1, Proxies, Silent

\* What the first signal tells of the bridge.
LEMMA Heads ==
  ASSUME Beside, Deliver
  PROVE  /\ NoneIn(q', Inits) /\ sig \notin Broken
         /\ sig \in Inits =>
              /\ b.manager_ # "live" /\ b.modem_ = None /\ b.interfaces_ = {} /\ b.sim_ = None
              /\ ~b.network_ /\ ~b.connectionManager_ /\ ~Registered(b)
              /\ b.connectionContexts_ = NoContexts
         /\ sig \notin Inits => NoneIn(q, Inits)
         /\ ~restarted => /\ sig \notin Owners
                          /\ sig \in Removals => b.modem_ = sig.path
                          /\ sig \in Added => b.modem_ = None
         /\ ~replugged => sig \notin Replugs
<1>1. /\ sig \in Message
      /\ \A X : NoneIn(q, X) => NoneIn(q', X) /\ sig \notin X
      /\ \A X : Keeps(b, b', X) => Carried(q, sig, q', X)
      /\ \A Y, X, B, own : AllTold(q, Y, X, B, own) /\ sig \in Y => own
  BY Delivery
<1>2. /\ AllTold(q, Inits, {}, Message, TRUE)
      /\ ~NoneIn(q, Inits) =>
           b.manager_ # "live" /\ b = [InitBridge EXCEPT !.manager_ = b.manager_]
  BY DEF Beside, First
<1>3. NoneIn(q', Inits)
  <2>1. Keeps(b, b', {}) BY DEF Keeps
  <2>2. Carried(q, sig, q', {}) BY <1>1, <2>1
  <2>3. AllTold(q', Inits, {}, Message, FALSE) BY <1>1, <1>2, <2>2 DEF Carried
  <2> QED BY <2>3 DEF AllTold, ToldAt, NoneIn
<1>4. sig \notin Broken BY <1>1 DEF Beside, Shape
<1>5. sig \in Inits =>
        /\ b.manager_ # "live" /\ b.modem_ = None /\ b.interfaces_ = {} /\ b.sim_ = None
        /\ ~b.network_ /\ ~b.connectionManager_ /\ ~Registered(b)
        /\ b.connectionContexts_ = NoContexts
  <2> SUFFICES ASSUME sig \in Inits PROVE
        /\ b.manager_ # "live" /\ b.modem_ = None /\ b.interfaces_ = {} /\ b.sim_ = None
        /\ ~b.network_ /\ ~b.connectionManager_ /\ ~Registered(b)
        /\ b.connectionContexts_ = NoContexts
    OBVIOUS
  <2>1. b.manager_ # "live" /\ b = [InitBridge EXCEPT !.manager_ = b.manager_] BY <1>1, <1>2
  <2>2. /\ b.modem_ = InitBridge.modem_ /\ b.interfaces_ = InitBridge.interfaces_
        /\ b.sim_ = InitBridge.sim_ /\ b.status_ = InitBridge.status_
        /\ b.connectionContexts_ = InitBridge.connectionContexts_
        /\ b.network_ = InitBridge.network_
        /\ b.connectionManager_ = InitBridge.connectionManager_
    <3> DEFINE mgr == b.manager_
    <3>1. b = [InitBridge EXCEPT !.manager_ = mgr] BY <2>1
    <3> HIDE DEF mgr
    <3> QED BY <3>1 DEF InitBridge
  <2>3. /\ InitBridge.modem_ = None
        /\ InitBridge.interfaces_ = {} /\ InitBridge.sim_ = None
        /\ InitBridge.connectionContexts_ = NoContexts /\ InitBridge.status_ = "Unknown"
    BY DEF InitBridge
  <2>4. InitBridge.network_ = FALSE /\ InitBridge.connectionManager_ = FALSE
    BY DEF InitBridge
  <2>5. ~Registered(b) BY <2>2, <2>3 DEF Registered
  <2> QED BY <2>1, <2>2, <2>3, <2>4, <2>5
<1>6. sig \notin Inits => NoneIn(q, Inits) BY <1>1, <1>3, KeepsKinds DEF Carried
<1>7. /\ ~restarted => sig \notin Owners
      /\ ~replugged => sig \notin Replugs
  BY <1>1 DEF Beside, World
<1>8. ASSUME ~restarted
      PROVE  /\ sig \in Removals => b.modem_ = sig.path
             /\ sig \in Added => b.modem_ = None
  <2>1. /\ \A mdm \in Modems : AllTold(q, RemovalsOf(mdm), Leaves(mdm), Replugs, b.modem_ = mdm)
        /\ AllTold(q, Added, Removals, Replugs, b.modem_ = None)
    BY <1>8 DEF Beside, ModemTold
  <2>2. sig \in Removals => sig.path \in Modems /\ sig \in RemovalsOf(sig.path)
    <3>1. sig.on = "ModemRemoved" => sig.path \in Modems BY <1>1 DEF Message
    <3> QED BY <1>1, <3>1, Kinds
  <2> QED BY <1>1, <2>1, <2>2
<1> QED BY <1>3, <1>4, <1>5, <1>6, <1>7, <1>8

\* Handling a signal sends none.
LEMMA WorldDeliver == Beside /\ Deliver => World'
BY Delivery DEF Beside, World

\* The first signal of all is handled once.
LEMMA FirstDeliver == Beside /\ Deliver => First'
<1> SUFFICES ASSUME Beside, Deliver PROVE First' OBVIOUS
<1>1. NoneIn(q', Inits) BY Heads
<1>2. AllTold(q', Inits, {}, Message, TRUE) BY <1>1, ToldNone
<1> QED BY <1>1, <1>2 DEF First

\* What GetModems told is handled with the signal that asked for it.
LEMMA AskedDeliver == Beside /\ Deliver => Asked'
<1> SUFFICES ASSUME Beside, Deliver PROVE Asked' OBVIOUS
<1>1. listed' = NotListed
  BY DEF Deliver, OnInit, OnNameOwnerChanged, OnModemAdded, OnModemRemoved, OnInterfaces,
         OnPowered, OnPresent, OnStatus, OnContext, Handle
<1> QED BY <1>1 DEF Asked

\* Every handler, but that of an owner that left, shows the status it sets.
LEMMA StatusShownDeliver == Beside /\ Deliver => StatusShown'
<1> SUFFICES ASSUME Beside, Deliver, ~restarted PROVE Exact(b')
  BY Delivery DEF StatusShown, Exact
<1>1. Exact(b) BY DEF Beside, StatusShown
<1>2. Follows(b, b') BY Delivery, Heads
<1> QED BY <1>1, <1>2 DEF Follows

\* What every handler leaves of the interfaces.
LEMMA FacesLeft ==
  ASSUME Beside, Deliver
  PROVE  /\ Joined(sig, b, b') => b'.interfaces_ = ifs
         /\ JoinedLate(sig, b, b') => b'.interfaces_ = listed.ifs
         /\ Plugged(sig, b, b') \/ Listed(sig, b, b') => b'.interfaces_ = sig.val
         /\ b'.interfaces_ = b.interfaces_ \/ Joined(sig, b, b')
            \/ (restarted /\ JoinedLate(sig, b, b'))
            \/ Plugged(sig, b, b') \/ Listed(sig, b, b')
<1>1. /\ Joined(sig, b, b') => b'.interfaces_ = ifs
      /\ JoinedLate(sig, b, b') => b'.interfaces_ = listed.ifs
      /\ Plugged(sig, b, b') \/ Listed(sig, b, b') => b'.interfaces_ = sig.val
  BY DEF Joined, JoinedLate, Plugged, Listed, Read
<1>2. /\ Idled(sig, b, b') => b'.interfaces_ = b.interfaces_
      /\ Left(sig, b, b') => b'.interfaces_ = b.interfaces_
  BY DEF Idled, Left, SameObjects
<1>3. /\ Unplugged(sig, b, b') => b'.interfaces_ = b.interfaces_
      /\ Contexted(sig, b, b') => b'.interfaces_ = b.interfaces_
  BY DEF Unplugged, Contexted, SameModem
<1>4. /\ Switched(sig, b, b') => b'.interfaces_ = b.interfaces_
      /\ Carded(sig, b, b') => b'.interfaces_ = b.interfaces_
      /\ Networked(sig, b, b') => b'.interfaces_ = b.interfaces_
  BY DEF Switched, Carded, PresentSet, Networked, Framed
<1>5. JoinedLate(sig, b, b') => restarted BY DEF JoinedLate
<1> QED BY <1>1, <1>2, <1>3, <1>4, <1>5, Delivery DEF Handled

\* What every handler leaves of the manager and the modem.
LEMMA OwnersLeft ==
  ASSUME Beside, Deliver
  PROVE  \/ Idled(sig, b, b') \/ Joined(sig, b, b')
         \/ restarted /\ JoinedLate(sig, b, b')
         \/ Left(sig, b, b')
         \/ Plugged(sig, b, b') \/ Unplugged(sig, b, b')
         \/ /\ b'.manager_ = b.manager_ /\ b'.modem_ = b.modem_
            /\ sig \notin Owners /\ sig \notin Inits /\ sig \notin Replugs
            /\ \/ Listed(sig, b, b') \/ Switched(sig, b, b') \/ Carded(sig, b, b')
               \/ Networked(sig, b, b') \/ Contexted(sig, b, b')
<1>0. sig \in Message BY Delivery
<1>1. Listed(sig, b, b') \/ Switched(sig, b, b') \/ Carded(sig, b, b')
      \/ Networked(sig, b, b') \/ Contexted(sig, b, b') =>
        sig \notin Owners /\ sig \notin Inits /\ sig \notin Replugs
  BY <1>0, Kinds DEF Listed, Switched, Carded, Networked, Contexted
<1>2. /\ Listed(sig, b, b') => b'.manager_ = b.manager_ /\ b'.modem_ = b.modem_
      /\ Switched(sig, b, b') => b'.manager_ = b.manager_ /\ b'.modem_ = b.modem_
      /\ Carded(sig, b, b') => b'.manager_ = b.manager_ /\ b'.modem_ = b.modem_
      /\ Networked(sig, b, b') => b'.manager_ = b.manager_ /\ b'.modem_ = b.modem_
      /\ Contexted(sig, b, b') => b'.manager_ = b.manager_ /\ b'.modem_ = b.modem_
  BY DEF Listed, Switched, Carded, PresentSet, Networked, Framed, Contexted, SameModem
<1>3. JoinedLate(sig, b, b') => restarted BY DEF JoinedLate
<1> QED BY <1>1, <1>2, <1>3, Delivery DEF Handled

\* The bridge takes the lists as they were sent.
LEMMA ShapeDeliver == Beside /\ Deliver => Shape'
<1> SUFFICES ASSUME Beside, Deliver PROVE Shape' OBVIOUS
<1>1. Shape BY DEF Beside
<1>2. NoneIn(q', Broken) /\ ifs' = ifs /\ present' = present BY <1>1, Delivery DEF Shape
<1>3. Whole(b'.interfaces_)
  <2>1. sig \in Message /\ sig \notin Broken BY Delivery, Heads
  <2>2. CASE Plugged(sig, b, b')
    <3>1. sig.val = {} BY <2>1, <2>2, Faces DEF Plugged
    <3> QED BY <2>2, <3>1, FacesLeft DEF Whole
  <2>3. CASE Listed(sig, b, b')
    <3>1. Whole(sig.val) BY <2>1, <2>3, Faces DEF Listed
    <3> QED BY <2>3, <3>1, FacesLeft
  <2>4. CASE JoinedLate(sig, b, b') BY <2>4, FacesLeft DEF JoinedLate
  <2> QED BY <1>1, <2>2, <2>3, <2>4, FacesLeft DEF Shape
<1> QED BY <1>1, <1>2, <1>3 DEF Shape

\* A bridge whose modem was never removed has had no list without a modem.
LEMMA BareDeliver == Beside /\ Deliver => Bare'
<1> SUFFICES ASSUME Beside, Deliver, ~replugged, b'.modem_ = None
             PROVE  b'.interfaces_ = {}
  BY Delivery DEF Bare
<1>0. sig \in Message /\ sig \notin Replugs BY Delivery, Heads
<1>1. ~Plugged(sig, b, b') /\ ~Unplugged(sig, b, b')
  BY <1>0, Kinds DEF Plugged, Unplugged
<1>2. ~Joined(sig, b, b') /\ ~JoinedLate(sig, b, b')
  BY BridgeAssumption DEF Joined, JoinedLate
<1>3. ~Listed(sig, b, b') BY BridgeAssumption DEF Listed
<1>4. b'.modem_ = b.modem_ BY <1>1, <1>2, OwnersLeft DEF Idled, Left
<1>5. b'.interfaces_ = b.interfaces_ BY <1>1, <1>2, <1>3, FacesLeft
<1> QED BY <1>4, <1>5 DEF Beside, Bare

\* The word that oFono starts gives the bridge its modem.
LEMMA OwnerToldDeliver == Beside /\ Deliver => OwnerTold'
<1> SUFFICES ASSUME Beside, Deliver, Crash, up
             PROVE  /\ modem # None => b'.modem_ # None \/ ~NoneIn(q', Joins)
                    /\ LastIn(q', Owners, Started)
  BY Delivery DEF OwnerTold, Crash
<1>0. sig \in Message /\ sig \notin Replugs BY Delivery, Heads DEF Crash
<1>1. /\ modem # None => b.modem_ # None \/ ~NoneIn(q, Joins)
      /\ LastIn(q, Owners, Started)
  BY DEF Beside, OwnerTold
<1>2. Carried(q, sig, q', Owners) /\ Carried(q, sig, q', Joins) BY Delivery, KeepsKinds
<1>3. LastIn(q', Owners, Started) BY <1>1, <1>2 DEF Carried
<1>4. ASSUME modem # None, NoneIn(q', Joins) PROVE b'.modem_ # None
  <2>1. CASE sig \in Joins
    <3>1. Joined(sig, b, b') \/ JoinedLate(sig, b, b')
      <4>1. ~Left(sig, b, b') /\ ~Plugged(sig, b, b') /\ ~Unplugged(sig, b, b')
        BY <1>0, <2>1, Kinds DEF Left, Plugged, Unplugged
      <4>2. sig \in Owners \/ sig \in Inits BY <1>0, <2>1, Kinds
      <4> QED BY <1>4, <4>1, <4>2, OwnersLeft DEF Idled
    <3> QED BY <1>4, <3>1, BridgeAssumption DEF Joined, JoinedLate
  <2>2. CASE sig \notin Joins
    <3>1. b.modem_ # None BY <1>1, <1>2, <1>4, <2>2 DEF Carried
    <3>2. ~Plugged(sig, b, b') /\ ~Unplugged(sig, b, b')
      BY <1>0, Kinds DEF Plugged, Unplugged
    <3>3. b'.modem_ = b.modem_ BY <2>2, <3>2, OwnersLeft DEF Idled, Joined, JoinedLate, Left
    <3> QED BY <3>1, <3>3
  <2> QED BY <2>1, <2>2
<1> QED BY <1>3, <1>4

\* A handler keeps a modem that it does not lose, and its proxy of the manager.
LEMMA ManagerLeft ==
  ASSUME Beside, Deliver, ~restarted
  PROVE  /\ sig \notin Owners /\ ~Left(sig, b, b')
         /\ sig \in Inits <=> Idled(sig, b, b') \/ Joined(sig, b, b')
         /\ b.manager_ = "live" => b'.manager_ = "live"
         /\ b'.manager_ = "live" => Joined(sig, b, b') \/ b.manager_ = "live"
<1>1. sig \in Message /\ sig \notin Owners BY Delivery, Heads
<1>2. ~Left(sig, b, b') BY <1>1, Kinds DEF Left
<1>3. sig \in Joins <=> sig \in Inits BY <1>1, Kinds
<1>4. Idled(sig, b, b') \/ Joined(sig, b, b') => sig \in Inits BY <1>3 DEF Idled, Joined
<1>5. Plugged(sig, b, b') \/ Unplugged(sig, b, b') =>
        sig \notin Inits /\ b.manager_ = "live" /\ b'.manager_ = "live"
  BY <1>1, Kinds DEF Plugged, Unplugged
<1>6. sig \in Inits => b.manager_ # "live" BY Heads DEF None
<1>7. Idled(sig, b, b') => b'.manager_ # "live" BY DEF Idled
<1>8. Joined(sig, b, b') => b'.manager_ = "live" BY DEF Joined
<1> QED BY <1>1, <1>2, <1>4, <1>5, <1>6, <1>7, <1>8, OwnersLeft

\* The words of modems that come and go alternate, so that each finds the bridge as
\* it was when it was sent.
LEMMA ModemToldDeliver == Beside /\ Deliver => ModemTold'
<1> SUFFICES ASSUME Beside, Deliver, ~restarted
             PROVE  /\ b'.modem_ # None => b'.manager_ = "live"
                    /\ b'.manager_ = "live" => up
                    /\ \A mdm \in Modems :
                         AllTold(q', RemovalsOf(mdm), Leaves(mdm), Replugs, b'.modem_ = mdm)
                    /\ AllTold(q', Added, Removals, Replugs, b'.modem_ = None)
                    /\ b'.manager_ = "live" =>
                         /\ LastIn(q', Replugs, Leaves(modem))
                         /\ NoneIn(q', Replugs) => b'.modem_ = modem
                    /\ up /\ modem # None /\ Steady =>
                         b'.modem_ # None \/ ~NoneIn(q', Inits)
  <2>1. Beside /\ Deliver => /\ up' = up /\ modem' = modem /\ (restarted' <=> restarted)
                             /\ (replugged' <=> replugged)
    BY Delivery
  <2> QED BY <2>1 DEF ModemTold, Steady
<1>0. /\ sig \in Message /\ modem \in Modems \cup {None}
      /\ \A X : NoneIn(q, X) => NoneIn(q', X) /\ sig \notin X
      /\ \A X : Keeps(b, b', X) => Carried(q, sig, q', X)
  BY Delivery DEF DaemonOK
<1>1. /\ b.modem_ # None => b.manager_ = "live"
      /\ b.manager_ = "live" => up
      /\ \A mdm \in Modems : AllTold(q, RemovalsOf(mdm), Leaves(mdm), Replugs, b.modem_ = mdm)
      /\ AllTold(q, Added, Removals, Replugs, b.modem_ = None)
      /\ b.manager_ = "live" => /\ LastIn(q, Replugs, Leaves(modem))
                                /\ NoneIn(q, Replugs) => b.modem_ = modem
      /\ up /\ modem # None /\ Steady => b.modem_ # None \/ ~NoneIn(q, Inits)
  BY DEF Beside, ModemTold
<1>2. CASE sig \in Inits
  <2>1. Idled(sig, b, b') \/ Joined(sig, b, b') BY <1>2, ManagerLeft
  <2>2. b.manager_ # "live" /\ b.modem_ = None BY <1>2, Heads DEF None
  <2>3. NoneIn(q', Replugs) BY <1>0, <2>2, Before
  <2>4. /\ NoneIn(q', Added) /\ LastIn(q', Replugs, Leaves(modem))
        /\ \A mdm : NoneIn(q', RemovalsOf(mdm))
    <3>1. Added \subseteq Replugs /\ \A mdm : RemovalsOf(mdm) \subseteq Replugs BY Parts
    <3> QED BY <2>3, <3>1, NoneOf, QueueNone
  <2>5. /\ AllTold(q', Added, Removals, Replugs, b'.modem_ = None)
        /\ \A mdm \in Modems :
             AllTold(q', RemovalsOf(mdm), Leaves(mdm), Replugs, b'.modem_ = mdm)
    BY <2>4, ToldNone
  <2>6. CASE Idled(sig, b, b')
    <3>1. /\ b'.modem_ = None /\ b'.manager_ = "idle" /\ ~(up /\ modem # None)
      BY <2>2, <2>6 DEF Idled
    <3> QED BY <2>5, <3>1
  <2>7. CASE Joined(sig, b, b')
    <3>1. b'.modem_ = modem /\ b'.manager_ = "live" /\ up /\ modem # None
      BY <2>7 DEF Joined
    <3> QED BY <2>3, <2>4, <2>5, <3>1
  <2> QED BY <2>1, <2>6, <2>7
<1>3. CASE sig \notin Inits
  <2>0. /\ ~Idled(sig, b, b') /\ ~Joined(sig, b, b') /\ ~Left(sig, b, b')
        /\ b'.manager_ = "live" <=> b.manager_ = "live"
    BY <1>3, ManagerLeft
  <2>1. /\ sig \in Replugs <=> Plugged(sig, b, b') \/ Unplugged(sig, b, b')
        /\ sig \notin Replugs => b'.modem_ = b.modem_
    <3>1. Plugged(sig, b, b') \/ Unplugged(sig, b, b') => sig \in Replugs
      BY <1>0, Kinds DEF Plugged, Unplugged
    <3> QED BY <2>0, <3>1, OwnersLeft
  <2>2. sig \in Removals => b.modem_ # None /\ b'.modem_ = None
    <3>1. ASSUME sig \in Removals PROVE Unplugged(sig, b, b')
      <4>1. sig \in Replugs /\ sig \notin Added BY <1>0, <3>1, Kinds
      <4> QED BY <2>1, <4>1 DEF Plugged
    <3>2. ASSUME sig \in Removals PROVE b.modem_ = sig.path /\ sig.path \in Modems
      BY <3>1, <3>2, Heads DEF Unplugged
    <3> QED BY <3>1, <3>2, BridgeAssumption DEF Unplugged
  <2>3. sig \in Added => /\ b.modem_ = None /\ b'.modem_ = sig.path /\ sig.path \in Modems
    <3>1. ASSUME sig \in Added PROVE Plugged(sig, b, b')
      <4>1. sig \in Replugs /\ sig \notin Removals BY <1>0, <3>1, Kinds
      <4> QED BY <2>1, <4>1 DEF Unplugged
    <3> QED BY <3>1, Heads DEF Plugged
  <2>4. sig \in Replugs <=> sig \in Removals \/ sig \in Added BY <1>0, Kinds
  <2>5. /\ Carried(q, sig, q', Replugs) /\ Carried(q, sig, q', Removals)
        /\ \A mdm : Carried(q, sig, q', Leaves(mdm))
        /\ Carried(q, sig, q', Inits)
    BY <1>0, <2>0, KeepsKinds
  <2>6. (b'.modem_ # None => b'.manager_ = "live") /\ (b'.manager_ = "live" => up)
    <3>1. sig \in Added => b'.manager_ = "live"
      <4>1. sig \in Added => Plugged(sig, b, b')
        BY <1>0, <2>1, <2>4, Kinds DEF Unplugged
      <4> QED BY <4>1 DEF Plugged
    <3> QED BY <1>1, <2>0, <2>1, <2>2, <2>4, <3>1
  <2>7. ASSUME NEW mdm \in Modems
        PROVE  AllTold(q', RemovalsOf(mdm), Leaves(mdm), Replugs, b'.modem_ = mdm)
    <3>1. sig \in Leaves(mdm) => b'.modem_ = mdm
      <4>1. sig \in Leaves(mdm) => sig \in Added /\ sig.path = mdm BY <1>0, Kinds
      <4> QED BY <2>3, <4>1
    <3>2. b.modem_ = mdm /\ sig \notin Replugs => b'.modem_ = mdm BY <2>1
    <3>3. AllTold(q, RemovalsOf(mdm), Leaves(mdm), Replugs, b.modem_ = mdm) BY <1>1
    <3>4. Carried(q, sig, q', Leaves(mdm)) BY <2>5
    <3> QED BY <3>1, <3>2, <3>3, <3>4 DEF Carried
  <2>8. AllTold(q', Added, Removals, Replugs, b'.modem_ = None)
    <3>1. sig \in Removals => b'.modem_ = None BY <2>2
    <3>2. b.modem_ = None /\ sig \notin Replugs => b'.modem_ = None BY <2>1
    <3> QED BY <1>1, <2>5, <3>1, <3>2 DEF Carried
  <2>9. ASSUME b'.manager_ = "live"
        PROVE  /\ LastIn(q', Replugs, Leaves(modem))
               /\ NoneIn(q', Replugs) => b'.modem_ = modem
    <3>1. /\ LastIn(q, Replugs, Leaves(modem))
          /\ NoneIn(q, Replugs) => b.modem_ = modem
      BY <1>1, <2>0, <2>9
    <3>2. /\ LastIn(q', Replugs, Leaves(modem))
          /\ NoneIn(q', Replugs) /\ sig \in Replugs => sig \in Leaves(modem)
          /\ NoneIn(q', Replugs) /\ sig \notin Replugs => NoneIn(q, Replugs)
      BY <2>5, <3>1 DEF Carried
    <3>3. sig \in Leaves(modem) => b'.modem_ = modem
      <4>1. CASE modem = None
        <5>1. sig \in Leaves(modem) => sig \in Removals BY <1>0, <4>1, Kinds
        <5> QED BY <2>2, <4>1, <5>1
      <4>2. CASE modem \in Modems
        <5>1. sig \in Leaves(modem) => sig \in Added /\ sig.path = modem
          BY <1>0, <4>2, Kinds
        <5> QED BY <2>3, <5>1
      <4> QED BY <1>0, <4>1, <4>2
    <3> QED BY <2>1, <3>1, <3>2, <3>3
  <2>10. ASSUME up, modem # None, Steady PROVE b'.modem_ # None
    <3>1. sig \notin Replugs BY <2>10, Heads DEF Steady
    <3>2. NoneIn(q, Inits) BY <1>3, Heads
    <3> QED BY <1>1, <2>1, <2>10, <3>1, <3>2
  <2> QED BY <2>6, <2>7, <2>8, <2>9, <2>10
<1> QED BY <1>2, <1>3

\* A list replaces the interfaces; the last one is what the modem has. A modem that
\* came back has sent none yet, and neither has it any.
LEMMA InterfacesToldDeliver == Beside /\ Deliver => InterfacesTold'
<1> SUFFICES ASSUME Beside, Deliver, ~restarted, b'.modem_ # None, NoneIn(q', Replugs)
             PROVE  /\ LastIn(q', Ifs, Are(ifs))
                    /\ NoneIn(q', Ifs) =>
                         \/ b'.interfaces_ = ifs
                         \/ /\ b'.interfaces_ = {} /\ replugged
                            /\ b'.network_ => NR \notin ifs
  <2>1. Beside /\ Deliver => /\ ifs' = ifs /\ (restarted' <=> restarted)
                             /\ (replugged' <=> replugged)
    BY Delivery
  <2> QED BY <2>1 DEF InterfacesTold
<1>0. /\ sig \in Message /\ DaemonOK
      /\ \A X : NoneIn(q, X) => NoneIn(q', X) /\ sig \notin X
      /\ \A X : Keeps(b, b', X) => Carried(q, sig, q', X)
  BY Delivery
<1>1. b'.modem_ = modem /\ up /\ modem # None
  <2>1. ModemTold' /\ up' = up /\ modem' = modem /\ ~restarted' BY ModemToldDeliver, Delivery
  <2> QED BY <2>1 DEF ModemTold
<1>2. snapshot.net = "error" => NR \notin ifs BY <1>0, <1>1, Snapshot DEF Offers
<1>3. CASE sig \in Inits
  <2>1. b.modem_ = None /\ ~Idled(sig, b, b')
    <3>1. b.modem_ = None BY <1>3, Heads
    <3> QED BY <3>1 DEF Idled
  <2>2. Joined(sig, b, b') BY <1>3, <2>1, ManagerLeft
  <2>3. LastIn(q', Ifs, Are(ifs)) BY <1>0, <2>1, Before, QueueNone
  <2> QED BY <2>2, <2>3, FacesLeft
<1>4. CASE sig \in Added
  <2>1. Plugged(sig, b, b')
    <3>1. sig \in Replugs /\ sig \notin Removals /\ sig \notin Inits BY <1>0, <1>4, Kinds
    <3> QED BY <3>1, OwnersLeft, ManagerLeft DEF Unplugged
  <2>2. b.modem_ = None /\ replugged
    <3>1. sig \in Replugs BY <1>0, <1>4, Kinds
    <3> QED BY <1>4, <3>1, Heads
  <2>3. NoneIn(q', Ifs) /\ ~b.network_ BY <1>0, <2>2, Before
  <2>4. b'.interfaces_ = {}
    <3>1. sig.val = {} BY <1>0, <1>4, Heads, Faces
    <3> QED BY <2>1, <3>1, FacesLeft
  <2>5. b'.network_ => snapshot.net = "error" BY <2>1, <2>3, <2>4 DEF Plugged, Read
  <2>6. LastIn(q', Ifs, Are(ifs)) BY <2>3, QueueNone
  <2> QED BY <1>2, <2>2, <2>4, <2>5, <2>6
<1>5. sig \notin Removals
  <2>1. ASSUME sig \in Removals PROVE FALSE
    <3>1. Unplugged(sig, b, b')
      <4>1. sig \in Replugs /\ sig \notin Added /\ sig \notin Inits BY <1>0, <2>1, Kinds
      <4> QED BY <4>1, OwnersLeft, ManagerLeft DEF Plugged
    <3>2. b.modem_ = sig.path BY <2>1, Heads
    <3> QED BY <3>1, <3>2 DEF Unplugged
  <2> QED BY <2>1
<1>6. CASE sig \notin Inits /\ sig \notin Added
  <2>1. /\ b'.modem_ = b.modem_
        /\ \/ Listed(sig, b, b') \/ Switched(sig, b, b') \/ Carded(sig, b, b')
           \/ Networked(sig, b, b') \/ Contexted(sig, b, b')
    BY <1>5, <1>6, OwnersLeft, ManagerLeft DEF Plugged, Unplugged
  <2>2. Carried(q, sig, q', Ifs) /\ Carried(q, sig, q', Replugs)
    BY <1>0, <2>1, ManagerLeft, KeepsKinds
  <2>3. sig \notin Replugs BY <1>0, <1>5, <1>6, Kinds
  <2>4. NoneIn(q, Replugs) BY <2>2, <2>3 DEF Carried
  <2>5. /\ LastIn(q, Ifs, Are(ifs))
        /\ NoneIn(q, Ifs) =>
             \/ b.interfaces_ = ifs
             \/ b.interfaces_ = {} /\ replugged /\ (b.network_ => NR \notin ifs)
    BY <2>1, <2>4 DEF Beside, InterfacesTold
  <2>6. /\ LastIn(q', Ifs, Are(ifs))
        /\ NoneIn(q', Ifs) /\ sig \in Ifs => sig \in Are(ifs)
        /\ NoneIn(q', Ifs) /\ sig \notin Ifs => NoneIn(q, Ifs)
    BY <2>2, <2>5 DEF Carried
  <2>7. CASE Listed(sig, b, b')
    <3>1. sig \in Ifs /\ b'.interfaces_ = sig.val BY <2>7, FacesLeft DEF Listed
    <3>2. sig \in Are(ifs) => sig.val = ifs BY <1>0, Faces
    <3> QED BY <2>6, <3>1, <3>2
  <2>8. CASE ~Listed(sig, b, b')
    <3>1. /\ sig \notin Ifs
          /\ b'.interfaces_ = b.interfaces_
      <4>1. ~Joined(sig, b, b') /\ ~Plugged(sig, b, b')
        BY <1>6, ManagerLeft DEF Plugged
      <4>2. Switched(sig, b, b') \/ Carded(sig, b, b') \/ Networked(sig, b, b')
            \/ Contexted(sig, b, b') => sig \notin Ifs
        BY <1>0, Kinds DEF Switched, Carded, Networked, Contexted
      <4> QED BY <2>1, <2>8, <4>1, <4>2, FacesLeft
    <3>2. b'.network_ => b.network_ \/ snapshot.net = "error"
      <4>1. Switched(sig, b, b') => (b'.network_ => b.network_) BY DEF Switched
      <4>2. Carded(sig, b, b') => (b'.network_ => b.network_ \/ snapshot.net = "error")
        BY DEF Carded, PresentSet
      <4>3. Networked(sig, b, b') => b.network_ BY DEF Networked
      <4>4. Contexted(sig, b, b') => b'.network_ = b.network_ BY DEF Contexted, SameRadio
      <4> QED BY <2>1, <2>8, <4>1, <4>2, <4>3, <4>4
    <3> QED BY <1>2, <2>5, <2>6, <3>1, <3>2
  <2> QED BY <2>7, <2>8
<1> QED BY <1>3, <1>4, <1>6

\* What every handler leaves of what the bridge was told before it came to know.
LEMMA BlankLeft ==
  ASSUME Beside, Deliver
  PROVE  Blank(b') => Blank(b) \/ Plugged(sig, b, b') \/ Unplugged(sig, b, b')
<1>1. Idled(sig, b, b') \/ Left(sig, b, b') => (Blank(b') => Blank(b))
  BY DEF Idled, Left, SameObjects, SameRadio, Blank
<1>2. Joined(sig, b, b') \/ JoinedLate(sig, b, b') \/ Listed(sig, b, b') =>
        (Blank(b') => Blank(b))
  BY DEF Joined, JoinedLate, Listed, Read
<1>3. Switched(sig, b, b') => (Blank(b') => Blank(b)) BY DEF Switched, Blank, Lost
<1>4. Carded(sig, b, b') => (Blank(b') => Blank(b)) BY DEF Carded, PresentSet
<1>5. Networked(sig, b, b') => (Blank(b') => Blank(b)) BY DEF Networked
<1>6. Contexted(sig, b, b') => (Blank(b') => Blank(b))
  BY DEF Contexted, SameRadio, Blank
<1> QED BY <1>1, <1>2, <1>3, <1>4, <1>5, <1>6, Delivery DEF Handled

\* Only a bridge that sets up a network, or already has one, comes to claim one; a
\* list without the network ends the claim.
LEMMA ClaimedDeliver == Beside /\ Deliver => Claimed'
<1> SUFFICES ASSUME Beside, Deliver, Alone, Registered(b')
             PROVE  b'.modem_ # None /\ (NoneIn(q', Replugs) => NR \in b'.interfaces_)
  <2>1. Beside /\ Deliver => (restarted' <=> restarted) /\ (replugged' <=> replugged)
    BY Delivery
  <2> QED BY <2>1 DEF Claimed, Alone, Registered
<1>0. /\ sig \in Message
      /\ \A X : NoneIn(q, X) => NoneIn(q', X) /\ sig \notin X
      /\ \A X : Keeps(b, b', X) => Carried(q, sig, q', X)
  BY Delivery
<1>1. Registered(b) => b.modem_ # None /\ (NoneIn(q, Replugs) => NR \in b.interfaces_)
  BY DEF Beside, Claimed
<1>2. restarted => ~replugged /\ NoneIn(q, Replugs) /\ sig \notin Replugs
  BY <1>0 DEF Beside, World, Alone
<1>3. ~restarted => sig \notin Owners /\ (sig \in Inits => ~Registered(b)) BY Heads
<1>4. CASE Idled(sig, b, b')
  <2>1. Registered(b) BY <1>4 DEF Idled, SameObjects, SameRadio, Registered
  <2>2. restarted
    <3>1. sig \in Inits \/ sig \in Owners BY <1>0, <1>4, Kinds DEF Idled
    <3> QED BY <1>3, <2>1, <3>1
  <2> QED BY <1>1, <1>2, <1>4, <2>1, <2>2 DEF Idled, SameObjects
<1>5. CASE Joined(sig, b, b')
  <2>1. b'.modem_ # None BY <1>5 DEF Joined
  <2>2. b'.interfaces_ = ifs /\ (NR \in ifs \/ (Registered(b) /\ NR \notin b.interfaces_))
    BY <1>5 DEF Joined, Read
  <2>3. Registered(b) => restarted
    <3>1. sig \in Inits \/ sig \in Owners BY <1>0, <1>5, Kinds DEF Joined
    <3> QED BY <1>3, <3>1
  <2> QED BY <1>1, <1>2, <2>1, <2>2, <2>3
<1>10. CASE JoinedLate(sig, b, b')
  <2>1. b'.modem_ # None /\ restarted BY <1>10, BridgeAssumption DEF JoinedLate
  <2>2. NR \in b'.interfaces_ \/ (Registered(b) /\ NR \notin b.interfaces_)
    BY <1>10 DEF JoinedLate, Read
  <2> QED BY <1>1, <1>2, <2>1, <2>2
<1>6. CASE Left(sig, b, b')
  <2>1. Registered(b) BY <1>6 DEF Left, SameObjects, SameRadio, Registered
  <2>2. restarted
    <3>1. sig \in Owners BY <1>0, <1>6, Kinds DEF Left
    <3> QED BY <1>3, <3>1
  <2> QED BY <1>1, <1>2, <1>6, <2>1, <2>2 DEF Left, SameObjects
<1>7. CASE Plugged(sig, b, b')
  <2>1. sig \in Added /\ sig \in Replugs BY <1>0, <1>7, Kinds DEF Plugged
  <2>2. ~Registered(b) BY <1>1, <1>2, <2>1, Heads
  <2> QED BY <1>7, <2>2, BridgeAssumption DEF Plugged, Read
<1>8. CASE Unplugged(sig, b, b')
  <2>1. sig \in Removals /\ sig \in Replugs BY <1>0, <1>8, Kinds DEF Unplugged
  <2>2. b.modem_ = sig.path BY <1>2, <2>1, Heads
  <2> QED BY <1>8, <2>2 DEF Unplugged, Lost, Registered
<1>9. CASE /\ b'.manager_ = b.manager_ /\ b'.modem_ = b.modem_ /\ sig \notin Replugs
           /\ \/ Listed(sig, b, b') \/ Switched(sig, b, b') \/ Carded(sig, b, b')
              \/ Networked(sig, b, b') \/ Contexted(sig, b, b')
  <2>1. Carried(q, sig, q', Replugs) BY <1>0, <1>9, KeepsKinds
  <2>2. NoneIn(q', Replugs) => NoneIn(q, Replugs) BY <1>9, <2>1 DEF Carried
  <2>3. CASE Listed(sig, b, b')
    <3>1. b'.modem_ # None BY <2>3, BridgeAssumption DEF Listed
    <3>2. NR \in b'.interfaces_ \/ (Registered(b) /\ NR \notin b.interfaces_)
      BY <2>3 DEF Listed, Read
    <3> QED BY <1>1, <2>2, <3>1, <3>2
  <2>4. CASE Switched(sig, b, b')
    <3>1. b' = b BY <2>4 DEF Switched, Registered, Lost
    <3> QED BY <1>1, <2>2, <3>1
  <2>5. CASE Carded(sig, b, b')
    <3>1. Registered(b) /\ b'.interfaces_ = b.interfaces_
      BY <2>5 DEF Carded, PresentSet, Framed
    <3> QED BY <1>1, <1>9, <2>2, <3>1
  <2>6. CASE Networked(sig, b, b')
    <3>1. b.network_ /\ sig \in Statuses /\ b'.interfaces_ = b.interfaces_
      BY <2>6 DEF Networked, Framed
    <3>2. b.modem_ # None BY <3>1, Before
    <3>3. NoneIn(q, Replugs) => NR \in b.interfaces_
      <4> DEFINE own == NR \in b.interfaces_
      <4>1. NoneIn(q, Replugs) => AllTold(q, Statuses, With(NR), Against(b), own)
        BY DEF Beside, StatusesTold
      <4> HIDE DEF own
      <4>2. NoneIn(q, Replugs) => own BY <3>1, <4>1, Delivery
      <4> QED BY <4>2 DEF own
    <3> QED BY <1>9, <2>2, <3>1, <3>2, <3>3
  <2>7. CASE Contexted(sig, b, b')
    <3>1. Registered(b) /\ b'.interfaces_ = b.interfaces_
      BY <2>7 DEF Contexted, SameRadio, SameModem, Registered
    <3> QED BY <1>1, <1>9, <2>2, <3>1
  <2> QED BY <1>9, <2>3, <2>4, <2>5, <2>6, <2>7
<1> QED BY <1>4, <1>5, <1>6, <1>7, <1>8, <1>9, <1>10, OwnersLeft

\* A status that a bridge hears came after the list with the network, which is
\* handled before it and sets the network up.
LEMMA StatusesToldDeliver == Beside /\ Deliver => StatusesTold'
<1> DEFINE next == NR \in b'.interfaces_
<1> SUFFICES ASSUME Beside, Deliver, Alone, NoneIn(q', Replugs)
             PROVE  AllTold(q', Statuses, With(NR), Against(b'), next)
  <2>1. Beside /\ Deliver => (restarted' <=> restarted) /\ (replugged' <=> replugged)
    BY Delivery
  <2>2. Against(b)' = Against(b') BY DEF Against, Blank
  <2> QED BY <2>1, <2>2 DEF StatusesTold, Alone
<1>0. /\ sig \in Message /\ SystemInv /\ Good(b)
      /\ \A X : NoneIn(q, X) => NoneIn(q', X) /\ sig \notin X
      /\ \A X : Keeps(b, b', X) => Carried(q, sig, q', X)
  BY Delivery
<1>1. CASE ~b'.network_ \/ ~b.network_
  <2>1. NoneIn(q', Statuses) BY <1>0, <1>1, Before, After
  <2> QED BY <2>1, ToldNone
<1>2. CASE b'.network_ /\ b.network_
  <2>1. b.modem_ # None BY <1>2, Before
  <2>2. sig \notin Inits BY <1>2, Heads
  <2>3. restarted => ~replugged /\ SingleModem /\ NoneIn(q, Replugs) /\ sig \notin Replugs
    BY <1>0 DEF Beside, World, Alone
  <2>4. ~Plugged(sig, b, b')
    <3>1. Plugged(sig, b, b') => sig \in Added /\ sig \in Replugs
      BY <1>0, Kinds DEF Plugged
    <3> QED BY <2>1, <2>3, <3>1, Heads
  <2>5. ~Unplugged(sig, b, b')
    <3>1. Unplugged(sig, b, b') => sig \in Removals /\ sig \in Replugs
      BY <1>0, Kinds DEF Unplugged
    <3>2. Unplugged(sig, b, b') => b.modem_ = sig.path BY <2>3, <3>1, Heads
    <3> QED BY <1>2, <3>2 DEF Unplugged
  <2>6. sig \notin Replugs
    <3>1. Idled(sig, b, b') \/ Joined(sig, b, b') \/ JoinedLate(sig, b, b')
          \/ Left(sig, b, b') => sig \notin Replugs
      BY <1>0, Kinds DEF Idled, Joined, JoinedLate, Left
    <3> QED BY <2>4, <2>5, <3>1, OwnersLeft
  <2>7. NoneIn(q, Replugs)
    <3>1. CASE restarted BY <2>3, <3>1
    <3>2. CASE ~restarted
      <4>1. Carried(q, sig, q', Replugs) BY <1>0, <3>2, ManagerLeft, KeepsKinds
      <4> QED BY <2>6, <4>1 DEF Carried
    <3> QED BY <3>1, <3>2
  <2>8. b'.modem_ = b.modem_
    <3>1. ASSUME Joined(sig, b, b') PROVE b'.modem_ = b.modem_
      <4>1. sig \in Owners BY <1>0, <2>2, <3>1, Kinds DEF Joined
      <4>2. restarted BY <4>1, Heads
      <4> QED BY <1>0, <2>1, <2>3, <3>1, <4>2, TheModem DEF Joined
    <3>2. ASSUME restarted, JoinedLate(sig, b, b') PROVE b'.modem_ = b.modem_
      <4>1. b.modem_ \in Modems BY <2>1, Before DEF Bridge
      <4> QED BY <2>3, <3>2, <4>1 DEF JoinedLate, SingleModem
    <3> QED BY <2>4, <2>5, <3>1, <3>2, OwnersLeft DEF Idled, Left
  <2>9. Carried(q, sig, q', With(NR)) BY <1>0, <2>8, KeepsKinds
  <2>10. AllTold(q, Statuses, With(NR), Against(b), NR \in b.interfaces_)
    BY <2>7 DEF Beside, StatusesTold
  <2>11. sig \in With(NR) \/ (NR \in b.interfaces_ /\ sig \notin Against(b)) => next
    <3>1. CASE Listed(sig, b, b')
      <4>1. sig \in Ifs /\ b'.interfaces_ = sig.val BY <3>1, FacesLeft DEF Listed
      <4>2. sig \notin Against(b) => NR \in sig.val BY <1>0, <4>1, Faces
      <4>3. sig \in With(NR) => NR \in sig.val BY <1>0, Faces
      <4> QED BY <4>1, <4>2, <4>3
    <3>2. CASE Joined(sig, b, b')
      <4>1. sig \in Owners /\ sig \notin Ifs BY <1>0, <2>2, <3>2, Kinds DEF Joined
      <4>2. sig \notin With(NR) BY <1>0, <4>1, Faces
      <4>3. NR \in b.interfaces_ /\ ~next => Blank(b) BY <1>2, <3>2 DEF Joined, Read
      <4>4. Blank(b) => sig \in Against(b) BY <1>0, <4>1, Faces
      <4> QED BY <4>2, <4>3, <4>4
    <3>4. CASE JoinedLate(sig, b, b')
      <4>1. sig \in Owners /\ sig \notin Ifs BY <1>0, <2>2, <3>4, Kinds DEF JoinedLate
      <4>2. sig \notin With(NR) BY <1>0, <4>1, Faces
      <4>3. NR \in b.interfaces_ /\ ~next => Blank(b) BY <1>2, <3>4 DEF JoinedLate, Read
      <4>4. Blank(b) => sig \in Against(b) BY <1>0, <4>1, Faces
      <4> QED BY <4>2, <4>3, <4>4
    <3>3. CASE ~Listed(sig, b, b') /\ ~Joined(sig, b, b') /\ ~JoinedLate(sig, b, b')
      <4>1. b'.interfaces_ = b.interfaces_ BY <2>4, <3>3, FacesLeft
      <4>2. sig \notin Ifs
        <5>1. Idled(sig, b, b') \/ Left(sig, b, b') => sig \notin Ifs
          BY <1>0, Kinds DEF Idled, Left
        <5>2. Switched(sig, b, b') \/ Carded(sig, b, b') \/ Networked(sig, b, b')
              \/ Contexted(sig, b, b') => sig \notin Ifs
          BY <1>0, Kinds DEF Switched, Carded, Networked, Contexted
        <5> QED BY <2>4, <2>5, <3>3, <5>1, <5>2, OwnersLeft
      <4>3. sig \notin With(NR) BY <1>0, <4>2, Faces
      <4> QED BY <4>1, <4>3
    <3> QED BY <3>1, <3>2, <3>3, <3>4
  <2> HIDE DEF next
  <2>12. AllTold(q', Statuses, With(NR), Against(b), next)
    BY <2>9, <2>10, <2>11 DEF Carried
  <2>13. Against(b') \subseteq Against(b) BY <2>4, <2>5, BlankLeft DEF Against
  <2> QED BY <2>12, <2>13, ToldWeakened
<1> QED BY <1>1, <1>2

\* The word that oFono left withdraws the network, and nothing shows one after it.
LEMMA WithdrawnDeliver == Beside /\ Deliver => Withdrawn'
<1> SUFFICES ASSUME Beside, Deliver, Crash, ~up \/ modem = None
             PROVE  /\ Behind(q', Others, Gone)
                    /\ NoneIn(q', Gone) => b'.pub.RegistrationStatus \notin Known
  <2>1. Beside /\ Deliver => /\ up' = up /\ modem' = modem
                             /\ (restarted' <=> restarted) /\ (replugged' <=> replugged)
    BY Delivery
  <2> QED BY <2>1 DEF Withdrawn, Crash
<1>0. sig \in Message BY Delivery
<1>1. /\ Behind(q, Others, Gone)
      /\ NoneIn(q, Gone) => b.pub.RegistrationStatus \notin Known
  BY DEF Beside, Withdrawn
<1>2. Carried(q, sig, q', Gone) BY Delivery, KeepsKinds
<1>3. Behind(q', Others, Gone) /\ (sig \in Others => ~NoneIn(q', Gone))
  BY <1>1, <1>2 DEF Carried
<1>4. ASSUME NoneIn(q', Gone) PROVE b'.pub.RegistrationStatus \notin Known
  <2>1. sig \in Owners \/ sig \in Inits BY <1>0, <1>3, <1>4, Kinds
  <2>2. CASE Idled(sig, b, b')
    <3>1. sig \notin Gone BY <1>0, <2>2, Kinds DEF Idled
    <3>2. NoneIn(q, Gone) BY <1>2, <1>4, <3>1 DEF Carried
    <3> QED BY <1>1, <2>2, <3>2 DEF Idled
  <2>3. CASE Left(sig, b, b') BY <2>3 DEF Left, Known
  <2>4. ~Joined(sig, b, b') BY DEF Joined
  <2>6. ~JoinedLate(sig, b, b')
    <3>1. JoinedLate(sig, b, b') => sig \notin Gone BY <1>0, Kinds DEF JoinedLate
    <3>2. JoinedLate(sig, b, b') => ~NoneIn(q, Gone) BY DEF JoinedLate
    <3> QED BY <1>2, <1>4, <3>1, <3>2 DEF Carried
  <2>5. ~Plugged(sig, b, b') /\ ~Unplugged(sig, b, b')
    BY <1>0, <2>1, Kinds DEF Plugged, Unplugged
  <2> QED BY <2>1, <2>2, <2>3, <2>4, <2>5, <2>6, OwnersLeft
<1> QED BY <1>3, <1>4

\* Where there is another interface there is that of the SIM, and a SIM.
LEMMA SimFirst ==
  ASSUME Beside
  PROVE  /\ \A faces : \A id : Whole(faces) /\ id \in faces => SM \in faces
         /\ \A id : id \in ifs => SM \in ifs
         /\ \A id : id \in ifs /\ id # SM => present
         /\ \A id : id \in b.interfaces_ => SM \in b.interfaces_
         /\ NR # SM /\ CM # SM
<1>1. \A faces : \A id : Whole(faces) /\ id \in faces => SM \in faces
  BY DEF Whole, SM, BeforeSim
<1>2. /\ Whole(ifs) /\ Whole(b.interfaces_)
      /\ ifs \ BeforeSim # {} => present
  BY DEF Beside, Shape
<1>3. \A id : id \in ifs /\ id # SM => present BY <1>2 DEF BeforeSim, SM
<1>4. NR # SM /\ CM # SM BY DEF NR, SM, CM
<1> QED BY <1>1, <1>2, <1>3, <1>4

\* After a restart the modem is read again, and the lists of the new oFono come last.
LEMMA RestoredDeliver == Beside /\ Deliver => Restored'
<1> DEFINE now == /\ NoneIn(q', Ifs) /\ b'.interfaces_ = ifs
                  /\ NoneIn(q', Owners) \/ ~Blank(b') \/ NR \notin ifs
<1> SUFFICES ASSUME Beside, Deliver, Crash, up, modem # None, b'.modem_ # None
             PROVE  \/ ~NoneIn(q', Ifs) /\ LastIn(q', IfsOrOwners, Are(ifs))
                    \/ now
                    \/ /\ ~NoneIn(q', Owners) /\ LastIn(q', IfsOrOwners, Owners)
                       /\ ifs = BeforeSim
  <2>1. Beside /\ Deliver => /\ up' = up /\ modem' = modem /\ ifs' = ifs
                             /\ (restarted' <=> restarted) /\ (replugged' <=> replugged)
    BY Delivery
  <2>2. Blank(b)' <=> Blank(b') BY DEF Blank
  <2> QED BY <2>1, <2>2 DEF Restored, Crash
<1>0. /\ sig \in Message /\ SystemInv /\ Good(b) /\ DaemonOK
      /\ \A X : NoneIn(q, X) => NoneIn(q', X) /\ sig \notin X
      /\ \A X : Keeps(b, b', X) => Carried(q, sig, q', X)
  BY Delivery
<1>1. sig \notin Replugs BY Heads DEF Crash
<1>2. ~Plugged(sig, b, b') /\ ~Unplugged(sig, b, b')
  BY <1>0, <1>1, Kinds DEF Plugged, Unplugged
<1>3. ~Idled(sig, b, b') BY DEF Idled
<1>6. CASE JoinedLate(sig, b, b')
  <2>1. ~NoneIn(q, Gone) /\ LastIn(q, IfsOrOwners, Owners) /\ ifs = BeforeSim
    BY <1>6 DEF JoinedLate
  <2>2. sig \notin Gone /\ (sig \in Owners \/ sig \in Inits)
    BY <1>0, <1>6, Kinds DEF JoinedLate
  <2>3. Carried(q, sig, q', Gone) BY <1>0, KeepsKinds
  <2>4. ~NoneIn(q', Gone) BY <2>1, <2>2, <2>3 DEF Carried
  <2>5. ~NoneIn(q', Owners) BY <2>4, Parts, NoneOf
  <2>6. b.modem_ # None => b'.modem_ = b.modem_
    <3>1. b.modem_ # None => b.modem_ \in Modems BY Before DEF Bridge
    <3> QED BY <1>6, <3>1 DEF JoinedLate, Crash, SingleModem
  <2>7. Carried(q, sig, q', IfsOrOwners) BY <1>0, <2>6, KeepsKinds
  <2>8. LastIn(q', IfsOrOwners, Owners) BY <2>1, <2>7 DEF Carried
  <2> QED BY <2>1, <2>5, <2>8
<1>4. CASE b.modem_ = None /\ ~JoinedLate(sig, b, b')
  <2>1. Joined(sig, b, b') BY <1>2, <1>3, <1>4, OwnersLeft DEF Left
  <2>2. NoneIn(q', Ifs) BY <1>0, <1>4, Before
  <2>3. b'.interfaces_ = ifs BY <2>1, FacesLeft
  <2>4. ASSUME NR \in ifs PROVE ~Blank(b')
    <3>1. SM \in ifs /\ present BY <2>4, SimFirst
    <3>2. snapshot.sim = "present" BY <1>0, <3>1, Snapshot DEF Offers
    <3>3. b.interfaces_ = {} BY <1>4 DEF Beside, Bare, Crash
    <3>4. b'.has_sim_ = TRUE BY <2>1, <3>1, <3>2, <3>3 DEF Joined, Read
    <3> QED BY <3>4 DEF Blank
  <2> QED BY <2>2, <2>3, <2>4
<1>5. CASE b.modem_ # None /\ ~JoinedLate(sig, b, b')
  <2>1. b'.modem_ = b.modem_
    <3>1. Joined(sig, b, b') => b'.modem_ = b.modem_
      BY <1>0, <1>5, TheModem DEF Joined, Crash
    <3> QED BY <1>2, <1>3, <1>5, <3>1, OwnersLeft DEF Left
  <2>2. /\ Carried(q, sig, q', Ifs) /\ Carried(q, sig, q', IfsOrOwners)
        /\ Carried(q, sig, q', Owners)
    BY <1>0, <2>1, KeepsKinds
  <2>3. /\ sig \in Ifs => Listed(sig, b, b')
        /\ ~Listed(sig, b, b') => b'.interfaces_ = b.interfaces_ \/ b'.interfaces_ = ifs
        /\ sig \in Started => b'.interfaces_ = ifs
    <3>1. Joined(sig, b, b') => sig \notin Ifs
      BY <1>0, Kinds DEF Joined
    <3>2. Left(sig, b, b') => sig \notin Ifs /\ sig \notin Started
      BY <1>0, Kinds DEF Left
    <3>3. Switched(sig, b, b') \/ Carded(sig, b, b') \/ Networked(sig, b, b')
          \/ Contexted(sig, b, b') => sig \notin Ifs
      BY <1>0, Kinds DEF Switched, Carded, Networked, Contexted
    <3>4. sig \in Started => sig \in Owners BY <1>0, Kinds
    <3> QED BY <1>2, <1>3, <1>5, <3>1, <3>2, <3>3, <3>4, OwnersLeft, FacesLeft
  <2>4. Ifs \subseteq IfsOrOwners /\ Owners \subseteq IfsOrOwners /\ Are(ifs) \subseteq Ifs
    BY Parts
  <2>5. CASE ~NoneIn(q, Ifs) /\ LastIn(q, IfsOrOwners, Are(ifs))
    <3>1. /\ LastIn(q', IfsOrOwners, Are(ifs))
          /\ NoneIn(q', IfsOrOwners) /\ sig \in IfsOrOwners => sig \in Are(ifs)
      BY <2>2, <2>5 DEF Carried
    <3>2. CASE NoneIn(q', Ifs)
      <4>1. sig \in Ifs BY <2>2, <2>5, <3>2 DEF Carried
      <4>2. NoneIn(q', Are(ifs)) BY <2>4, <3>2, NoneOf
      <4>3. q' \in Seq(Message)
        <5>1. SystemInv' BY DeliverNext DEF Beside
        <5> QED BY <5>1 DEF SystemInv, Waiting
      <4>4. NoneIn(q', IfsOrOwners) BY <3>1, <4>2, <4>3, LastFound
      <4>5. sig \in Are(ifs) BY <2>4, <3>1, <4>1, <4>4
      <4>6. b'.interfaces_ = ifs
        <5>1. sig.val = ifs BY <1>0, <4>5, Faces
        <5> QED BY <2>3, <4>1, <5>1, FacesLeft
      <4>7. NoneIn(q', Owners) BY <2>4, <4>4, NoneOf
      <4> QED BY <3>2, <4>6, <4>7
    <3> QED BY <3>1, <3>2
  <2>6. CASE /\ NoneIn(q, Ifs) /\ b.interfaces_ = ifs
             /\ NoneIn(q, Owners) \/ ~Blank(b) \/ NR \notin ifs
    <3>1. NoneIn(q', Ifs) /\ sig \notin Ifs BY <1>0, <2>6
    <3>2. ~Listed(sig, b, b') BY <3>1 DEF Listed
    <3>3. b'.interfaces_ = ifs BY <2>3, <2>6, <3>2
    <3>4. NoneIn(q', Owners) \/ ~Blank(b') \/ NR \notin ifs
      BY <1>0, <1>2, <2>6, BlankLeft
    <3> QED BY <3>1, <3>3, <3>4
  <2>7. CASE /\ ~NoneIn(q, Owners) /\ LastIn(q, IfsOrOwners, Owners)
             /\ ifs = BeforeSim
    <3>1. LastIn(q', IfsOrOwners, Owners) BY <2>2, <2>7 DEF Carried
    <3>2. CASE NoneIn(q', Owners)
      <4>1. sig \in Owners BY <2>2, <2>7, <3>2 DEF Carried
      <4>2. q' \in Seq(Message)
        <5>1. SystemInv' BY DeliverNext DEF Beside
        <5> QED BY <5>1 DEF SystemInv, Waiting
      <4>3. NoneIn(q', IfsOrOwners) BY <3>1, <3>2, <4>2, LastFound
      <4>4. NoneIn(q', Ifs) BY <2>4, <4>3, NoneOf
      <4>5. sig \in Started
        <5>1. LastIn(q, Owners, Started) BY DEF Beside, OwnerTold
        <5> QED BY <2>2, <3>2, <4>1, <5>1 DEF Carried
      <4> QED BY <2>3, <3>2, <4>4, <4>5
    <3> QED BY <2>7, <3>1, <3>2
  <2> QED BY <1>5, <2>5, <2>6, <2>7 DEF Beside, Restored
<1> QED BY <1>4, <1>5, <1>6

\* What is handled when neither oFono nor its modem ever came or went.
LEMMA SteadyDelivery ==
  ASSUME Beside, Deliver, Steady
  PROVE  /\ NoneIn(q, Owners) /\ NoneIn(q, Replugs)
         /\ sig \in Inits => \/ b'.modem_ = None
                             \/ Joined(sig, b, b') /\ up /\ modem # None
         /\ sig \notin Inits =>
              /\ b'.modem_ = b.modem_
              /\ b.modem_ # None => b.modem_ = modem /\ up /\ modem # None
              /\ \/ Listed(sig, b, b') \/ Switched(sig, b, b') \/ Carded(sig, b, b')
                 \/ Networked(sig, b, b') \/ Contexted(sig, b, b')
              /\ Carried(q, sig, q', Ifs)
              /\ \A id : Carried(q, sig, q', With(id)) /\ Carried(q, sig, q', Lacks(id))
<1>0. /\ sig \in Message
      /\ \A X : NoneIn(q, X) => NoneIn(q', X) /\ sig \notin X
      /\ \A X : Keeps(b, b', X) => Carried(q, sig, q', X)
  BY Delivery
<1>1. NoneIn(q, Owners) /\ NoneIn(q, Replugs) BY DEF Beside, World, Steady
<1>2. sig \in Inits => b'.modem_ = None \/ (Joined(sig, b, b') /\ up /\ modem # None)
  <2>1. sig \in Inits => b.modem_ = None BY Heads
  <2> QED BY <2>1, ManagerLeft DEF Steady, Idled, Joined
<1>3. ASSUME sig \notin Inits
      PROVE  /\ b'.modem_ = b.modem_
             /\ b.modem_ # None => b.modem_ = modem /\ up /\ modem # None
             /\ \/ Listed(sig, b, b') \/ Switched(sig, b, b') \/ Carded(sig, b, b')
                \/ Networked(sig, b, b') \/ Contexted(sig, b, b')
             /\ Carried(q, sig, q', Ifs)
             /\ \A id : Carried(q, sig, q', With(id)) /\ Carried(q, sig, q', Lacks(id))
  <2>1. ~Plugged(sig, b, b') /\ ~Unplugged(sig, b, b')
    BY <1>0, <1>1, Kinds DEF Plugged, Unplugged
  <2>2. /\ b'.modem_ = b.modem_
        /\ \/ Listed(sig, b, b') \/ Switched(sig, b, b') \/ Carded(sig, b, b')
           \/ Networked(sig, b, b') \/ Contexted(sig, b, b')
    BY <1>3, <2>1, OwnersLeft, ManagerLeft DEF Steady
  <2>3. b.modem_ # None => b.modem_ = modem /\ up /\ modem # None
    BY <1>1 DEF Beside, ModemTold, Steady
  <2> QED BY <1>0, <2>2, <2>3, KeepsKinds
<1> QED BY <1>1, <1>2, <1>3

\* An interface that the bridge comes to know, and that no list of those that
\* wait lacks, is there.
LEMMA Gained ==
  ASSUME Beside, Deliver, Steady, Listed(sig, b, b'),
         NEW id, id \in sig.val, NoneIn(q', Lacks(id))
  PROVE  Offers(id)
<1>0. sig \in Message /\ sig \in Ifs /\ sig \notin Inits BY Delivery, Kinds DEF Listed
<1>1. b.modem_ # None BY BridgeAssumption DEF Listed
<1>2. up /\ modem # None /\ Carried(q, sig, q', Ifs) BY <1>0, <1>1, SteadyDelivery
<1>3. LastIn(q, Ifs, Are(ifs))
  BY <1>1, SteadyDelivery DEF Beside, InterfacesTold, Steady
<1>4. LastIn(q', Ifs, Are(ifs)) /\ (NoneIn(q', Ifs) => sig \in Are(ifs))
  BY <1>0, <1>2, <1>3 DEF Carried
<1>5. ASSUME id \notin ifs PROVE FALSE
  <2>1. Are(ifs) \subseteq Lacks(id) BY <1>5, Parts
  <2>2. NoneIn(q', Are(ifs)) BY <2>1, NoneOf
  <2>3. q' \in Seq(Message)
    <3>1. SystemInv' BY DeliverNext DEF Beside
    <3> QED BY <3>1 DEF SystemInv, Waiting
  <2>4. NoneIn(q', Ifs) BY <1>4, <2>2, <2>3, LastFound
  <2>5. sig.val = ifs BY <1>0, <1>4, <2>4, Faces
  <2> QED BY <1>5, <2>5
<1> QED BY <1>2, <1>5 DEF Offers

\* A network that is listed is set up with its status, if the SIM is known to be
\* there; when the bridge does not know it yet, a list without the network waits.
LEMMA NetworkKnownDeliver == Beside /\ Deliver => NetworkKnown'
<1> SUFFICES ASSUME Beside, Deliver, Steady, b'.modem_ # None, NR \in b'.interfaces_,
                    NoneIn(q', Lacks(NR))
             PROVE  /\ b'.network_ /\ b'.has_sim_
                    /\ NoneIn(q', Statuses) => b'.status_ = map_status(net)
  <2>1. Beside /\ Deliver => /\ net' = net /\ (restarted' <=> restarted)
                             /\ (replugged' <=> replugged)
    BY Delivery
  <2> QED BY <2>1 DEF NetworkKnown, Steady
<1>0. /\ sig \in Message /\ DaemonOK
      /\ \A X : NoneIn(q, X) => NoneIn(q', X) /\ sig \notin X
      /\ \A X : Keeps(b, b', X) => Carried(q, sig, q', X)
  BY Delivery
<1>1. CASE sig \in Inits
  <2>1. Joined(sig, b, b') /\ up /\ modem # None BY <1>1, SteadyDelivery
  <2>2. NR \in ifs /\ SM \in ifs /\ present BY <2>1, FacesLeft, SimFirst
  <2>3. snapshot.sim = "present" /\ snapshot.net = net /\ snapshot.net # "error"
    BY <1>0, <2>1, <2>2, Snapshot DEF Offers
  <2>4. b.interfaces_ = {} BY <1>1, Heads
  <2>5. b'.has_sim_ = TRUE BY <2>1, <2>2, <2>3, <2>4 DEF Joined, Read
  <2>6. b'.network_ /\ b'.status_ = map_status(snapshot.net)
    BY <2>1, <2>2, <2>3, <2>4, <2>5 DEF Joined, Read
  <2> QED BY <2>3, <2>5, <2>6
<1>2. CASE sig \notin Inits
  <2>1. /\ b'.modem_ = b.modem_ /\ b.modem_ = modem /\ up /\ modem # None
        /\ \/ Listed(sig, b, b') \/ Switched(sig, b, b') \/ Carded(sig, b, b')
           \/ Networked(sig, b, b') \/ Contexted(sig, b, b')
        /\ Carried(q, sig, q', Ifs)
        /\ \A id : Carried(q, sig, q', With(id)) /\ Carried(q, sig, q', Lacks(id))
    BY <1>2, SteadyDelivery
  <2>2. sig \notin Lacks(NR) => NoneIn(q, Lacks(NR)) BY <2>1 DEF Carried
  <2>3. /\ b.sim_ = None => SM \notin b.interfaces_
        /\ b.sim_ = "idle" /\ SM \in b.interfaces_ => ~NoneIn(q, Lacks(SM))
        /\ b.sim_ = "live" /\ SM \in b.interfaces_ /\ NoneIn(q, Presents) =>
             b.has_sim_ = present
    BY <2>1 DEF Beside, SimKnown
  <2>4. NR \in b.interfaces_ /\ NoneIn(q, Lacks(NR)) =>
          /\ b.network_ /\ b.has_sim_ /\ b.sim_ # None
          /\ NoneIn(q, Statuses) => b.status_ = map_status(net)
    BY <2>1, <2>3, SimFirst DEF Beside, NetworkKnown
  <2>5. ASSUME b'.network_, sig \notin Statuses, NoneIn(q', Statuses)
        PROVE  NoneIn(q, Statuses)
    <3>1. Carried(q, sig, q', Statuses) BY <1>0, <2>5, KeepsKinds
    <3> QED BY <2>5, <3>1 DEF Carried
  <2>6. CASE Listed(sig, b, b')
    <3>1. /\ sig \in Ifs /\ sig \notin Statuses /\ b'.interfaces_ = sig.val
      BY <1>0, <2>6, Kinds, FacesLeft DEF Listed
    <3>2. SM \in sig.val /\ sig \notin Lacks(NR)
      <4>1. Whole(sig.val) BY <1>0, <3>1, Heads, Faces
      <4> QED BY <1>0, <3>1, <4>1, SimFirst, Faces
    <3>3. CASE NR \in b.interfaces_
      <4>1. SameRadio(b, b') BY <2>6, <3>1, <3>2, <3>3, SimFirst DEF Listed, Read
      <4>2. /\ b.network_ /\ b.has_sim_
            /\ NoneIn(q, Statuses) => b.status_ = map_status(net)
        BY <2>2, <2>4, <3>2, <3>3
      <4>3. b'.network_ = b.network_ /\ b'.has_sim_ = b.has_sim_ /\ b'.status_ = b.status_
        BY <4>1 DEF SameRadio
      <4> QED BY <2>5, <3>1, <4>2, <4>3
    <3>4. CASE NR \notin b.interfaces_
      <4>1. Offers(NR) BY <2>6, <3>1, Gained
      <4>2. NR \in ifs /\ SM \in ifs /\ present BY <4>1, SimFirst DEF Offers
      <4>3. snapshot.sim = "present" /\ snapshot.net = net /\ snapshot.net # "error"
        BY <1>0, <2>1, <4>2, Snapshot DEF Offers
      <4>4. (SM \in b.interfaces_ => b.sim_ # None) /\ b'.has_sim_
        <5>1. CASE SM \notin b.interfaces_
          <6>1. b'.has_sim_ = TRUE
            BY <2>6, <3>1, <3>2, <4>3, <5>1 DEF Listed, Read
          <6> QED BY <5>1, <6>1
        <5>2. CASE SM \in b.interfaces_
          <6>1. b.sim_ # None BY <2>3, <5>2
          <6>2. b.sim_ # "idle"
            <7>1. ASSUME NEW e \in Message, e \notin Broken, e \notin Lacks(NR)
                  PROVE  e \notin Lacks(SM)
              BY <7>1, Faces, SimFirst
            <7>2. \A i \in 1..Len(q) : q[i] \in Message BY <1>0, Before DEF Waiting
            <7>3. NoneIn(q, Broken) /\ NoneIn(q, Lacks(NR))
              BY <2>2, <3>2 DEF Beside, Shape
            <7>4. NoneIn(q, Lacks(SM)) BY <7>1, <7>2, <7>3 DEF NoneIn
            <7> QED BY <2>3, <5>2, <7>4
          <6>3. b.sim_ = "live" BY <6>1, <6>2, Before DEF Bridge, ProxyState
          <6>4. b'.sim_ = b.sim_ /\ b'.has_sim_ = b.has_sim_
            BY <2>6, <3>2, <5>2, <6>1 DEF Listed, Read
          <6>5. NoneIn(q, Presents)
            <7>1. FollowedBy(q, With(NR), Presents, Lacks(NR))
              BY DEF Beside, SimTakesNetwork
            <7>2. sig \in With(NR) BY <1>0, <3>1, Faces
            <7>3. NoneIn(q', Presents) BY <2>1, <7>1, <7>2 DEF Carried
            <7>4. Carried(q, sig, q', Presents) BY <1>0, <6>4, KeepsKinds
            <7>5. sig \notin Presents BY <1>0, <3>1, Kinds
            <7> QED BY <7>3, <7>4, <7>5 DEF Carried
          <6>6. b.has_sim_ = present BY <2>3, <5>2, <6>3, <6>5
          <6> QED BY <4>2, <6>1, <6>4, <6>6
        <5> QED BY <5>1, <5>2
      <4>5. b'.network_ /\ b'.status_ = map_status(snapshot.net)
        BY <2>6, <3>1, <3>2, <3>4, <4>3, <4>4 DEF Listed, Read
      <4> QED BY <4>3, <4>4, <4>5
    <3> QED BY <3>3, <3>4
  <2>7. CASE ~Listed(sig, b, b')
    <3>1. sig \notin Ifs /\ b'.interfaces_ = b.interfaces_
      <4>1. Switched(sig, b, b') \/ Carded(sig, b, b') \/ Networked(sig, b, b')
            \/ Contexted(sig, b, b') => sig \notin Ifs
        BY <1>0, Kinds DEF Switched, Carded, Networked, Contexted
      <4>2. ~Joined(sig, b, b') /\ ~Plugged(sig, b, b')
        <5>1. sig \notin Owners /\ sig \notin Replugs BY <1>0, SteadyDelivery
        <5> QED BY <1>0, <1>2, <5>1, Kinds DEF Joined, Plugged
      <4> QED BY <1>2, <2>1, <2>7, <4>1, <4>2, FacesLeft DEF Steady
    <3>2. NoneIn(q, Lacks(NR)) BY <1>0, <2>2, <3>1, Faces
    <3>3. /\ b.network_ /\ b.has_sim_ /\ b.sim_ # None /\ SM \in b.interfaces_
          /\ NoneIn(q, Statuses) => b.status_ = map_status(net)
      BY <2>4, <3>1, <3>2, SimFirst
    <3>4. CASE Switched(sig, b, b')
      <4>1. b' = b BY <3>3, <3>4 DEF Switched
      <4>2. sig \notin Statuses BY <1>0, <3>4, Kinds DEF Switched
      <4> QED BY <2>5, <3>3, <4>1, <4>2
    <3>5. CASE Carded(sig, b, b')
      <4>1. ~NoneIn(q, Presents) BY <1>0, <3>5 DEF Carded
      <4> QED BY <3>1, <3>2, <4>1 DEF Beside, SimTakesNetwork
    <3>6. CASE Networked(sig, b, b')
      <4>1. /\ sig \in Statuses /\ b'.has_sim_ /\ b'.network_
            /\ b'.status_ = map_status(sig.val)
        BY <3>3, <3>6 DEF Networked
      <4>2. LastIn(q, Statuses, StatusIs(net)) BY DEF Beside, ContextsKnown
      <4>3. Carried(q, sig, q', Statuses) BY <1>0, <4>1, KeepsKinds
      <4>4. NoneIn(q', Statuses) => sig.val = net BY <1>0, <4>1, <4>2, <4>3, Kinds DEF Carried
      <4> QED BY <4>1, <4>4
    <3>7. CASE Contexted(sig, b, b')
      <4>1. b'.network_ = b.network_ /\ b'.has_sim_ = b.has_sim_ /\ b'.status_ = b.status_
        BY <3>7 DEF Contexted, SameRadio
      <4>2. sig \notin Statuses BY <1>0, <3>7, Kinds DEF Contexted
      <4> QED BY <2>5, <3>3, <4>1, <4>2
    <3> QED BY <2>1, <2>7, <3>4, <3>5, <3>6, <3>7
  <2> QED BY <2>6, <2>7
<1> QED BY <1>1, <1>2

\* The last that waits of the SIM tells how it is.
LEMMA CardsLeft ==
  ASSUME Beside, Deliver, LastIn(q, Presents, PresentIs(present))
  PROVE  LastIn(q', Presents, PresentIs(present))
<1>1. CASE b.sim_ # "live"
  <2>1. NoneIn(q', Presents) BY <1>1, Before, Delivery
  <2> QED BY <2>1, QueueNone
<1>2. CASE b'.sim_ # "live"
  <2>1. NoneIn(q', Presents) BY <1>2, After
  <2> QED BY <2>1, QueueNone
<1>3. CASE b'.sim_ = "live"
  <2>1. Carried(q, sig, q', Presents) BY <1>3, Delivery, KeepsKinds
  <2> QED BY <2>1 DEF Carried
<1> QED BY <1>1, <1>2, <1>3

\* A SIM that is listed is set up as it is, or a list without it waits.
LEMMA SimKnownDeliver == Beside /\ Deliver => SimKnown'
<1> SUFFICES ASSUME Beside, Deliver, Steady, b'.modem_ # None
             PROVE  /\ b'.sim_ = None => SM \notin b'.interfaces_
                    /\ b'.sim_ = "idle" /\ SM \in b'.interfaces_ => ~NoneIn(q', Lacks(SM))
                    /\ LastIn(q', Presents, PresentIs(present))
                    /\ b'.sim_ = "live" /\ SM \in b'.interfaces_ /\ NoneIn(q', Presents) =>
                         b'.has_sim_ = present
  <2>1. Beside /\ Deliver => /\ present' = present /\ (restarted' <=> restarted)
                             /\ (replugged' <=> replugged)
    BY Delivery
  <2> QED BY <2>1 DEF SimKnown, Steady
<1>0. /\ sig \in Message /\ DaemonOK
      /\ \A X : NoneIn(q, X) => NoneIn(q', X) /\ sig \notin X
      /\ \A X : Keeps(b, b', X) => Carried(q, sig, q', X)
  BY Delivery
<1>1. /\ None # "idle" /\ None # "live" BY DEF None
<1>2. /\ snapshot.sim # "error" => Offers(SM)
      /\ snapshot.sim = "present" <=> Offers(SM) /\ present
  BY <1>0, Snapshot
<1>3. CASE sig \in Inits
  <2>1. Joined(sig, b, b') /\ up /\ modem # None BY <1>3, SteadyDelivery
  <2>2. b.interfaces_ = {} /\ b.sim_ = None BY <1>3, Heads
  <2>3. LastIn(q', Presents, PresentIs(present))
    <3>1. NoneIn(q', Presents) BY <1>0, <1>1, <2>2, Before
    <3> QED BY <3>1, QueueNone
  <2>4. SM \in ifs => b'.sim_ = "live" /\ b'.has_sim_ = present
    <3>1. SM \in ifs => snapshot.sim # "error" /\ (present <=> snapshot.sim = "present")
      BY <1>0, <2>1, Snapshot DEF Offers
    <3> QED BY <1>0, <2>1, <2>2, <3>1 DEF Joined, Read, DaemonOK
  <2> QED BY <1>1, <2>1, <2>3, <2>4, FacesLeft
<1>4. CASE sig \notin Inits
  <2>1. /\ b'.modem_ = b.modem_ /\ b.modem_ = modem /\ up /\ modem # None
        /\ \/ Listed(sig, b, b') \/ Switched(sig, b, b') \/ Carded(sig, b, b')
           \/ Networked(sig, b, b') \/ Contexted(sig, b, b')
        /\ Carried(q, sig, q', Lacks(SM))
    BY <1>4, SteadyDelivery
  <2>2. /\ b.sim_ = None => SM \notin b.interfaces_
        /\ b.sim_ = "idle" /\ SM \in b.interfaces_ => ~NoneIn(q, Lacks(SM))
        /\ LastIn(q, Presents, PresentIs(present))
        /\ b.sim_ = "live" /\ SM \in b.interfaces_ /\ NoneIn(q, Presents) =>
             b.has_sim_ = present
    BY <2>1 DEF Beside, SimKnown
  <2>3. LastIn(q', Presents, PresentIs(present)) BY <2>2, CardsLeft
  <2>4. NoneIn(q', Lacks(SM)) /\ sig \notin Lacks(SM) => NoneIn(q, Lacks(SM))
    BY <2>1 DEF Carried
  <2>5. ASSUME b'.sim_ = "live", sig \notin Presents, NoneIn(q', Presents)
        PROVE  NoneIn(q, Presents)
    <3>1. Carried(q, sig, q', Presents) BY <1>0, <2>5, KeepsKinds
    <3> QED BY <2>5, <3>1 DEF Carried
  <2>6. CASE Listed(sig, b, b')
    <3>1. /\ sig \in Ifs /\ sig \notin Presents /\ b'.interfaces_ = sig.val
      BY <1>0, <2>6, Kinds, FacesLeft DEF Listed
    <3>2. CASE SM \notin sig.val BY <2>3, <3>1, <3>2
    <3>3. CASE SM \in sig.val /\ SM \in b.interfaces_
      <4>1. b'.sim_ = b.sim_ /\ b'.has_sim_ = b.has_sim_ /\ b.sim_ # None
        BY <2>2, <2>6, <3>3 DEF Listed, Read
      <4>2. sig \notin Lacks(SM) BY <1>0, <3>3, Faces
      <4> QED BY <2>2, <2>3, <2>4, <2>5, <3>1, <3>3, <4>1, <4>2
    <3>4. CASE SM \in sig.val /\ SM \notin b.interfaces_
      <4>1. CASE snapshot.sim = "error"
        <5>1. b'.sim_ = "idle" BY <2>6, <3>4, <4>1 DEF Listed, Read
        <5>2. ~NoneIn(q', Lacks(SM))
          <6>1. ~Offers(SM) BY <1>0, <4>1, Snapshot
          <6> QED BY <2>6, <3>4, <6>1, Gained
        <5> QED BY <1>1, <2>3, <5>1, <5>2
      <4>2. CASE snapshot.sim # "error"
        <5>1. b'.sim_ = "live" /\ b'.has_sim_ = (snapshot.sim = "present")
          BY <2>6, <3>4, <4>2 DEF Listed, Read
        <5>2. b'.has_sim_ = present BY <1>0, <1>2, <4>2, <5>1 DEF DaemonOK
        <5> QED BY <1>1, <2>3, <5>1, <5>2
      <4> QED BY <4>1, <4>2
    <3> QED BY <3>2, <3>3, <3>4
  <2>7. CASE Switched(sig, b, b')
    <3>1. sig \notin Presents /\ sig \notin Ifs BY <1>0, <2>7, Kinds DEF Switched
    <3>2. sig \notin Lacks(SM) BY <1>0, <3>1, Faces
    <3>3. CASE b' = b BY <2>2, <2>3, <2>4, <2>5, <3>1, <3>2, <3>3
    <3>4. CASE b.sim_ = None /\ Framed(b, b')
      <4>1. SM \notin b'.interfaces_ BY <2>2, <3>4 DEF Framed
      <4> QED BY <2>3, <4>1
    <3> QED BY <2>7, <3>3, <3>4 DEF Switched
  <2>8. CASE Carded(sig, b, b')
    <3>1. /\ sig \in Presents /\ b'.sim_ = "live" /\ b'.has_sim_ = sig.val
      BY <2>8 DEF Carded, PresentSet
    <3>2. Carried(q, sig, q', Presents) BY <1>0, <3>1, KeepsKinds
    <3>3. NoneIn(q', Presents) => sig.val = present
      BY <1>0, <2>2, <3>1, <3>2, Kinds DEF Carried
    <3> QED BY <1>1, <2>3, <3>1, <3>3
  <2>9. CASE Networked(sig, b, b')
    <3>1. sig \notin Presents /\ sig \notin Ifs BY <1>0, <2>9, Kinds DEF Networked
    <3>2. sig \notin Lacks(SM) /\ b'.interfaces_ = b.interfaces_
      BY <1>0, <2>9, <3>1, Faces DEF Networked, Framed
    <3>3. CASE b.sim_ = None BY <2>2, <2>3, <3>2, <3>3
    <3>4. CASE b.sim_ # None
      <4>1. b'.sim_ = b.sim_ /\ (b'.has_sim_ <=> b.has_sim_)
        BY <2>9, <3>4 DEF Networked
      <4>2. b'.has_sim_ = b.has_sim_ BY <4>1, Before, After DEF Bridge
      <4> QED BY <2>2, <2>3, <2>4, <2>5, <3>1, <3>2, <3>4, <4>1, <4>2
    <3> QED BY <3>3, <3>4
  <2>10. CASE Contexted(sig, b, b')
    <3>1. sig \notin Presents /\ sig \notin Ifs BY <1>0, <2>10, Kinds DEF Contexted
    <3>2. /\ sig \notin Lacks(SM) /\ b'.interfaces_ = b.interfaces_
          /\ b'.sim_ = b.sim_ /\ b'.has_sim_ = b.has_sim_
      BY <1>0, <2>10, <3>1, Faces DEF Contexted, SameModem, SameRadio
    <3> QED BY <2>2, <2>3, <2>4, <2>5, <3>1, <3>2
  <2> QED BY <2>1, <2>6, <2>7, <2>8, <2>9, <2>10
<1> QED BY <1>3, <1>4

\* A list with the network that is handled while a SIM comes or goes is
\* followed by one without it.
LEMMA SimTakesNetworkDeliver == Beside /\ Deliver => SimTakesNetwork'
<1> SUFFICES ASSUME Beside, Deliver, Steady
             PROVE  /\ NR \in b'.interfaces_ /\ ~NoneIn(q', Presents) => ~NoneIn(q', Lacks(NR))
                    /\ FollowedBy(q', With(NR), Presents, Lacks(NR))
  <2>1. Beside /\ Deliver => (restarted' <=> restarted) /\ (replugged' <=> replugged)
    BY Delivery
  <2> QED BY <2>1 DEF SimTakesNetwork, Steady
<1>0. /\ sig \in Message
      /\ \A X : NoneIn(q, X) => NoneIn(q', X) /\ sig \notin X
  BY Delivery
<1>1. CASE sig \in Inits
  <2>1. NoneIn(q, Presents)
    <3>1. b.sim_ # "live" BY <1>1, Heads DEF None
    <3> QED BY <3>1, Before
  <2>2. NoneIn(q', Presents) BY <1>0, <2>1
  <2> QED BY <2>2, FollowedNone
<1>2. CASE sig \notin Inits
  <2>1. /\ \/ Listed(sig, b, b') \/ Switched(sig, b, b') \/ Carded(sig, b, b')
           \/ Networked(sig, b, b') \/ Contexted(sig, b, b')
        /\ Carried(q, sig, q', Lacks(NR))
        /\ NoneIn(q, Owners) /\ NoneIn(q, Replugs)
    BY <1>2, SteadyDelivery
  <2>2. /\ NR \in b.interfaces_ /\ ~NoneIn(q, Presents) => ~NoneIn(q, Lacks(NR))
        /\ FollowedBy(q, With(NR), Presents, Lacks(NR))
    BY DEF Beside, SimTakesNetwork
  <2>3. /\ FollowedBy(q', With(NR), Presents, Lacks(NR))
        /\ sig \in With(NR) /\ ~NoneIn(q', Presents) => ~NoneIn(q', Lacks(NR))
        /\ NoneIn(q', Lacks(NR)) /\ sig \notin Lacks(NR) => NoneIn(q, Lacks(NR))
    BY <2>1, <2>2 DEF Carried
  <2>4. CASE Listed(sig, b, b')
    <3>1. sig \in Ifs /\ b'.interfaces_ = sig.val
      BY <2>4, FacesLeft DEF Listed
    <3>2. NR \in b'.interfaces_ => sig \in With(NR) BY <1>0, <3>1, Faces
    <3> QED BY <2>3, <3>2
  <2>5. CASE ~Listed(sig, b, b')
    <3>1. sig \notin Ifs
      BY <1>0, <2>1, <2>5, Kinds DEF Switched, Carded, Networked, Contexted
    <3>2. sig \notin Owners /\ sig \notin Replugs BY <1>0, <2>1
    <3>3. ~Joined(sig, b, b') /\ ~Plugged(sig, b, b')
      BY <1>0, <1>2, <3>2, Kinds DEF Joined, Plugged
    <3>4. b'.interfaces_ = b.interfaces_ BY <2>5, <3>3, FacesLeft DEF Steady
    <3>5. sig \notin Lacks(NR) BY <1>0, <3>1, Faces
    <3> QED BY <1>0, <2>2, <2>3, <3>4, <3>5
  <2> QED BY <2>4, <2>5
<1> QED BY <1>1, <1>2

\* What every handler leaves of a context.
LEMMA ContextLeft ==
  ASSUME Beside, Deliver, NEW c \in Contexts
  PROVE  \/ b'.connectionContexts_[c] \in {b.connectionContexts_[c], snapshot.ctx[c], "absent"}
         \/ sig \in CtxOf(c) /\ b'.connectionContexts_[c] = sig.val
<1>0. sig \in Message BY Delivery
<1>1. Idled(sig, b, b') \/ Left(sig, b, b') =>
        b'.connectionContexts_ = b.connectionContexts_
  BY DEF Idled, Left, SameObjects
<1>2. Joined(sig, b, b') \/ JoinedLate(sig, b, b') \/ Plugged(sig, b, b')
      \/ Listed(sig, b, b') =>
        b'.connectionContexts_[c] \in {b.connectionContexts_[c], snapshot.ctx[c], "absent"}
  BY DEF Joined, JoinedLate, Plugged, Listed, Read
<1>3. ASSUME Unplugged(sig, b, b')
      PROVE  b'.connectionContexts_[c] \in {b.connectionContexts_[c], "absent"}
  <2>1. CASE b' = b BY <2>1
  <2>2. CASE ~b'.connectionManager_
    <3>1. b'.connectionContexts_ = NoContexts BY <2>2, After
    <3> QED BY <3>1 DEF NoContexts
  <2> QED BY <1>3, <2>1, <2>2 DEF Unplugged
<1>4. Switched(sig, b, b') \/ Carded(sig, b, b') \/ Networked(sig, b, b') =>
        b'.connectionContexts_ = b.connectionContexts_
  BY DEF Switched, Carded, PresentSet, Networked, Framed
<1>5. ASSUME Contexted(sig, b, b')
      PROVE  \/ b'.connectionContexts_[c] = b.connectionContexts_[c]
             \/ sig \in CtxOf(c) /\ b'.connectionContexts_[c] = sig.val
  <2>1. b.connectionContexts_ \in [Contexts -> ContextKind] BY Before DEF Bridge
  <2>2. /\ sig.path \in Contexts /\ sig \in CtxOf(sig.path)
        /\ b'.connectionContexts_ = [b.connectionContexts_ EXCEPT ![sig.path] = sig.val]
    BY <1>5 DEF Contexted
  <2>3. CASE sig.path = c BY <2>1, <2>2, <2>3
  <2>4. CASE sig.path # c BY <2>1, <2>2, <2>4
  <2> QED BY <2>3, <2>4
<1> QED BY <1>1, <1>2, <1>3, <1>4, <1>5, Delivery DEF Handled

\* A context is known as it is, or not at all, once its last signal is handled.
LEMMA ContextHeard ==
  ASSUME Beside, Deliver, NEW c \in Contexts
  PROVE  /\ LastIn(q', CtxOf(c), CtxIs(c, ctx[c]))
         /\ NoneIn(q', CtxOf(c)) => b'.connectionContexts_[c] \in {"absent", ctx[c]}
         /\ b'.connectionManager_ => Carried(q, sig, q', CtxOf(c))
         /\ NoneIn(q', CtxOf(c)) /\ sig \in CtxOf(c) /\ b'.connectionManager_ =>
              sig.val = ctx[c]
<1>0. /\ sig \in Message /\ DaemonOK
      /\ \A X : Keeps(b, b', X) => Carried(q, sig, q', X)
  BY Delivery
<1>1. /\ LastIn(q, CtxOf(c), CtxIs(c, ctx[c]))
      /\ NoneIn(q, CtxOf(c)) => b.connectionContexts_[c] \in {"absent", ctx[c]}
  BY DEF Beside, ContextsKnown
<1>2. CASE ~b'.connectionManager_
  <2>1. NoneIn(q', CtxOf(c)) /\ b'.connectionContexts_ = NoContexts BY <1>2, After
  <2>2. b'.connectionContexts_[c] = "absent" BY <2>1 DEF NoContexts
  <2> QED BY <1>2, <2>1, <2>2, QueueNone
<1>3. CASE b'.connectionManager_
  <2>1. Carried(q, sig, q', CtxOf(c)) BY <1>0, <1>3, KeepsKinds
  <2>2. /\ LastIn(q', CtxOf(c), CtxIs(c, ctx[c]))
        /\ NoneIn(q', CtxOf(c)) /\ sig \in CtxOf(c) => sig \in CtxIs(c, ctx[c])
        /\ NoneIn(q', CtxOf(c)) /\ sig \notin CtxOf(c) => NoneIn(q, CtxOf(c))
    BY <1>1, <2>1 DEF Carried
  <2>3. NoneIn(q', CtxOf(c)) /\ sig \in CtxOf(c) => sig.val = ctx[c]
    BY <1>0, <2>2, Kinds
  <2>4. snapshot.ctx[c] \in {"absent", ctx[c]} BY <1>0, Snapshot
  <2>5. ASSUME NoneIn(q', CtxOf(c))
        PROVE  b'.connectionContexts_[c] \in {"absent", ctx[c]}
    <3>1. CASE sig \in CtxOf(c) /\ b'.connectionContexts_[c] = sig.val
      BY <2>3, <2>5, <3>1
    <3>2. CASE ~(sig \in CtxOf(c) /\ b'.connectionContexts_[c] = sig.val)
      <4>1. b'.connectionContexts_[c]
              \in {b.connectionContexts_[c], snapshot.ctx[c], "absent"}
        BY <3>2, ContextLeft
      <4>2. CASE sig \notin CtxOf(c) BY <1>1, <2>2, <2>4, <2>5, <4>1, <4>2
      <4>3. CASE sig \in CtxOf(c)
        <5>1. Contexted(sig, b, b')
          <6>1. sig.on = "Context" /\ sig.path = c BY <1>0, <4>3, Kinds
          <6>2. /\ sig \notin Joins /\ sig \notin Gone /\ sig \notin Added
                /\ sig \notin Removals /\ sig \notin Ifs /\ sig \notin Powereds
                /\ sig \notin Presents /\ sig \notin Statuses
            BY <1>0, <6>1, Kinds
          <6> QED BY <6>2, Delivery DEF Handled, Idled, Joined, JoinedLate, Left, Plugged,
                     Unplugged, Listed, Switched, Carded, Networked
        <5>2. sig.path = c BY <1>0, <4>3, Kinds
        <5>3. b.connectionContexts_ \in [Contexts -> ContextKind] BY Before DEF Bridge
        <5>4. b'.connectionContexts_[c] = sig.val BY <5>1, <5>2, <5>3 DEF Contexted
        <5> QED BY <3>2, <4>3, <5>4
      <4> QED BY <4>2, <4>3
    <3> QED BY <3>1, <3>2
  <2> QED BY <2>1, <2>2, <2>3, <2>5
<1> QED BY <1>2, <1>3

\* The contexts stay known when a signal is handled.
LEMMA ContextsKnownDeliver == Beside /\ Deliver => ContextsKnown'
<1> SUFFICES ASSUME Beside, Deliver
             PROVE  /\ LastIn(q', Statuses, StatusIs(net))
                    /\ Steady /\ b'.modem_ # None /\ CM \in b'.interfaces_
                         /\ NoneIn(q', Lacks(CM)) =>
                         /\ b'.connectionManager_
                         /\ \A c \in Contexts : NoneIn(q', CtxOf(c)) =>
                              b'.connectionContexts_[c] = ctx[c]
  <2>1. Beside /\ Deliver => /\ net' = net /\ ctx' = ctx
                             /\ (restarted' <=> restarted) /\ (replugged' <=> replugged)
    BY Delivery
  <2> QED BY <2>1, ContextHeard DEF ContextsKnown, Steady
<1>0. /\ sig \in Message /\ DaemonOK
      /\ \A X : NoneIn(q, X) => NoneIn(q', X) /\ sig \notin X
      /\ \A X : Keeps(b, b', X) => Carried(q, sig, q', X)
  BY Delivery
<1>1. LastIn(q', Statuses, StatusIs(net))
  <2>1. CASE ~b.network_
    <3>1. NoneIn(q', Statuses) BY <1>0, <2>1, Before
    <3> QED BY <3>1, QueueNone
  <2>2. CASE ~b'.network_
    <3>1. NoneIn(q', Statuses) BY <2>2, After
    <3> QED BY <3>1, QueueNone
  <2>3. CASE b'.network_
    <3>1. Carried(q, sig, q', Statuses) BY <1>0, <2>3, KeepsKinds
    <3>2. LastIn(q, Statuses, StatusIs(net)) BY DEF Beside, ContextsKnown
    <3> QED BY <3>1, <3>2 DEF Carried
  <2> QED BY <2>2, <2>3
<1>2. ASSUME Steady, b'.modem_ # None, CM \in b'.interfaces_, NoneIn(q', Lacks(CM))
      PROVE  /\ b'.connectionManager_
             /\ \A c \in Contexts : NoneIn(q', CtxOf(c)) =>
                  b'.connectionContexts_[c] = ctx[c]
  <2>1. \A c \in Contexts :
          /\ NoneIn(q', CtxOf(c)) => b'.connectionContexts_[c] \in {"absent", ctx[c]}
          /\ b'.connectionManager_ => Carried(q, sig, q', CtxOf(c))
          /\ NoneIn(q', CtxOf(c)) /\ sig \in CtxOf(c) /\ b'.connectionManager_ =>
               sig.val = ctx[c]
    BY ContextHeard
  <2>2. \A c \in Contexts : NoneIn(q, CtxOf(c)) =>
          b.connectionContexts_[c] \in {"absent", ctx[c]}
    BY DEF Beside, ContextsKnown
  <2>3. Steady /\ b.modem_ # None /\ CM \in b.interfaces_ /\ NoneIn(q, Lacks(CM)) =>
          /\ b.connectionManager_
          /\ \A c \in Contexts : NoneIn(q, CtxOf(c)) => b.connectionContexts_[c] = ctx[c]
    BY DEF Beside, ContextsKnown
  <2>4. CASE sig \in Inits
    <3>1. Joined(sig, b, b') /\ up /\ modem # None BY <1>2, <2>4, SteadyDelivery
    <3>2. CM \in ifs /\ SM \in ifs BY <1>2, <3>1, FacesLeft, SimFirst
    <3>3. snapshot.cm = "all" /\ snapshot.ctx = ctx
      BY <1>0, <3>1, <3>2, Snapshot DEF Offers
    <3>4. b.interfaces_ = {} /\ b.connectionContexts_ = NoContexts BY <2>4, Heads
    <3>5. ContextsRead(b, ifs, snapshot, b') BY <3>1, <3>2 DEF Joined, Read
    <3>6. CM \in ifs \ b.interfaces_ BY <3>2, <3>4
    <3>7. /\ b'.connectionManager_
          /\ \A c \in Contexts : b'.connectionContexts_[c] =
               IF ctx[c] = "absent" THEN b.connectionContexts_[c] ELSE ctx[c]
      BY <3>3, <3>5, <3>6 DEF ContextsRead, CM
    <3>8. \A c \in Contexts : b.connectionContexts_[c] = "absent" BY <3>4 DEF NoContexts
    <3> QED BY <3>7, <3>8
  <2>5. CASE sig \notin Inits
    <3>1. /\ b'.modem_ = b.modem_ /\ up /\ modem # None
          /\ \/ Listed(sig, b, b') \/ Switched(sig, b, b') \/ Carded(sig, b, b')
             \/ Networked(sig, b, b') \/ Contexted(sig, b, b')
          /\ Carried(q, sig, q', Lacks(CM))
          /\ NoneIn(q, Owners) /\ NoneIn(q, Replugs)
      BY <1>2, <2>5, SteadyDelivery
    <3>2. sig \notin Lacks(CM) => NoneIn(q, Lacks(CM)) BY <1>2, <3>1 DEF Carried
    <3>3. ASSUME b'.connectionManager_, NEW c \in Contexts, NoneIn(q', CtxOf(c)),
                 sig \notin CtxOf(c)
          PROVE  NoneIn(q, CtxOf(c))
      BY <2>1, <3>3 DEF Carried
    <3>4. CASE Listed(sig, b, b')
      <4>1. /\ sig \in Ifs /\ b'.interfaces_ = sig.val
            /\ \A c : sig \notin CtxOf(c)
        BY <1>0, <3>4, Kinds, FacesLeft DEF Listed
      <4>2. SM \in sig.val /\ sig \notin Lacks(CM)
        <5>1. Whole(sig.val) BY <1>0, <4>1, Heads, Faces
        <5> QED BY <1>0, <1>2, <4>1, <5>1, SimFirst, Faces
      <4>3. ContextsRead(b, sig.val, snapshot, b')
        BY <3>4, <4>2 DEF Listed, Read
      <4>4. CASE CM \in b.interfaces_
        <5>1. /\ b.connectionManager_
              /\ \A c \in Contexts :
                   NoneIn(q, CtxOf(c)) => b.connectionContexts_[c] = ctx[c]
          BY <1>2, <2>3, <3>1, <3>2, <4>2, <4>4
        <5>2. /\ b'.connectionManager_ = b.connectionManager_
              /\ b'.connectionContexts_ = b.connectionContexts_
          BY <1>2, <4>1, <4>3, <4>4 DEF ContextsRead, CM
        <5> QED BY <3>3, <4>1, <5>1, <5>2
      <4>5. CASE CM \notin b.interfaces_
        <5>1. Offers(CM) BY <1>2, <3>4, <4>1, Gained
        <5>2. snapshot.cm = "all" /\ snapshot.ctx = ctx BY <1>0, <5>1, Snapshot
        <5>3. CM \in sig.val \ b.interfaces_ BY <1>2, <4>1, <4>5
        <5>4. /\ b'.connectionManager_
              /\ \A c \in Contexts : b'.connectionContexts_[c] =
                   IF ctx[c] = "absent" THEN b.connectionContexts_[c] ELSE ctx[c]
          BY <4>3, <5>2, <5>3 DEF ContextsRead, CM
        <5>5. ASSUME NEW c \in Contexts, NoneIn(q', CtxOf(c))
              PROVE  b'.connectionContexts_[c] = ctx[c]
          <6>1. b.connectionContexts_[c] \in {"absent", ctx[c]}
            BY <2>2, <3>3, <4>1, <5>4, <5>5
          <6> QED BY <5>4, <6>1
        <5> QED BY <5>4, <5>5
      <4> QED BY <4>4, <4>5
    <3>5. CASE ~Listed(sig, b, b')
      <4>1. sig \notin Ifs
        BY <1>0, <3>1, <3>5, Kinds DEF Switched, Carded, Networked, Contexted
      <4>2. sig \notin Owners /\ sig \notin Replugs BY <1>0, <3>1
      <4>3. ~Joined(sig, b, b') /\ ~Plugged(sig, b, b')
        BY <1>0, <2>5, <4>2, Kinds DEF Joined, Plugged
      <4>4. b'.interfaces_ = b.interfaces_ BY <1>2, <3>5, <4>3, FacesLeft DEF Steady
      <4>5. sig \notin Lacks(CM) BY <1>0, <4>1, Faces
      <4>6. /\ b.connectionManager_
            /\ \A c \in Contexts :
                 NoneIn(q, CtxOf(c)) => b.connectionContexts_[c] = ctx[c]
        BY <1>2, <2>3, <3>1, <3>2, <4>4, <4>5
      <4>7. CASE Switched(sig, b, b') \/ Carded(sig, b, b') \/ Networked(sig, b, b')
        <5>1. /\ b'.connectionManager_ = b.connectionManager_
              /\ b'.connectionContexts_ = b.connectionContexts_
          BY <4>7 DEF Switched, Carded, PresentSet, Networked, Framed
        <5>2. \A c : sig \notin CtxOf(c)
          BY <1>0, <4>7, Kinds DEF Switched, Carded, Networked
        <5> QED BY <3>3, <4>6, <5>1, <5>2
      <4>8. CASE Contexted(sig, b, b')
        <5>1. /\ b'.connectionManager_ /\ sig.path \in Contexts /\ sig \in CtxOf(sig.path)
              /\ b'.connectionContexts_ = [b.connectionContexts_ EXCEPT ![sig.path] = sig.val]
          BY <4>8 DEF Contexted
        <5>2. b.connectionContexts_ \in [Contexts -> ContextKind] BY Before DEF Bridge
        <5>3. ASSUME NEW c \in Contexts, NoneIn(q', CtxOf(c))
              PROVE  b'.connectionContexts_[c] = ctx[c]
          <6>1. CASE sig.path = c BY <2>1, <5>1, <5>2, <5>3, <6>1
          <6>2. CASE sig.path # c
            <7>1. sig \notin CtxOf(c) BY <1>0, <6>2, Kinds
            <7>2. NoneIn(q, CtxOf(c)) BY <3>3, <5>1, <5>3, <7>1
            <7> QED BY <4>6, <5>1, <5>2, <6>2, <7>2
          <6> QED BY <6>1, <6>2
        <5> QED BY <5>1, <5>3
      <4> QED BY <3>1, <3>5, <4>7, <4>8
    <3> QED BY <3>4, <3>5
  <2> QED BY <2>4, <2>5
<1> QED BY <1>1, <1>2

----------------------------------------------------------------------------
(* The invariant holds from the first state on.                             *)

\* At first nothing waits but the first signal, and the bridge is as made.
LEMMA BesideStarts == SystemInit => Beside
<1> SUFFICES ASSUME SystemInit PROVE Beside OBVIOUS
<1> DEFINE first == Signal("Init", None, TRUE)
<1>1. SystemInv /\ Inv BY SystemStarts, InitInv
<1>2. /\ b = InitBridge /\ ifs = BeforeSim /\ ~restarted /\ ~replugged
      /\ q = <<first>> /\ first.on = "Init" /\ listed = NotListed
  BY DEF SystemInit, Signal
<1>3. first \in Message BY SignalTypes
<1> HIDE DEF first
<1>4. Len(q) = 1 /\ q[1] = first BY <1>2
<1>5. \A X : NoneIn(q, X) <=> first \notin X BY <1>4 DEF NoneIn
<1>6. /\ ~NoneIn(q, Inits) /\ NoneIn(q, Owners) /\ NoneIn(q, Replugs) /\ NoneIn(q, Removals)
      /\ NoneIn(q, Added) /\ NoneIn(q, Ifs) /\ NoneIn(q, Presents) /\ NoneIn(q, Statuses)
      /\ \A mdm : NoneIn(q, RemovalsOf(mdm))
      /\ \A c : NoneIn(q, CtxOf(c))
  BY <1>2, <1>3, <1>5, Kinds
<1>7. NoneIn(q, Broken) BY <1>3, <1>5, <1>6, Faces
<1>8. /\ b.manager_ = None /\ b.modem_ = None /\ b.interfaces_ = {}
      /\ b.connectionContexts_ = NoContexts /\ b.status_ = "Unknown"
      /\ b.pub.RegistrationStatus = "offline"
  BY <1>2 DEF InitBridge, defaults_
<1>9. None # "live" BY DEF None
<1>10. World BY <1>2, <1>6 DEF World
<1>11. First
  <2>1. ToldAt(q, 1, {}, Message, TRUE) BY <1>4 DEF ToldAt
  <2>2. \A i \in 1..Len(q) : i = 1 BY <1>4
  <2>3. \A i \in 1..Len(q) : q[i] \in Inits => ToldAt(q, i, {}, Message, TRUE)
    BY <2>1, <2>2
  <2>4. AllTold(q, Inits, {}, Message, TRUE) BY <2>3 DEF AllTold
  <2>5. b.manager_ # "live" BY <1>8, <1>9
  <2>6. b = [InitBridge EXCEPT !.manager_ = b.manager_] BY <1>2 DEF InitBridge
  <2> QED BY <2>4, <2>5, <2>6 DEF First
<1>22. Asked BY <1>2 DEF Asked
<1>12. Shape BY <1>2, <1>7, <1>8 DEF Shape, Whole
<1>13. ModemTold BY <1>6, <1>8, <1>9, ToldNone DEF ModemTold
<1>14. InterfacesTold /\ Bare BY <1>8 DEF InterfacesTold, Bare
<1>15. OwnerTold /\ Restored /\ Withdrawn BY <1>2 DEF OwnerTold, Restored, Withdrawn, Crash
<1>16. Claimed BY <1>8 DEF Claimed, Registered
<1>17. StatusesTold BY <1>6, ToldNone DEF StatusesTold
<1>18. NetworkKnown /\ SimKnown BY <1>8 DEF NetworkKnown, SimKnown
<1>19. SimTakesNetwork BY <1>6, <1>8, FollowedNone DEF SimTakesNetwork
<1>20. StatusShown BY <1>8 DEF StatusShown, Exact, ckit_status_
<1>21. ContextsKnown
  <2>1. \A c \in Contexts : b.connectionContexts_[c] = "absent" BY <1>8 DEF NoContexts
  <2>2. LastIn(q, Statuses, StatusIs(net)) BY <1>6, QueueNone
  <2>3. \A c \in Contexts : LastIn(q, CtxOf(c), CtxIs(c, ctx[c])) BY <1>6, QueueNone
  <2> QED BY <1>8, <2>1, <2>2, <2>3 DEF ContextsKnown
<1> QED BY <1>1, <1>10, <1>11, <1>12, <1>13, <1>14, <1>15, <1>16, <1>17, <1>18, <1>19,
           <1>20, <1>21, <1>22 DEF Beside

\* A step that changes no more than what is yet to be connected keeps it.
LEMMA BesideStays ==
  Beside /\ [SystemNext]_vars /\ UNCHANGED <<b, daemon, listed, q>> => Beside'
<1> SUFFICES ASSUME Beside, [SystemNext]_vars, UNCHANGED <<b, daemon, listed, q>>
             PROVE  Beside'
  OBVIOUS
<1>1. /\ b' = b /\ up' = up /\ modem' = modem /\ ifs' = ifs /\ present' = present
      /\ net' = net /\ ctx' = ctx /\ restarted' = restarted /\ replugged' = replugged
      /\ q' = q /\ listed' = listed
  BY DEF daemon
<1>2. (World /\ First /\ Shape)' BY <1>1 DEF Beside, World, First, Shape
<1>3. ModemTold' BY <1>1 DEF Beside, ModemTold, Steady
<1>4. (InterfacesTold /\ Bare)' BY <1>1 DEF Beside, InterfacesTold, Bare
<1>5. (OwnerTold /\ Withdrawn)' BY <1>1 DEF Beside, OwnerTold, Withdrawn, Crash
<1>6. Restored' BY <1>1 DEF Beside, Restored, Crash, Blank
<1>7. (Claimed /\ StatusesTold)'
  BY <1>1 DEF Beside, Claimed, StatusesTold, Alone, Registered, Against, Blank
<1>8. (NetworkKnown /\ SimKnown)' BY <1>1 DEF Beside, NetworkKnown, SimKnown, Steady
<1>9. (SimTakesNetwork /\ StatusShown)'
  BY <1>1 DEF Beside, SimTakesNetwork, StatusShown, Steady, Exact
<1>10. ContextsKnown' BY <1>1 DEF Beside, ContextsKnown, Steady
<1>11. (SystemInv /\ Inv)' BY SystemNextInv, NextInv DEF Beside
<1>12. Asked' BY <1>1 DEF Beside, Asked, Crash
<1> QED BY <1>2, <1>3, <1>4, <1>5, <1>6, <1>7, <1>8, <1>9, <1>10, <1>11, <1>12 DEF Beside

\* What is known of the step in which GetModems tells of a modem: the signals
\* of the manager that was there before are lost, and no other.
LEMMA Telling ==
  ASSUME Beside, GetModems
  PROVE  /\ up' = up /\ modem' = modem /\ ifs' = ifs /\ present' = present
         /\ net' = net /\ ctx' = ctx
         /\ (restarted' <=> restarted) /\ (replugged' <=> replugged)
         /\ up /\ modem # None /\ listed' = [modem |-> modem, ifs |-> ifs]
         /\ b' = [b EXCEPT !.manager_ = "idle"]
         /\ q' # <<>> /\ Head(q') \in Joins
         /\ NoneIn(q', Replugs)
         /\ \A X : NoneIn(q, X) => NoneIn(q', X)
         /\ \A X : (\A e \in X : e \notin Replugs) =>
              /\ NoneIn(q', X) => NoneIn(q, X)
              /\ \A Y : LastIn(q, X, Y) => LastIn(q', X, Y)
              /\ \A Y : Behind(q, Y, X) => Behind(q', Y, X)
              /\ \A Y, B, own : AllTold(q, Y, X, B, own) => AllTold(q', Y, X, B, own)
              /\ \A V, Y : FollowedBy(q, V, Y, X) => FollowedBy(q', V, Y, X)
         /\ ~restarted \/ ~replugged => NoneIn(q, Replugs)
         /\ ~restarted => /\ ~NoneIn(q', Inits)
                          /\ b = [InitBridge EXCEPT !.manager_ = b.manager_]
<1>0. /\ SystemInv /\ b \in Bridge /\ q \in Seq(Message) /\ Waiting(b, q)
      /\ b.manager_ # "live" => NoneIn(q, Replugs)
  BY Before DEF Beside
<1>1. /\ up' = up /\ modem' = modem /\ ifs' = ifs /\ present' = present
      /\ net' = net /\ ctx' = ctx
      /\ (restarted' <=> restarted) /\ (replugged' <=> replugged)
      /\ up /\ modem # None /\ listed' = [modem |-> modem, ifs |-> ifs]
      /\ b' = [b EXCEPT !.manager_ = "idle"]
      /\ q' = Heard(b', q) /\ Joining
  BY DEF GetModems, daemon
<1> DEFINE keep == {i \in 1..Len(q) : Subscribed(b', q[i])}
<1>2. q' = SelectAt(q, keep) BY <1>1 DEF Heard
<1>3. \A i \in 1..Len(q) : q[i] \in Message /\ Subscribed(b, q[i]) BY <1>0 DEF Waiting
<1>4. ASSUME NEW e \in Message, Subscribed(b, e)
      PROVE  Subscribed(b', e) <=> e \notin Replugs
  <2>1. /\ b'.manager_ = "idle" /\ b'.modem_ = b.modem_ /\ b'.sim_ = b.sim_
        /\ b'.network_ = b.network_ /\ b'.connectionManager_ = b.connectionManager_
    BY <1>0, <1>1 DEF Bridge
  <2>2. e \in Replugs <=> e.on \in {"ModemAdded", "ModemRemoved"} BY Kinds
  <2> QED BY <1>4, <2>1, <2>2 DEF Subscribed, Message
<1>5. \A i \in 1..Len(q) : i \in keep <=> q[i] \notin Replugs BY <1>3, <1>4
<1> HIDE DEF keep
<1>6. /\ q' \in Seq(Message) /\ NoneIn(q', Replugs)
      /\ \A X : NoneIn(q, X) => NoneIn(q', X)
      /\ \A X : (\A e \in X : e \notin Replugs) =>
           /\ NoneIn(q', X) => NoneIn(q, X)
           /\ \A Y : LastIn(q, X, Y) => LastIn(q', X, Y)
      /\ \A Y, X : (\A e \in X : e \notin Replugs) /\ Behind(q, Y, X) => Behind(q', Y, X)
  BY <1>0, <1>2, <1>5, QueueSelected
<1>7. ASSUME NEW Y, NEW X, \A e \in X : e \notin Replugs
      PROVE  /\ \A B, own : AllTold(q, Y, X, B, own) => AllTold(q', Y, X, B, own)
             /\ \A V : FollowedBy(q, V, Y, X) => FollowedBy(q', V, Y, X)
  BY <1>0, <1>2, <1>5, <1>7, ToldSelected
<1>8. q # <<>> /\ 1 \in 1..Len(q) /\ Head(q) = q[1] /\ q[1] \in Message
  BY <1>0, <1>1 DEF Joining
<1>9. q[1] \in Joins /\ q[1] \notin Replugs
  BY <1>1, <1>8, Kinds DEF Joining, val
<1>10. q' # <<>> /\ Head(q') = q[1]
  <2>1. PICK at : IsLeft(q, keep, Len(q), q', at) BY <1>0, <1>2, LeftIsLeft
  <2>2. PICK i \in 1..Len(q') : at[i] = 1 BY <1>5, <1>8, <1>9, <2>1 DEF IsLeft
  <2>3. /\ at \in [1..Len(q') -> 1..Len(q)] /\ Len(q') \in Nat
        /\ \A j, k \in 1..Len(q') : j < k => at[j] < at[k]
        /\ \A j \in 1..Len(q') : q'[j] = q[at[j]]
    BY <1>6, <2>1 DEF IsLeft
  <2>4. 1 \in 1..Len(q') /\ at[1] \in Nat /\ at[1] >= 1 BY <2>2, <2>3
  <2>5. i = 1
    <3>1. ~(1 < i) BY <2>2, <2>3, <2>4
    <3> QED BY <2>2, <3>1
  <2> QED BY <1>6, <2>2, <2>3, <2>4, <2>5
<1>11. ASSUME ~restarted
       PROVE  /\ ~NoneIn(q', Inits) /\ b.manager_ # "live"
              /\ b = [InitBridge EXCEPT !.manager_ = b.manager_]
  <2>1. NoneIn(q, Owners) BY <1>11 DEF Beside, World
  <2>2. q[1] \notin Owners BY <1>8, <2>1 DEF NoneIn
  <2>3. q[1] \in Inits BY <1>8, <1>9, <2>2, Kinds DEF Started
  <2>4. ~NoneIn(q, Inits) BY <1>8, <2>3 DEF NoneIn
  <2>5. 1 \in 1..Len(q') /\ q'[1] = q[1] BY <1>6, <1>10
  <2> QED BY <2>3, <2>4, <2>5 DEF NoneIn, Beside, First
<1>12. ~restarted \/ ~replugged => NoneIn(q, Replugs)
  BY <1>0, <1>11 DEF Beside, World
<1> QED BY <1>1, <1>6, <1>7, <1>9, <1>10, <1>11, <1>12

\* The window between GetModems and its connects opens with what is so.
LEMMA BesideGetModems == Beside /\ GetModems => Beside'
<1> SUFFICES ASSUME Beside, GetModems PROVE Beside' OBVIOUS
<1>1. /\ up' = up /\ modem' = modem /\ ifs' = ifs /\ present' = present
      /\ net' = net /\ ctx' = ctx
      /\ (restarted' <=> restarted) /\ (replugged' <=> replugged)
      /\ up /\ modem # None /\ listed' = [modem |-> modem, ifs |-> ifs]
      /\ b' = [b EXCEPT !.manager_ = "idle"]
      /\ q' # <<>> /\ Head(q') \in Joins
      /\ NoneIn(q', Replugs)
      /\ \A X : NoneIn(q, X) => NoneIn(q', X)
      /\ ~restarted \/ ~replugged => NoneIn(q, Replugs)
      /\ ~restarted => /\ ~NoneIn(q', Inits)
                       /\ b = [InitBridge EXCEPT !.manager_ = b.manager_]
  BY Telling
<1>2. ASSUME NEW X, \A e \in X : e \notin Replugs
      PROVE  /\ NoneIn(q', X) => NoneIn(q, X)
             /\ \A Y : LastIn(q, X, Y) => LastIn(q', X, Y)
             /\ \A Y : Behind(q, Y, X) => Behind(q', Y, X)
             /\ \A Y, B, own : AllTold(q, Y, X, B, own) => AllTold(q', Y, X, B, own)
             /\ \A V, Y : FollowedBy(q, V, Y, X) => FollowedBy(q', V, Y, X)
  BY <1>2, Telling
<1>3. /\ b'.manager_ = "idle" /\ b'.modem_ = b.modem_ /\ b'.sim_ = b.sim_
      /\ b'.network_ = b.network_ /\ b'.connectionManager_ = b.connectionManager_
      /\ b'.interfaces_ = b.interfaces_ /\ b'.has_sim_ = b.has_sim_
      /\ b'.status_ = b.status_ /\ b'.connectionContexts_ = b.connectionContexts_
      /\ b'.pub = b.pub
  <2>1. b \in Bridge BY Before
  <2> QED BY <1>1, <2>1 DEF Bridge
<1>4. /\ \A X \in {Inits, Owners, Started, Gone, Joins, Ifs, IfsOrOwners, Presents, Statuses} :
           \A e \in X : e \notin Replugs
      /\ \A c : \A e \in CtxOf(c) : e \notin Replugs
      /\ \A id : \A e \in With(id) \cup Lacks(id) : e \notin Replugs
      /\ \A e \in {} : e \notin Replugs
  BY DEF Inits, Owners, Started, Gone, Joins, Ifs, IfsOrOwners, Presents, Statuses, CtxOf,
         With, Lacks, Replugs, Removals, Added, Kind
<1>5. ~restarted => b.modem_ = None /\ b.status_ = "Unknown"
  <2> SUFFICES ASSUME ~restarted PROVE b.modem_ = None /\ b.status_ = "Unknown" OBVIOUS
  <2> DEFINE mgr == b.manager_
  <2>1. b = [InitBridge EXCEPT !.manager_ = mgr] BY <1>1
  <2> HIDE DEF mgr
  <2> QED BY <2>1 DEF InitBridge
<1>6. World' BY <1>1 DEF Beside, World
<1>7. First'
  <2>1. AllTold(q', Inits, {}, Message, TRUE) BY <1>2, <1>4 DEF Beside, First
  <2>2. ASSUME ~NoneIn(q', Inits) PROVE b' = [InitBridge EXCEPT !.manager_ = "idle"]
    <3> DEFINE mgr == b.manager_
    <3>1. b = [InitBridge EXCEPT !.manager_ = mgr] BY <1>1, <2>2 DEF Beside, First
    <3> HIDE DEF mgr
    <3> QED BY <1>1, <3>1 DEF InitBridge
  <2> QED BY <1>3, <2>1, <2>2 DEF First
<1>8. Asked'
  <2>1. Whole(ifs) BY DEF Beside, Shape
  <2>2. listed'.modem = modem /\ listed'.ifs = ifs BY <1>1
  <2> QED BY <1>1, <1>3, <2>1, <2>2 DEF Asked
<1>9. (Shape /\ Bare /\ StatusShown)'
  BY <1>1, <1>3 DEF Beside, Shape, Bare, StatusShown, Exact
<1>10. ModemTold'
  <2>1. NoneIn(q', Added) /\ \A mdm : NoneIn(q', RemovalsOf(mdm))
    BY <1>1 DEF NoneIn, Replugs, RemovalsOf
  <2> QED BY <1>1, <1>3, <1>5, <2>1, ToldNone DEF ModemTold, Steady
<1>11. InterfacesTold' BY <1>1, <1>3, <1>5 DEF InterfacesTold
<1>12. OwnerTold'
  <2>1. NoneIn(q', Joins) => NoneIn(q, Joins) BY <1>2, <1>4
  <2>2. LastIn(q, Owners, Started) => LastIn(q', Owners, Started) BY <1>2, <1>4
  <2> QED BY <1>1, <1>3, <2>1, <2>2 DEF Beside, OwnerTold, Crash
<1>13. Restored'
  <2>1. /\ NoneIn(q', Ifs) <=> NoneIn(q, Ifs)
        /\ NoneIn(q', Owners) <=> NoneIn(q, Owners)
        /\ \A Y : LastIn(q, IfsOrOwners, Y) => LastIn(q', IfsOrOwners, Y)
    BY <1>1, <1>2, <1>4
  <2> QED BY <1>1, <1>3, <2>1 DEF Beside, Restored, Crash, Blank
<1>14. Withdrawn' BY <1>1 DEF Withdrawn
<1>15. Claimed' BY <1>1, <1>3, <1>5 DEF Beside, Claimed, Alone, Registered
<1>16. StatusesTold'
  <2> SUFFICES ASSUME Alone' PROVE AllTold(q', Statuses, With(NR), Against(b'), NR \in b'.interfaces_)
    BY DEF StatusesTold
  <2>1. NoneIn(q, Replugs) /\ Alone BY <1>1 DEF Alone
  <2>2. Against(b') = Against(b) BY <1>3 DEF Against, Blank
  <2>3. AllTold(q, Statuses, With(NR), Against(b), NR \in b.interfaces_)
    BY <2>1 DEF Beside, StatusesTold
  <2> QED BY <1>2, <1>3, <1>4, <2>2, <2>3
<1>17. (NetworkKnown /\ SimKnown)' BY <1>1, <1>3, <1>5 DEF NetworkKnown, SimKnown, Steady
<1>18. SimTakesNetwork'
  <2> SUFFICES ASSUME Steady PROVE SimTakesNetwork' BY <1>1 DEF Steady, SimTakesNetwork
  <2>1. FollowedBy(q', With(NR), Presents, Lacks(NR))
    BY <1>2, <1>4 DEF Beside, SimTakesNetwork
  <2>2. NoneIn(q', Lacks(NR)) => NoneIn(q, Lacks(NR)) BY <1>2, <1>4
  <2>3. ~NoneIn(q', Presents) => ~NoneIn(q, Presents) BY <1>1
  <2> QED BY <1>3, <2>1, <2>2, <2>3 DEF Beside, SimTakesNetwork
<1>19. ContextsKnown'
  <2>1. LastIn(q', Statuses, StatusIs(net)) BY <1>2, <1>4 DEF Beside, ContextsKnown
  <2>2. \A c : NoneIn(q', CtxOf(c)) => NoneIn(q, CtxOf(c)) BY <1>2, <1>4
  <2>3. \A c : \A Y : LastIn(q, CtxOf(c), Y) => LastIn(q', CtxOf(c), Y) BY <1>2, <1>4
  <2>4. NoneIn(q', Lacks(CM)) => NoneIn(q, Lacks(CM)) BY <1>2, <1>4
  <2> QED BY <1>1, <1>3, <2>1, <2>2, <2>3, <2>4 DEF Beside, ContextsKnown, Steady
<1>20. (SystemInv /\ Inv)' BY GetModemsNext, NextInv DEF Beside
<1> QED BY <1>6, <1>7, <1>8, <1>9, <1>10, <1>11, <1>12, <1>13, <1>14, <1>15, <1>16, <1>17,
           <1>18, <1>19, <1>20 DEF Beside

\* Every step of the system keeps it, until a signal is missed.
LEMMA BesideNext ==
  (~missed => Beside) /\ SystemInv /\ [SystemNext]_vars => (~missed' => Beside')
<1> SUFFICES ASSUME ~missed => Beside, SystemInv, [SystemNext]_vars, ~missed'
             PROVE  Beside'
  OBVIOUS
<1>1. ~missed
  <2>1. Daemon => \E s \in Seq(Message) : Send(s) BY DaemonSpeaks
  <2>2. GetModems \/ Connect \/ UNCHANGED vars => missed' = missed
    BY DEF GetModems, Connect, vars
  <2>3. Deliver => missed' = missed
    BY DEF Deliver, OnInit, OnNameOwnerChanged, OnModemAdded, OnModemRemoved, OnInterfaces,
           OnPowered, OnPresent, OnStatus, OnContext, Handle
  <2> QED BY <2>1, <2>2, <2>3 DEF SystemNext, Send
<1>2. Beside BY <1>1
<1>3. (SystemInv /\ Inv)' BY <1>2, SystemNextInv, NextInv DEF Beside
<1>4. CASE Daemon
  <2>1. (World /\ First /\ Asked /\ Shape /\ ModemTold /\ InterfacesTold /\ Bare)'
    BY <1>2, <1>4, WorldDaemon, FirstDaemon, AskedDaemon, ShapeDaemon, ModemToldDaemon,
       InterfacesToldDaemon, BareDaemon
  <2>2. (OwnerTold /\ Restored /\ Withdrawn /\ Claimed /\ StatusesTold)'
    BY <1>2, <1>4, OwnerToldDaemon, RestoredDaemon, WithdrawnDaemon, ClaimedDaemon,
       StatusesToldDaemon
  <2>3. (NetworkKnown /\ SimKnown /\ SimTakesNetwork /\ StatusShown /\ ContextsKnown)'
    BY <1>2, <1>4, NetworkKnownDaemon, SimKnownDaemon, SimTakesNetworkDaemon,
       StatusShownDaemon, ContextsKnownDaemon
  <2> QED BY <1>3, <2>1, <2>2, <2>3 DEF Beside
<1>5. CASE Deliver
  <2>1. (World /\ First /\ Asked /\ Shape /\ ModemTold /\ InterfacesTold /\ Bare)'
    BY <1>2, <1>5, WorldDeliver, FirstDeliver, AskedDeliver, ShapeDeliver, ModemToldDeliver,
       InterfacesToldDeliver, BareDeliver
  <2>2. (OwnerTold /\ Restored /\ Withdrawn /\ Claimed /\ StatusesTold)'
    BY <1>2, <1>5, OwnerToldDeliver, RestoredDeliver, WithdrawnDeliver, ClaimedDeliver,
       StatusesToldDeliver
  <2>3. (NetworkKnown /\ SimKnown /\ SimTakesNetwork /\ StatusShown /\ ContextsKnown)'
    BY <1>2, <1>5, NetworkKnownDeliver, SimKnownDeliver, SimTakesNetworkDeliver,
       StatusShownDeliver, ContextsKnownDeliver
  <2> QED BY <1>3, <2>1, <2>2, <2>3 DEF Beside
<1>6. CASE Connect \/ UNCHANGED vars
  <2>1. UNCHANGED <<b, daemon, listed, q>> BY <1>6 DEF Connect, vars
  <2> QED BY <1>2, <2>1, BesideStays
<1> QED BY <1>2, <1>4, <1>5, <1>6, BesideGetModems DEF SystemNext

----------------------------------------------------------------------------
(* What is shown once the signals have been handled.                        *)

\* The modem of a steady oFono is the bridge's, with its interfaces.
LEMMA AtRest ==
  ASSUME Beside, q = <<>>
  PROVE  /\ \A X : NoneIn(q, X)
         /\ Steady /\ up /\ modem # None => b.modem_ # None /\ b.interfaces_ = ifs
<1>1. \A X : NoneIn(q, X) BY QueueEmpty
<1>2. ASSUME Steady, up, modem # None PROVE b.modem_ # None /\ b.interfaces_ = ifs
  <2>1. b.modem_ # None BY <1>1, <1>2 DEF Beside, ModemTold, Steady
  <2> QED BY <1>1, <1>2, <2>1 DEF Beside, InterfacesTold, Steady
<1> QED BY <1>1, <1>2

\* The network that a steady modem offers is shown.
LEMMA BesideNetworkShown == (~missed => Beside) => NetworkShown
<1> SUFFICES ASSUME Beside, q = <<>>, Steady, Offers("NetworkRegistration")
             PROVE  ShowsNetwork
  BY DEF NetworkShown, Settled
<1>1. up /\ modem # None /\ NR \in ifs BY DEF Offers, NR
<1>2. b.status_ = map_status(net)
  <2>1. b.modem_ # None /\ b.interfaces_ = ifs /\ \A X : NoneIn(q, X) BY <1>1, AtRest
  <2> QED BY <1>1, <2>1 DEF Beside, NetworkKnown
<1>3. Exact(b) BY DEF Beside, StatusShown, Steady
<1> QED BY <1>2, <1>3 DEF Exact, ShowsNetwork

\* The contexts that a steady modem has are known, and none but the first for
\* MMS is shown.
LEMMA BesideMmsShown == (~missed => Beside) => MmsShown
<1> SUFFICES ASSUME Beside, q = <<>>, Steady, Offers("ConnectionManager")
             PROVE  /\ b.mmsContext_ = first_mms(ctx)
                    /\ b.pub.MMSContext \in {0, first_mms(ctx)}
  BY DEF MmsShown, Settled
<1>1. up /\ modem # None /\ CM \in ifs BY DEF Offers, CM
<1>2. \A c \in Contexts : b.connectionContexts_[c] = ctx[c]
  <2>1. b.modem_ # None /\ b.interfaces_ = ifs /\ \A X : NoneIn(q, X) BY <1>1, AtRest
  <2> QED BY <1>1, <2>1 DEF Beside, ContextsKnown
<1>3. /\ b.mmsContext_ = first_mms(b.connectionContexts_)
      /\ b.pub.MMSContext \in {0, b.mmsContext_}
  BY DEF Beside, Inv, Good, Weak, OwnersKept
<1>4. b.connectionContexts_ = ctx
  <2>1. b.connectionContexts_ \in [Contexts -> ContextKind] BY Before DEF Bridge
  <2>2. ctx \in [Contexts -> ContextKind \ {"plain"}]
    BY DEF Beside, SystemInv, DaemonOK, DaemonContexts
  <2> QED BY <1>2, <2>1, <2>2
<1> QED BY <1>3, <1>4

\* Without a network none is shown.
LEMMA BesideNoNetworkShown == (~missed => Beside) => NoNetworkShown
<1> SUFFICES ASSUME Beside, q = <<>>, ~Offers("NetworkRegistration"),
                    restarted => ~replugged /\ SingleModem,
                    b.pub.RegistrationStatus \in Known
             PROVE  FALSE
  BY DEF NoNetworkShown, Known, Settled
<1>1. \A X : NoneIn(q, X) BY AtRest
<1>2. up /\ modem # None => NR \notin ifs BY DEF Offers, NR
<1>3. Registered(b)
  <2>1. b.pub.RegistrationStatus = ckit_status_[b.status_] /\ b \in Bridge
    BY DEF Beside, Inv, Good, Weak, HonestStatus
  <2>2. b.status_ \in {"NoSim", "Offline", "Registered", "Searching", "Denied", "Unknown",
                       "Roaming"}
    BY <2>1 DEF Bridge, Status
  <2> QED BY <2>1, <2>2 DEF Registered, Known, ckit_status_
<1>4. b.modem_ # None /\ NR \in b.interfaces_
  BY <1>1, <1>3 DEF Beside, Claimed, Alone
<1>5. CASE ~restarted
  <2>1. up /\ modem # None BY <1>1, <1>4, <1>5, BridgeAssumption DEF Beside, ModemTold
  <2>2. b.interfaces_ = ifs \/ b.interfaces_ = {}
    BY <1>1, <1>4, <1>5 DEF Beside, InterfacesTold
  <2> QED BY <1>2, <1>4, <2>1, <2>2
<1>6. CASE restarted
  <2>1. Crash BY <1>6 DEF Crash
  <2>2. CASE ~up \/ modem = None
    BY <1>1, <2>1, <2>2 DEF Beside, Withdrawn
  <2>3. CASE up /\ modem # None
    <3>1. b.interfaces_ = ifs BY <1>1, <1>4, <2>1, <2>3 DEF Beside, Restored
    <3> QED BY <1>2, <1>4, <2>3, <3>1
  <2> QED BY <2>2, <2>3
<1> QED BY <1>5, <1>6

\* Until a signal falls between a read of the bridge and its connect, the bridge
\* and the daemon agree, in every state and in spite of the signals that wait
\* between them, as far as Beside says.
THEOREM BesideHolds == SystemSpec => [](~missed => Beside)
<1>1. SystemInit => (~missed => Beside) BY BesideStarts
<1>2. (~missed => Beside) /\ SystemInv /\ [SystemNext]_vars => (~missed' => Beside')
  BY BesideNext
<1> QED BY <1>1, <1>2, SystemInvHolds, PTL DEF SystemSpec

\* Once the signals have been handled, and unless one was missed, the network
\* is shown, or that there is none, and no MMS context but the first one,
\* whatever the order in which oFono, its modem, the power, the SIM, the
\* interfaces, the status and the contexts changed.
THEOREM CellularShownHolds == SystemSpec => []CellularShown
<1>1. (~missed => Beside) => CellularShown
  BY BesideNetworkShown, BesideNoNetworkShown, BesideMmsShown DEF CellularShown
<1> QED BY <1>1, BesideHolds, PTL
=============================================================================
