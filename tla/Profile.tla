------------------------------ MODULE Profile ------------------------------
(***************************************************************************)
(* The Bridge of src/src/profile/provider_profile.cpp, the property        *)
(* Profile.Name, and the daemon profiled whose active profile it shows.    *)
(*                                                                         *)
(* init_conn reads the profile with a blocking call and connects to its    *)
(* changes afterwards: a change in between is never heard.  The signals    *)
(* wait in deliveries, in order, until the event loop handles them; those  *)
(* for a proxy are lost with it.                                           *)
(*                                                                         *)
(* Every change of the active profile has a number.  What is shown carries *)
(* the number it came with, which nothing in the bridge depends on.        *)
(***************************************************************************)
EXTENDS Integers, Signals

CONSTANTS Profiles,         \* names of profiles
          MaxProfileMoves   \* how many changes profiled makes

NoName == ""   \* what the property is when there is no profile to show

ASSUME ProfileAssumption == NoName \notin Profiles /\ MaxProfileMoves \in Nat

VARIABLES profiled_,    \* the proxy: "none", "idle" (not connected) or "live"
          initConn,     \* what init_conn has left to do
          Name,         \* the property,
          NameNumber,   \* and the number of the value last put into it
          running, active, number,  \* profiled, its profile and its number
          unheard,      \* a change fell between the read and the connect
          deliveries, profileMoves

profileBridge == <<profiled_, initConn, Name, NameNumber>>
profiled == <<running, active, number, profileMoves>>
profileVars == <<profileBridge, profiled, unheard, deliveries>>

init_conn == <<"get_profile", "connect">>

Delivery(on, isActive, name, n) ==
  [on |-> on, active |-> isActive, name |-> name, number |-> n]

Owners(ds) == Without(ds, {"profile_changed"})

----------------------------------------------------------------------------
(* The bridge.                                                             *)

\* sync: when the call fails the property stays as it is
GetProfile ==
  /\ initConn # <<>> /\ Head(initConn) = "get_profile"
  /\ IF running THEN Name' = active /\ NameNumber' = number
     ELSE UNCHANGED <<Name, NameNumber>>
  /\ unheard' = FALSE
  /\ initConn' = Tail(initConn)
  /\ UNCHANGED <<profiled_, profiled, deliveries>>

ConnectProfile ==
  /\ initConn # <<>> /\ Head(initConn) = "connect"
  /\ profiled_' = "live"
  /\ initConn' = Tail(initConn)
  /\ UNCHANGED <<Name, NameNumber, profiled, unheard, deliveries>>

HandleDelivery(on) == /\ initConn = <<>> /\ deliveries # <<>>
                      /\ Head(deliveries).on = on
                      /\ UNCHANGED <<profiled, unheard>>

\* mutant: the old proxy stays connected until it is read and replaced
OnProfiledRegistered_late ==
  /\ HandleDelivery("registered")
  /\ initConn' = init_conn
  /\ deliveries' = Tail(deliveries)
  /\ UNCHANGED <<profiled_, Name, NameNumber>>

\* init_conn replaces the proxy first
OnProfiledRegistered ==
  /\ HandleDelivery("registered")
  /\ profiled_' = "idle"
  /\ initConn' = init_conn
  /\ deliveries' = Owners(Tail(deliveries))
  /\ UNCHANGED <<Name, NameNumber>>

\* reset_all
OnProfiledUnregistered ==
  /\ HandleDelivery("unregistered")
  /\ profiled_' = "none"
  /\ Name' = NoName
  /\ deliveries' = Owners(Tail(deliveries))
  /\ UNCHANGED <<initConn, NameNumber>>

OnProfileChanged ==
  /\ HandleDelivery("profile_changed")
  /\ IF Head(deliveries).active
     THEN Name' = Head(deliveries).name /\ NameNumber' = Head(deliveries).number
     ELSE UNCHANGED <<Name, NameNumber>>
  /\ deliveries' = Tail(deliveries)
  /\ UNCHANGED <<profiled_, initConn>>

----------------------------------------------------------------------------
(* The daemon.                                                             *)

ProfileMove == /\ profileMoves < MaxProfileMoves
               /\ profileMoves' = profileMoves + 1
               /\ UNCHANGED profileBridge

\* profiled starts, or another instance takes its name over
StartProfiled ==
  /\ ProfileMove
  /\ running' = TRUE
  /\ active' \in Profiles
  /\ number' = number + 1
  /\ deliveries' = Append(deliveries, Delivery("registered", FALSE, NoName, 0))
  /\ UNCHANGED unheard

StopProfiled ==
  /\ ProfileMove
  /\ running /\ running' = FALSE
  /\ deliveries' = Append(deliveries, Delivery("unregistered", FALSE, NoName, 0))
  /\ UNCHANGED <<active, number, unheard>>

Signalled(isActive, name, n) ==
  deliveries' = IF profiled_ = "live"
                THEN Append(deliveries, Delivery("profile_changed", isActive, name, n))
                ELSE deliveries

SetProfile == /\ ProfileMove
              /\ running
              /\ active' \in Profiles \ {active}
              /\ number' = number + 1
              /\ Signalled(TRUE, active', number')
              /\ unheard' = (unheard \/ initConn = <<"connect">>)
              /\ UNCHANGED running

\* the values of a profile change, be it the active one or not
ChangeValues == /\ ProfileMove
                /\ running
                /\ \E p \in Profiles : Signalled(p = active, p, number)
                /\ UNCHANGED <<running, active, number, unheard>>

ProfileInit == /\ profiled_ = "idle" /\ initConn = init_conn
               /\ Name = NoName /\ NameNumber = -1
               /\ running \in BOOLEAN /\ active \in Profiles /\ number = 0
               /\ unheard = FALSE /\ deliveries = <<>> /\ profileMoves = 0

ProfileLoop == \/ GetProfile \/ ConnectProfile
               \/ OnProfiledRegistered \/ OnProfiledUnregistered \/ OnProfileChanged
Profiled == StartProfiled \/ StopProfiled \/ SetProfile \/ ChangeValues

ProfileNext == ProfileLoop \/ Profiled

ProfileSpec == ProfileInit /\ [][ProfileNext]_profileVars /\ WF_profileVars(ProfileLoop)

----------------------------------------------------------------------------
(* Properties.                                                             *)

\* When everything is handled, the name is that of the active profile, and
\* none when profiled is gone, unless the only signal of a change fell between
\* the read and the connect (62-65).
ProfileShown ==
  initConn = <<>> /\ deliveries = <<>> /\ ~unheard =>
    Name = IF running THEN active ELSE NoName

NameMirror == INSTANCE Mirror WITH truth <- number, newest <- NameNumber,
                                   shown <- IF Name = NoName THEN -1 ELSE NameNumber
============================================================================
