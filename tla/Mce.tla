-------------------------------- MODULE Mce --------------------------------
(***************************************************************************)
(* The Bridge of src/src/mce/provider_mce.cpp, the namespaces System and   *)
(* Screen, and the daemon MCE they mirror: its power save mode, its        *)
(* display and its radios.                                                 *)
(*                                                                         *)
(* init_request reads the three with a blocking call each, by the proxy    *)
(* request_, and connects to their indications afterwards, by signal_.     *)
(* The indications wait in indications, in order, until the event loop     *)
(* handles them; they are lost with the proxy signal_.                     *)
(*                                                                         *)
(* Every value has a number (stamp); what is published carries the number  *)
(* it came with, which nothing in the bridge depends on.                   *)
(***************************************************************************)
EXTENDS Integers, Signals

CONSTANTS MaxMceMoves   \* how many changes MCE makes
ASSUME MceAssumption == MaxMceMoves \in Nat

Kinds == {"psm", "display", "radio"}
Radios == {"MASTER", "CELLULAR", "WLAN"}
ValueOf == [psm |-> BOOLEAN, display |-> {"on", "dimmed", "off"},
            radio |-> SUBSET Radios]

VARIABLES signal_,          \* the indications it is connected to
          initRequest,      \* what init_request has left to do
          System, Screen,   \* the properties
          stampShown,       \* the numbers of the values put into them
          mceUp, value, stamp,  \* MCE
          unseen,           \* kinds a change of which fell before the connect
          indications, mceMoves

mceBridge == <<signal_, initRequest, System, Screen, stampShown>>
mce == <<mceUp, value, stamp, mceMoves>>
mceVars == <<mceBridge, mce, unseen, indications>>

Call(do, kind) == [do |-> do, kind |-> kind]

\* mutant: the display's indication is not connected
init_request_blind ==
  <<Call("get", "psm"), Call("get", "display"), Call("get", "radio"),
    Call("signal", "all"), Call("connect", "psm"), Call("connect", "radio")>>

init_request ==
  <<Call("get", "psm"), Call("get", "display"), Call("get", "radio"),
    Call("signal", "all"),
    Call("connect", "psm"), Call("connect", "display"), Call("connect", "radio")>>

default_values == [PowerSaveMode |-> FALSE, OfflineMode |-> FALSE,
                   InternetEnabled |-> TRUE, WlanEnabled |-> FALSE]

\* on_psm and on_radio
systemWith(p, kind, v) ==
  CASE kind = "psm"   -> [p EXCEPT !.PowerSaveMode = v]
    [] kind = "radio" -> [p EXCEPT !.OfflineMode = "CELLULAR" \notin v,
                                   !.WlanEnabled = "WLAN" \in v,
                                   !.InternetEnabled = "MASTER" \in v]
    [] OTHER          -> p

\* on_display: a dimmed display is not blanked
screenWith(p, kind, v) == IF kind = "display" THEN [Blanked |-> v = "off"] ELSE p

Publish(kind, v, n) == /\ System' = systemWith(System, kind, v)
                       /\ Screen' = screenWith(Screen, kind, v)
                       /\ stampShown' = [stampShown EXCEPT ![kind] = n]

Indication(on, kind, v, n) == [on |-> on, kind |-> kind, value |-> v, stamp |-> n]
OwnerNews(is) == Without(is, {"indication"})

----------------------------------------------------------------------------
(* The bridge.                                                             *)

Calling(do) == initRequest # <<>> /\ Head(initRequest).do = do
called == Head(initRequest).kind
Called == initRequest' = Tail(initRequest) /\ UNCHANGED mce

\* sync: when the call fails nothing is published
GetState ==
  /\ Calling("get") /\ Called
  /\ IF mceUp THEN Publish(called, value[called], stamp[called])
     ELSE UNCHANGED <<System, Screen, stampShown>>
  /\ unseen' = unseen \ {called}
  /\ UNCHANGED <<signal_, indications>>

\* the proxy of an earlier init_request goes, with what is queued for it
ResetSignal ==
  /\ Calling("signal") /\ Called
  /\ signal_' = {}
  /\ indications' = OwnerNews(indications)
  /\ UNCHANGED <<System, Screen, stampShown, unseen>>

ConnectIndication ==
  /\ Calling("connect") /\ Called
  /\ signal_' = signal_ \cup {called}
  /\ UNCHANGED <<System, Screen, stampShown, unseen, indications>>

HandleIndication(on) == /\ initRequest = <<>> /\ indications # <<>>
                        /\ Head(indications).on = on
                        /\ UNCHANGED <<mce, unseen>>

OnMceRegistered ==
  /\ HandleIndication("registered")
  /\ initRequest' = init_request
  /\ indications' = Tail(indications)
  /\ UNCHANGED <<signal_, System, Screen, stampShown>>

\* reset_all: the proxies go, and what they have published stays
OnMceUnregistered ==
  /\ HandleIndication("unregistered")
  /\ signal_' = {}
  /\ indications' = OwnerNews(Tail(indications))
  /\ UNCHANGED <<initRequest, System, Screen, stampShown>>

OnIndication ==
  /\ HandleIndication("indication")
  /\ LET i == Head(indications) IN Publish(i.kind, i.value, i.stamp)
  /\ indications' = Tail(indications)
  /\ UNCHANGED <<signal_, initRequest>>

----------------------------------------------------------------------------
(* The daemon.                                                             *)

MceMove == /\ mceMoves < MaxMceMoves
           /\ mceMoves' = mceMoves + 1
           /\ UNCHANGED mceBridge

\* MCE starts, or another instance takes its name over
StartMce ==
  /\ MceMove
  /\ mceUp' = TRUE
  /\ \E v \in ValueOf["display"] : value' = [value EXCEPT !.display = v]
  /\ stamp' = [k \in Kinds |-> stamp[k] + 1]
  /\ indications' = Append(indications, Indication("registered", "all", FALSE, 0))
  /\ UNCHANGED unseen

StopMce ==
  /\ MceMove
  /\ mceUp /\ mceUp' = FALSE
  /\ indications' = Append(indications, Indication("unregistered", "all", FALSE, 0))
  /\ UNCHANGED <<value, stamp, unseen>>

\* the bridge has read this kind, and has still to connect to it
BetweenReadAndConnect(kind) ==
  /\ \E i \in DOMAIN initRequest : initRequest[i] = Call("connect", kind)
  /\ \A i \in DOMAIN initRequest : initRequest[i] # Call("get", kind)

ChangeState ==
  /\ MceMove
  /\ mceUp
  /\ \E k \in Kinds :
       /\ \E v \in ValueOf[k] \ {value[k]} : value' = [value EXCEPT ![k] = v]
       /\ stamp' = [stamp EXCEPT ![k] = @ + 1]
       /\ indications' = IF k \in signal_
                         THEN Append(indications,
                                     Indication("indication", k, value'[k], stamp'[k]))
                         ELSE indications
       /\ unseen' = IF BetweenReadAndConnect(k) THEN unseen \cup {k} ELSE unseen
  /\ UNCHANGED mceUp

MceInit == /\ signal_ = {} /\ initRequest = init_request
           /\ System = default_values /\ Screen = [Blanked |-> FALSE]
           /\ stampShown = [k \in Kinds |-> -1]
           /\ mceUp \in BOOLEAN
           /\ value \in [psm : {FALSE}, display : {"on", "off"}, radio : {{}, Radios}]
           /\ stamp = [k \in Kinds |-> 0]
           /\ unseen = {} /\ indications = <<>> /\ mceMoves = 0

MceLoop == \/ GetState \/ ResetSignal \/ ConnectIndication
           \/ OnMceRegistered \/ OnMceUnregistered \/ OnIndication
MceDaemon == StartMce \/ StopMce \/ ChangeState

MceNext == MceLoop \/ MceDaemon

MceSpec == MceInit /\ [][MceNext]_mceVars /\ WF_mceVars(MceLoop)

----------------------------------------------------------------------------
(* Properties.                                                             *)

shows(kind) == /\ systemWith(System, kind, value[kind]) = System
               /\ screenWith(Screen, kind, value[kind]) = Screen

\* When everything is handled and MCE is there, the properties are those of
\* its state, whether it was read or indicated and however often it restarted;
\* but for a change between the read and the connect (66-74).
MceShown ==
  initRequest = <<>> /\ indications = <<>> /\ mceUp =>
    \A k \in Kinds \ unseen : shows(k)

\* each of the three mirrors one value of MCE
PsmMirror == INSTANCE Mirror WITH truth <- stamp["psm"],
                                  shown <- stampShown["psm"],
                                  newest <- stampShown["psm"]
DisplayMirror == INSTANCE Mirror WITH truth <- stamp["display"],
                                      shown <- stampShown["display"],
                                      newest <- stampShown["display"]
RadioMirror == INSTANCE Mirror WITH truth <- stamp["radio"],
                                    shown <- stampShown["radio"],
                                    newest <- stampShown["radio"]
============================================================================
