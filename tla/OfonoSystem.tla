---------------------------- MODULE OfonoSystem ----------------------------
(***************************************************************************)
(* The Bridge of OfonoBridge together with the daemon it mirrors and the   *)
(* D-Bus signals in flight between them.                                   *)
(*                                                                         *)
(* A blocking call shows the daemon as it is now; a signal shows it as it  *)
(* was when it was sent, and waits in q, in order, until the event loop    *)
(* delivers it.  A signal is sent to the bridge only while a connected     *)
(* proxy has subscribed to it, and is lost when that proxy is destroyed.   *)
(* The daemon and the bus are external: they are modelled as far as the    *)
(* bridge can see them.                                                    *)
(*                                                                         *)
(* The blocking calls of a handler are one step, but for two windows in    *)
(* which the daemon may move while the bridge is between what it has read  *)
(* and the connect that follows: connect_manager reads the modem, and then *)
(* connects to it (581, 537); and the connects to ModemAdded, ModemRemoved *)
(* (593-601) and to the SIM (803) come after the reads of their handler.   *)
(* What is emitted there is not heard, and missed records it.              *)
(*                                                                         *)
(* A proxy that replaces one of the same object takes over the signals     *)
(* that wait for it.  In the code these are lost; the object is read anew  *)
(* and the read is newer than they are.                                    *)
(***************************************************************************)
EXTENDS OfonoBridge, Signals

CONSTANTS Moves,        \* the kinds of change the daemon may make
          MaxMoves      \* how many changes it makes before it is quiet

VARIABLES up, modem, ifs, present, net, ctx,   \* the daemon
          restarted, replugged,   \* it has restarted, its modem came or went
          moves,    \* the changes it has made
          listed,   \* what GetModems told of a modem not yet connected to
          connecting,   \* the proxies that the last handler has yet to connect
          missed,   \* a signal was emitted before the bridge connected to it
          q         \* signals on their way

daemon == <<up, modem, ifs, present, net, ctx, restarted, replugged, moves>>
vars == <<b, daemon, listed, connecting, missed, q>>

NotListed == [modem |-> None, ifs |-> {}]

Signal(on, path, val) == [on |-> on, path |-> path, val |-> val]

\* a modem without power offers nothing
Powered(offered) == offered # {}

\* the interfaces a powered modem offers whether it has a SIM or not
BeforeSim == {"SimManager"}

Steady == ~restarted /\ ~replugged

SingleModem == \A m, n \in Modems : m = n

Offers(id) == up /\ modem # None /\ id \in ifs

\* what every blocking call returns while the interfaces in offered are there
Answers(offered, has_sim, status, contexts) ==
  LET If(id, x, y) == IF id \in offered THEN x ELSE y
  IN  [sim |-> If("SimManager", IF has_sim THEN "present" ELSE "absent", "error"),
       net |-> If("NetworkRegistration", status, "error"),
       ops |-> If("NetworkRegistration", "current", "error"),
       stk |-> If("SimToolkit", "ok", "error"),
       cm  |-> If("ConnectionManager", "all", "error"),
       ctx |-> If("ConnectionManager", contexts, NoContexts)]

\* what they would return now
snapshot == Answers({id \in ifs : Offers(id)}, present, net, ctx)

\* the contexts of the daemon, which leaves none without its settings
DaemonContexts == [Contexts -> ContextKind \ {"plain"}]

\* the interface lists and the answers of this daemon are among the bridge's
ASSUME SystemAssumption ==
  /\ {} \in InterfaceSets /\ BeforeSim \in InterfaceSets
  /\ \A offered \in InterfaceSets, has_sim \in BOOLEAN, status \in NetStatuses,
        contexts \in DaemonContexts :
       Answers(offered, has_sim, status, contexts) \in Replies

\* some proxy of the bridge x is connected to the signal m
Subscribed(x, m) ==
  CASE m.on \in {"Init", "NameOwnerChanged"}   -> TRUE
    [] m.on \in {"ModemAdded", "ModemRemoved"} -> x.manager_ = "live"
    [] m.on \in {"Interfaces", "Powered"}      -> x.modem_ = m.path
    [] m.on = "Present"                        -> x.sim_ = "live"
    [] m.on = "Status"                         -> x.network_
    [] m.on = "Context"                        -> x.connectionManager_

Heard(x, s) == SelectAt(s, {i \in 1..Len(s) : Subscribed(x, s[i])})

Replug == {"ModemAdded", "ModemRemoved"}

\* the bridge has read what m tells of, and has not connected to m
Unheard(m) ==
  \/ /\ listed # NotListed
     /\ m.on \in Replug \/ (m.on \in {"Interfaces", "Powered"} /\ m.path = listed.modem)
  \/ m.on \in Replug /\ "manager_" \in connecting
  \/ m.on = "Present" /\ "sim_" \in connecting

Send(s) ==
  LET lost == {i \in 1..Len(s) : Unheard(s[i])}
  IN  /\ q' = q \o SelectAt(s, {i \in 1..Len(s) : Subscribed(b, s[i])} \ lost)
      /\ missed' = (missed \/ lost # {})

----------------------------------------------------------------------------
(* The daemon.                                                             *)

Move(kind) == /\ kind \in Moves
              /\ moves < MaxMoves
              /\ moves' = moves + 1
              /\ restarted' = (restarted \/ kind = "restart")
              /\ replugged' = (replugged \/ kind = "modem")
              /\ UNCHANGED <<b, listed, connecting>>

Start == /\ Move("restart")
         /\ ~up
         /\ up' = TRUE
         /\ modem' \in Modems \cup {None}
         /\ ifs' = BeforeSim
         /\ present' \in BOOLEAN
         /\ Send(<<Signal("NameOwnerChanged", None, TRUE)>>)
         /\ UNCHANGED <<net, ctx>>

Stop == /\ Move("restart")
        /\ up
        /\ up' = FALSE
        /\ Send(<<Signal("NameOwnerChanged", None, FALSE)>>)
        /\ UNCHANGED <<modem, ifs, present, net, ctx>>

AddModem == /\ Move("modem")
            /\ up /\ modem = None
            /\ modem' \in Modems
            /\ ifs' = {} /\ present' = FALSE
            /\ Send(<<Signal("ModemAdded", modem', {})>>)
            /\ UNCHANGED <<up, net, ctx>>

RemoveModem == /\ Move("modem")
               /\ up /\ modem # None
               /\ modem' = None
               /\ Send(<<Signal("ModemRemoved", modem, {})>>)
               /\ UNCHANGED <<up, ifs, present, net, ctx>>

SetInterfaces(new) ==
  /\ ifs' = new
  /\ Send(<<Signal("Interfaces", modem, new)>>)

PowerOn == /\ Move("power")
           /\ up /\ modem # None /\ ifs = {}
           /\ SetInterfaces(BeforeSim)
           /\ UNCHANGED <<up, modem, present, net, ctx>>

PowerOff == /\ Move("power")
            /\ up /\ modem # None /\ ifs # {}
            /\ ifs' = {}
            /\ Send(<<Signal("Interfaces", modem, {}), Signal("Powered", modem, FALSE)>>)
            /\ UNCHANGED <<up, modem, present, net, ctx>>

InsertSim == /\ Move("sim")
             /\ Offers("SimManager") /\ ~present
             /\ present' = TRUE
             /\ Send(<<Signal("Present", modem, TRUE)>>)
             /\ UNCHANGED <<up, modem, ifs, net, ctx>>

\* the objects that need a SIM go with it
RemoveSim == /\ Move("sim")
             /\ Offers("SimManager") /\ present
             /\ present' = FALSE
             /\ ifs' = BeforeSim
             /\ LET gone == Signal("Present", modem, FALSE)
                IN  Send(IF ifs = BeforeSim THEN <<gone>>
                         ELSE <<gone, Signal("Interfaces", modem, BeforeSim)>>)
             /\ UNCHANGED <<up, modem, net, ctx>>

\* going on line and off line with the SIM in its place
GoOnline == /\ Move("online")
            /\ Offers("SimManager") /\ present
            /\ \E new \in InterfaceSets \ {ifs} :
                 /\ BeforeSim \subseteq new
                 /\ SetInterfaces(new)
            /\ UNCHANGED <<up, modem, present, net, ctx>>

NewStatus == /\ Move("net")
             /\ Offers("NetworkRegistration")
             /\ net' \in NetStatuses \ {net}
             /\ Send(<<Signal("Status", modem, net')>>)
             /\ UNCHANGED <<up, modem, ifs, present, ctx>>

NewContext == /\ Move("context")
              /\ Offers("ConnectionManager")
              /\ \E c \in Contexts, k \in ContextKind \ {"plain"} :
                   /\ ctx[c] # k
                   /\ ctx' = [ctx EXCEPT ![c] = k]
                   /\ Send(<<Signal("Context", c, k)>>)
              /\ UNCHANGED <<up, modem, ifs, present, net>>

Daemon == \/ Start \/ Stop \/ AddModem \/ RemoveModem \/ PowerOn \/ PowerOff
          \/ InsertSim \/ RemoveSim \/ GoOnline \/ NewStatus \/ NewContext

----------------------------------------------------------------------------
(* The event loop of the bridge: y is the bridge that the handler of the   *)
(* first signal leaves behind.  Signals of proxies it destroyed are lost.   *)

\* the handler that made y of x has set up the SIM, for the first time or anew
SetsUpSim(x, y) ==
  /\ y.sim_ = "live"
  /\ x.sim_ # "live" \/ ("SimManager" \in x.interfaces_ <=> "SimManager" \notin y.interfaces_)

\* what it connects last
Connects(x, y) ==
  {p \in {"manager_", "sim_"} : \/ p = "manager_" /\ x.manager_ # "live" /\ y.manager_ = "live"
                                \/ p = "sim_" /\ SetsUpSim(x, y)}

Handle(on, y) == /\ connecting = {}
                 /\ q # <<>>
                 /\ Head(q).on = on
                 /\ b' = y
                 /\ q' = Heard(b', Tail(q))
                 /\ listed' = NotListed
                 /\ connecting' = Connects(b, b')
                 /\ UNCHANGED <<daemon, missed>>

Connect == /\ connecting # {}
           /\ connecting' = {}
           /\ UNCHANGED <<b, daemon, listed, missed, q>>

path == Head(q).path
val == Head(q).val

\* connect_manager is next: at first, and when oFono has appeared
Joining == q # <<>> /\ Head(q).on \in {"Init", "NameOwnerChanged"} /\ val

\* GetModems tells of a modem; the signals of the manager before are lost
GetModems == /\ connecting = {} /\ listed = NotListed
             /\ Joining
             /\ up /\ modem # None
             /\ listed' = [modem |-> modem, ifs |-> ifs]
             /\ b' = [b EXCEPT !.manager_ = "idle"]
             /\ q' = Heard(b', q)
             /\ UNCHANGED <<daemon, connecting, missed>>

\* GetModems has answered, or it fails or tells of none
Answered == listed # NotListed \/ ~up \/ modem = None

connect ==
  IF listed = NotListed THEN [b EXCEPT !.manager_ = "idle"]
  ELSE connect_manager(b, listed.modem, listed.ifs, Powered(listed.ifs), snapshot)

OnInit == Handle("Init", connect) /\ Answered

OnNameOwnerChanged ==
  /\ Handle("NameOwnerChanged", IF val THEN connect ELSE reset_manager(b))
  /\ val => Answered

OnModemAdded ==
  Handle("ModemAdded", setup_modem(b, path, val, Powered(val), snapshot))

OnModemRemoved ==
  Handle("ModemRemoved", IF b.modem_ = path THEN reset_modem(b, snapshot) ELSE b)

OnInterfaces == Handle("Interfaces", process_interfaces(b, val, snapshot))

OnPowered == Handle("Powered", modem_powered(b, val, snapshot))

OnPresent ==
  Handle("Present", sim_present_by(LAMBDA x, s : set_status(x, s, snapshot), b, val))

OnStatus == Handle("Status", net_update(b, "Status", val, snapshot))

\* mutant: the MMS context is not computed again
OnContext_stale ==
  Handle("Context", [b EXCEPT !.connectionContexts_[path] = val])

OnContext ==
  Handle("Context", update_mms_context([b EXCEPT !.connectionContexts_[path] = val]))

Deliver == \/ OnInit \/ OnNameOwnerChanged \/ OnModemAdded \/ OnModemRemoved
           \/ OnInterfaces \/ OnPowered \/ OnPresent \/ OnStatus \/ OnContext

SystemInit ==
  /\ b = InitBridge
  /\ up \in BOOLEAN
  /\ modem \in Modems \cup {None}
  /\ ifs = BeforeSim
  /\ present = FALSE
  /\ net \in NetStatuses
  /\ ctx = NoContexts
  /\ restarted = FALSE /\ replugged = FALSE
  /\ moves = 0
  /\ listed = NotListed /\ connecting = {} /\ missed = FALSE
  /\ q = <<Signal("Init", None, TRUE)>>

SystemNext == Daemon \/ GetModems \/ Deliver \/ Connect

\* Only Deliver shortens q, and when q is not empty it can, once GetModems has
\* answered and the last handler has connected: this is weak fairness of the
\* event loop, in a form whose ENABLED is cheap to evaluate.
HandleSignal ==
  /\ q # <<>>
  /\ \E keep \in SUBSET (1..(Len(q) - 1)) : q' = SelectAt(Tail(q), keep)

SystemSpec == SystemInit /\ [][SystemNext]_vars /\ WF_q(HandleSignal) /\ WF_vars(Connect)

----------------------------------------------------------------------------
(* Properties.                                                             *)

\* The system implements the open bridge: every step of it is one that
\* OfonoBridge allows when oFono may answer anything, or leaves the bridge
\* alone, so that what is proved of OfonoBridge holds here.  The refinement
\* maps the bridge to itself and forgets the daemon and the signals.
ImplementsBridge == Spec

\* The word of the status of the network is shown.  When that status is
\* Offline "no-sim" may be shown for it, with a SIM in its place: reset_sim may
\* set up the SIM again, which sets the status Offline, and publishes "no-sim"
\* after that (450-451); setting Offline once more changes nothing (377).
ShowsNetwork ==
  \/ b.pub.RegistrationStatus = ckit_status_[map_status(net)]
  \/ map_status(net) = "Offline" /\ b.pub.RegistrationStatus = "no-sim"

\* Every signal has been handled, and none was emitted in a window.
Settled == q = <<>> /\ ~missed

\* When every signal has been handled and the modem offers a network, the
\* status shown is that network's: whatever the order in which the SIM, the
\* power, the interfaces and the status changed, none of the changes was lost
\* (setup_network connects before it reads, 627-640), unless the modem or the
\* SIM changed between a read and its connect (581-601, 784-803).
NetworkShown ==
  Settled /\ Steady /\ Offers("NetworkRegistration") => ShowsNetwork

\* When every signal has been handled and no network is offered, none is
\* shown: not after oFono restarted, nor after its modem was replaced, unless
\* both happened (connect_manager then drops the signal ModemRemoved, 579-601)
\* or it may have come back with another modem: a signal here does not say
\* which modem's proxy receives it, and the bridge holds proxies of one (535);
\* and unless a change was missed.
NoNetworkShown ==
  (/\ Settled
   /\ ~Offers("NetworkRegistration")
   /\ restarted => ~replugged /\ SingleModem)
  => b.pub.RegistrationStatus \notin {"home", "roam", "forbidden"}

\* No other MMS context is shown than the first one of a steady modem, and the
\* bridge knows that one: GetContexts and ContextAdded together lose none
\* (691-759).  None at all is shown when a reset of the SIM or of the network,
\* which takes back the whole namespace, came after it was (450, 461).
MmsShown ==
  Settled /\ Steady /\ Offers("ConnectionManager") =>
    /\ b.mmsContext_ = first_mms(ctx)
    /\ b.pub.MMSContext \in {0, first_mms(ctx)}

\* What the bridge shows of the modem, the signals once handled.
CellularShown == NetworkShown /\ NoNetworkShown /\ MmsShown

\* A daemon that stops changing is, at last, shown as it is, unless a change
\* fell between a read and its connect.  The event loop is fair to the signals
\* it has queued.
EventuallyShown ==
  <>[](~missed /\ Steady /\ Offers("NetworkRegistration") => ShowsNetwork)
============================================================================
