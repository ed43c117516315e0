------------------------------ MODULE Keyboard ------------------------------
(***************************************************************************)
(* KeyboardNs of src/src/keyboard_generic/provider_keyboard_generic.cpp:   *)
(* whether a keyboard is there, out of the input devices that libudev      *)
(* lists and of its events.                                                *)
(*                                                                         *)
(* The constructor creates the monitor's socket, lists the devices, looks  *)
(* at each, arms the asynchronous read and starts the thread that runs the *)
(* I/O service.  An event names a device; what the device is, is read when *)
(* the event is handled.  The handler is wrapped in error_trace_nothrow:   *)
(* when it throws, the read is not armed again.                            *)
(*                                                                         *)
(* External: the kernel's devices, udevd, which sends each change after it *)
(* has happened, the socket, which forgets events when it is full and then *)
(* says so once, and is_keyboard of libcor, which reads sysfs.             *)
(***************************************************************************)
EXTENDS Naturals, FiniteSets, SequencesExt

CONSTANTS InputDevices,     \* paths of input devices
          KeyboardDevices,  \* those that are keyboards
          SocketSize,       \* how many events the socket holds
          MaxPlugs          \* how often a device comes or goes

ASSUME KeyboardAssumption == /\ IsFiniteSet(InputDevices)
                             /\ KeyboardDevices \subseteq InputDevices
                             /\ SocketSize \in Nat \ {0}
                             /\ MaxPlugs \in Nat

VARIABLES keyboards_, Available,    \* Available: the properties Present, Open
          constructing,     \* what the constructor has left to do
          armed, stopped,   \* a read is queued; io_service::stop was called
          monitor_thread_,  \* "none", "running", "ended" or "joined"
          destroying,       \* the destructor has been called
          plugged, announced,   \* the devices; udevd's events to be sent
          listening, socket, overrun, plugs

keyboardNs == <<keyboards_, Available, constructing, armed, stopped,
                monitor_thread_, destroying>>
inputs == <<plugged, announced, plugs>>
netlink == <<listening, socket, overrun>>
keyboardVars == <<keyboardNs, inputs, netlink>>

Todo(do, dev) == [do |-> do, dev |-> dev]
NoPath == ""
Plan(do) == Todo(do, NoPath)

\* mutant: the devices are listed before anyone listens to their events
construct_listing ==
  <<Plan("list"), Plan("monitor"), Plan("run"), Plan("thread")>>

construct == <<Plan("monitor"), Plan("list"), Plan("run"), Plan("thread")>>

Constructs(do) == constructing # <<>> /\ Head(constructing).do = do
built == constructing' = Tail(constructing) /\ UNCHANGED destroying

is_keyboard(dev) == dev \in plugged \cap KeyboardDevices

on_input_device(dev) ==
  /\ keyboards_' = IF is_keyboard(dev) THEN keyboards_ \cup {dev}
                   ELSE keyboards_ \ {dev}
  /\ Available' = IF keyboards_' = keyboards_ THEN Available
                  ELSE [Open |-> keyboards_' # {}, Present |-> keyboards_' # {}]

----------------------------------------------------------------------------
(* The constructor.                                                        *)

CreateMonitor == /\ Constructs("monitor") /\ built
                 /\ listening' = TRUE
                 /\ UNCHANGED <<keyboards_, Available, armed, stopped,
                                monitor_thread_, inputs, socket, overrun>>

\* for_each_device: the list is made first, each device is opened in its turn
ListDevices ==
  /\ Constructs("list")
  /\ constructing' = [i \in 1..Cardinality(plugged) |->
                        Todo("look", SetToSeq(plugged)[i])] \o Tail(constructing)
  /\ UNCHANGED <<keyboards_, Available, armed, stopped, monitor_thread_,
                 destroying, inputs, netlink>>

LookAtDevice == /\ Constructs("look") /\ built
                /\ Head(constructing).dev \in plugged
                /\ on_input_device(Head(constructing).dev)
                /\ UNCHANGED <<armed, stopped, monitor_thread_, inputs, netlink>>

\* there is no device with that path any more: its path is a null pointer, of
\* which no std::string can be made, and the constructor throws
LookAtNothing == /\ Constructs("look")
                 /\ Head(constructing).dev \notin plugged
                 /\ constructing' = <<>>
                 /\ monitor_thread_' = "joined" /\ listening' = FALSE
                 /\ UNCHANGED <<keyboards_, Available, armed, stopped, destroying,
                                inputs, socket, overrun>>

ArmRead == /\ Constructs("run") /\ built
           /\ armed' = TRUE
           /\ UNCHANGED <<keyboards_, Available, stopped, monitor_thread_, inputs, netlink>>

StartMonitorThread ==
  /\ Constructs("thread") /\ built
  /\ monitor_thread_' = "running"
  /\ UNCHANGED <<keyboards_, Available, armed, stopped, inputs, netlink>>

----------------------------------------------------------------------------
(* The thread: io_service::run returns when there is nothing to wait for.  *)

Readable == /\ monitor_thread_ = "running" /\ armed /\ ~stopped
            /\ UNCHANGED <<constructing, monitor_thread_, destroying, inputs, listening>>

OnInputEvent == /\ Readable
                /\ ~overrun /\ socket # <<>>
                /\ on_input_device(Head(socket))
                /\ socket' = Tail(socket)
                /\ UNCHANGED <<armed, stopped, overrun>>

\* the socket reports that it has lost events: there is no device, as in
\* LookAtNothing, but here the exception is caught and the read not repeated
OnOverrun == /\ Readable
             /\ overrun /\ overrun' = FALSE
             /\ armed' = FALSE
             /\ UNCHANGED <<keyboards_, Available, stopped, socket>>

OnAsioError == /\ Readable
               /\ stopped' = TRUE
               /\ UNCHANGED <<keyboards_, Available, armed, socket, overrun>>

RunReturns == /\ monitor_thread_ = "running"
              /\ ~armed \/ stopped
              /\ monitor_thread_' = "ended"
              /\ UNCHANGED <<keyboards_, Available, constructing, armed, stopped,
                             destroying, inputs, netlink>>

----------------------------------------------------------------------------
(* The destructor.                                                         *)

Destroy == /\ constructing = <<>> /\ ~destroying
           /\ monitor_thread_ \in {"running", "ended"}
           /\ destroying' = TRUE /\ stopped' = TRUE
           /\ UNCHANGED <<keyboards_, Available, constructing, armed,
                          monitor_thread_, inputs, netlink>>

JoinMonitorThread == /\ destroying /\ monitor_thread_ = "ended"
                     /\ monitor_thread_' = "joined" /\ listening' = FALSE
                     /\ UNCHANGED <<keyboards_, Available, constructing, armed,
                                    stopped, destroying, inputs, socket, overrun>>

----------------------------------------------------------------------------
(* The devices and udevd.                                                  *)

Plug == /\ plugs < MaxPlugs /\ plugs' = plugs + 1
        /\ \E d \in InputDevices :
             /\ plugged' = IF d \in plugged THEN plugged \ {d} ELSE plugged \cup {d}
             /\ announced' = Append(announced, d)
        /\ UNCHANGED <<keyboardNs, netlink>>

SendUdevEvent ==
  /\ announced # <<>> /\ announced' = Tail(announced)
  /\ LET full == Len(socket) = SocketSize
     IN  /\ socket' = IF listening /\ ~full THEN Append(socket, Head(announced))
                      ELSE socket
         /\ overrun' = (overrun \/ (listening /\ full))
  /\ UNCHANGED <<keyboardNs, plugged, plugs, listening>>

KeyboardInit ==
  /\ keyboards_ = {} /\ Available = [Open |-> FALSE, Present |-> FALSE]
  /\ constructing = construct
  /\ armed = FALSE /\ stopped = FALSE
  /\ monitor_thread_ = "none" /\ destroying = FALSE
  /\ plugged \in SUBSET InputDevices /\ announced = <<>> /\ plugs = 0
  /\ listening = FALSE /\ socket = <<>> /\ overrun = FALSE

Constructor == \/ CreateMonitor \/ ListDevices \/ LookAtDevice \/ LookAtNothing
               \/ ArmRead \/ StartMonitorThread
MonitorThread == OnInputEvent \/ OnOverrun \/ RunReturns

KeyboardNext == \/ Constructor \/ MonitorThread \/ OnAsioError
                \/ Destroy \/ JoinMonitorThread \/ Plug \/ SendUdevEvent

KeyboardFairness == /\ WF_keyboardVars(Constructor) /\ WF_keyboardVars(MonitorThread)
                    /\ WF_keyboardVars(JoinMonitorThread) /\ WF_keyboardVars(SendUdevEvent)

KeyboardSpec == KeyboardInit /\ [][KeyboardNext]_keyboardVars /\ KeyboardFairness

----------------------------------------------------------------------------
(* Properties.                                                             *)

\* A monitor whose read is armed, and was not stopped, goes on: the thread is
\* started after the read is queued (141-144).  When it has handled every
\* event, the keyboards are those that are there, whatever came and went
\* before, during and after the listing, and the properties say whether there
\* is one (134-171).
KeyboardsShown ==
  constructing = <<>> /\ armed /\ ~stopped =>
    /\ monitor_thread_ = "running"
    /\ announced = <<>> /\ socket = <<>> /\ ~overrun =>
         /\ keyboards_ = plugged \cap KeyboardDevices
         /\ Available = [Open |-> keyboards_ # {}, Present |-> keyboards_ # {}]

\* The destructor returns: the thread it joins ends (151-156).
KeyboardStops == destroying ~> monitor_thread_ = "joined"
============================================================================
