----------------------------- MODULE BackCover -----------------------------
(***************************************************************************)
(* BackCoverMonitor of src/src/back_cover/provider_back_cover.cpp: the     *)
(* property BackCover.attached.  A thread of the statefs server connects   *)
(* the property when it is opened, reads it, and disconnects it when it is *)
(* closed; while it is connected a thread of the monitor reads the events  *)
(* of an input device, keeps the position of a switch in m_val and         *)
(* notifies the server.  They share m_val under m_mutex, and m_fd and      *)
(* m_slot under nothing: connect sets these before the thread starts, and  *)
(* disconnect clears them after it has joined the thread it cancels.       *)
(*                                                                         *)
(* Cancellation is deferred (the default): a cancelled thread ends when it *)
(* reaches a cancellation point.  read(2) is one, on_changed may hold one, *)
(* locking a mutex is none.  A read interrupted or too short is repeated   *)
(* (321, 330), which is the same here as one that has not returned.        *)
(*                                                                         *)
(* The server is external: it connects a property that is not connected,   *)
(* disconnects one that is, and reads it in between; and its client reads  *)
(* the property when it opens it and after every notification.             *)
(***************************************************************************)
EXTENDS Naturals, Sequences

CONSTANTS MaxToggles,   \* how often the cover is put on or taken off
          MaxConnects   \* how often the property is opened

ASSUME BackCoverAssumption == MaxToggles \in Nat /\ MaxConnects \in Nat

None == "none"
Position == {"on", "off"}       \* of the cover; the events' values 1 and 0
Opposite(p) == IF p = "on" THEN "off" ELSE "on"

VARIABLES m_fd, m_slot, m_val, m_mutex, \* m_mutex: who holds it
          used, todo,       \* the property is open; what connect or
                            \* disconnect has still to do
          bits,             \* what EVIOCGSW has answered
          reader, cancelled, event,     \* run_thread
          reading, seen, notified,      \* the client
          dock, events, fd_open, failed,    \* the device and its descriptor
          toggles, connects

monitor == <<m_fd, m_slot, m_val, m_mutex>>
server == <<used, todo, bits, connects>>
thread == <<reader, cancelled, event>>
client == <<reading, seen, notified>>
device == <<dock, events, fd_open, failed, toggles>>
vars == <<monitor, server, thread, client, device>>

Alive == {"loop", "read", "lock", "locked", "notify"}

----------------------------------------------------------------------------
(* connect and disconnect, one step after the other.                       *)

\* mutant: the value is stored after the thread has started
connect_started == <<"find", "get", "start", "set">>

connect == <<"find", "get", "set", "start">>

\* mutant: the descriptor is closed to wake the thread up
disconnect_closing == <<"close", "cancel", "join", "clear">>

\* mutant: the thread is joined and not cancelled
disconnect_waiting == <<"join", "close", "clear">>

disconnect == <<"cancel", "join", "close", "clear">>

Doing(step) == todo # <<>> /\ Head(todo) = step
Done == todo' = Tail(todo) /\ UNCHANGED <<used, connects>>

\* the server gives up a connect that returned false or threw
GiveUp == todo' = <<>> /\ used' = FALSE /\ UNCHANGED <<bits, connects>>

Open == /\ ~used /\ todo = <<>> /\ connects < MaxConnects
        /\ used' = TRUE /\ todo' = connect /\ connects' = connects + 1
        /\ seen' = None /\ notified' = FALSE
        /\ UNCHANGED <<monitor, bits, thread, reading, device>>

Release == /\ used /\ todo = <<>> /\ ~reading
           /\ used' = FALSE /\ todo' = disconnect
           /\ UNCHANGED <<monitor, bits, connects, thread, client, device>>

FindDevice == /\ Doing("find") /\ Done
              /\ m_fd' = "fd" /\ m_slot' = "slot"
              /\ fd_open' = TRUE /\ events' = <<>>
              /\ UNCHANGED <<m_val, m_mutex, bits, thread, client, dock,
                             failed, toggles>>

NoDevice == /\ Doing("find") /\ GiveUp
            /\ UNCHANGED <<monitor, thread, client, device>>

\* readValue: the ioctl, and then the assignment; the mutex is not taken.
\* Since Linux 3.9 EVIOCGSW also drops the switch's events that are queued.
GetValue == /\ Doing("get") /\ Done
            /\ bits' = dock /\ failed' = FALSE
            /\ events' \in {events, <<>>}
            /\ UNCHANGED <<monitor, thread, client, dock, fd_open, toggles>>

GetValueFails == /\ Doing("get") /\ Done
                 /\ bits' = "off" /\ failed' = TRUE
                 /\ UNCHANGED <<monitor, thread, client, dock, events, fd_open,
                                toggles>>

SetValue == /\ Doing("set") /\ Done
            /\ m_val' = bits
            /\ UNCHANGED <<m_fd, m_slot, m_mutex, bits, thread, client, device>>

StartThread == /\ Doing("start") /\ Done
               /\ reader' = "loop" /\ cancelled' = FALSE
               /\ UNCHANGED <<monitor, bits, event, client, device>>

\* std::thread throws: the descriptor is closed, m_fd and m_slot stay
NoThread == /\ Doing("start") /\ GiveUp
            /\ fd_open' = FALSE
            /\ UNCHANGED <<monitor, thread, client, dock, events, failed, toggles>>

Cancel == /\ Doing("cancel") /\ Done
          /\ cancelled' = TRUE
          /\ UNCHANGED <<monitor, bits, reader, event, client, device>>

Join == /\ Doing("join") /\ Done
        /\ reader = "ended" /\ reader' = None
        /\ UNCHANGED <<monitor, bits, cancelled, event, client, device>>

Close == /\ Doing("close") /\ Done
         /\ fd_open' = FALSE /\ m_fd' = None
         /\ UNCHANGED <<m_slot, m_val, m_mutex, bits, thread, client, dock,
                        events, failed, toggles>>

Clear == /\ Doing("clear") /\ Done
         /\ m_slot' = None
         /\ UNCHANGED <<m_fd, m_val, m_mutex, bits, thread, client, device>>

----------------------------------------------------------------------------
(* run_thread                                                              *)

Loop == /\ reader = "loop"
        /\ reader' = IF m_fd = None \/ cancelled THEN "ended" ELSE "read"
        /\ UNCHANGED <<monitor, server, cancelled, event, client, device>>

\* read returns an event; only those of the switch matter
ReadEvent == /\ reader = "read" /\ events # <<>>
             /\ events' = Tail(events)
             /\ event' = IF Head(events) = "syn" THEN event ELSE Head(events)
             /\ reader' = IF m_fd = None THEN "ended"
                          ELSE IF Head(events) = "syn" THEN "loop" ELSE "lock"
             /\ UNCHANGED <<monitor, server, cancelled, client, dock, fd_open,
                            failed, toggles>>

\* the device fails, or is gone: the thread ends, and is not started again
ReadFails == /\ reader = "read"
             /\ reader' = "ended"
             /\ UNCHANGED <<monitor, server, cancelled, event, client, device>>

ReadCancelled == cancelled /\ ReadFails

Lock == /\ reader = "lock" /\ m_mutex = None
        /\ m_mutex' = "reader" /\ reader' = "locked"
        /\ UNCHANGED <<m_fd, m_slot, m_val, server, cancelled, event, client, device>>

\* mutant: the mutex is not unlocked before "continue"
Compare_locked ==
  /\ reader = "locked"
  /\ m_val' = event /\ failed' = FALSE
  /\ m_mutex' = IF m_val = event THEN m_mutex ELSE None
  /\ reader' = IF m_val = event THEN "loop" ELSE "notify"
  /\ UNCHANGED <<m_fd, m_slot, server, cancelled, event, client, dock, events,
                 fd_open, toggles>>

\* mutant: nobody is notified that the cover is taken off
Compare_quiet ==
  /\ reader = "locked"
  /\ m_val' = event /\ m_mutex' = None /\ failed' = FALSE
  /\ reader' = IF m_val = event \/ event = "off" THEN "loop" ELSE "notify"
  /\ UNCHANGED <<m_fd, m_slot, server, cancelled, event, client, dock, events,
                 fd_open, toggles>>

Compare ==
  /\ reader = "locked"
  /\ m_val' = event /\ m_mutex' = None /\ failed' = FALSE
  /\ reader' = IF m_val = event THEN "loop" ELSE "notify"
  /\ UNCHANGED <<m_fd, m_slot, server, cancelled, event, client, dock, events,
                 fd_open, toggles>>

Notify == /\ reader = "notify"
          /\ notified' = TRUE
          /\ reader' \in {"loop"} \cup IF cancelled THEN {"ended"} ELSE {}
          /\ UNCHANGED <<monitor, server, cancelled, event, reading, seen, device>>

----------------------------------------------------------------------------
(* The client and the device.                                              *)

BeginRead == /\ used /\ todo = <<>> /\ ~reading /\ m_mutex = None
             /\ notified \/ seen = None
             /\ m_mutex' = "server" /\ reading' = TRUE /\ notified' = FALSE
             /\ UNCHANGED <<m_fd, m_slot, m_val, server, thread, seen, device>>

EndRead == /\ reading
           /\ seen' = m_val /\ m_mutex' = None /\ reading' = FALSE
           /\ UNCHANGED <<m_fd, m_slot, m_val, server, thread, notified, device>>

Toggle == /\ toggles < MaxToggles
          /\ dock' = Opposite(dock) /\ toggles' = toggles + 1
          /\ events' = IF fd_open THEN events \o <<dock', "syn">> ELSE events
          /\ UNCHANGED <<monitor, server, thread, client, fd_open, failed>>

Init == /\ m_fd = None /\ m_slot = None /\ m_val = "off" /\ m_mutex = None
        /\ used = FALSE /\ todo = <<>> /\ bits = "off"
        /\ reader = None /\ cancelled = FALSE /\ event = "off"
        /\ reading = FALSE /\ seen = None /\ notified = FALSE
        /\ dock \in Position /\ events = <<>> /\ fd_open = FALSE
        /\ failed = FALSE /\ toggles = 0 /\ connects = 0

Connecting == \/ FindDevice \/ NoDevice \/ GetValue \/ GetValueFails
              \/ SetValue \/ StartThread \/ NoThread
Disconnecting == Cancel \/ Join \/ Close \/ Clear
RunThread == Loop \/ ReadEvent \/ ReadCancelled \/ Lock \/ Compare \/ Notify
Client == BeginRead \/ EndRead

Next == \/ Open \/ Release \/ Connecting \/ Disconnecting
        \/ RunThread \/ ReadFails \/ Client \/ Toggle

\* threads that can run do; opening, closing, toggling and failing need not be
Fairness == /\ WF_vars(Connecting) /\ WF_vars(Disconnecting)
            /\ WF_vars(RunThread) /\ WF_vars(Client)

Spec == Init /\ [][Next]_vars /\ Fairness

----------------------------------------------------------------------------
(* Properties.                                                             *)

\* while the thread runs, its descriptor is open and its slot is set: it
\* never reads a number that stands for another file, and never notifies
\* through a null slot (316, 344 against 277-280)
ReaderSafe == reader \in Alive => m_fd # None /\ fd_open /\ m_slot # None

\* a thread that has ended, by cancellation or not, has left the mutex free:
\* read() of the property cannot block on it for ever (265, 289, 336-343)
MutexFree == reader \in {None, "ended"} => m_mutex # "reader"

\* what the monitor can know of the cover: where an EVIOCGSW failed it takes it
\* to be off (253-256), until the switch moves
Perceived == IF failed THEN "off" ELSE dock

\* when every event is consumed and every notification answered, the client
\* has the position of the cover, whatever changed between the open, the
\* EVIOCGSW and the start of the thread (225-238, 334-346); but of a cover that
\* could not be read when the property was opened, and has not moved since, it
\* has "off", be it on or not (253-256)
CoverShown ==
  /\ used /\ todo = <<>> /\ seen # None /\ ~reading /\ ~notified
  /\ events = <<>> /\ reader = "read"
  => seen = Perceived

\* disconnect returns: the thread it joins always ends (262-281)
DisconnectReturns == (~used /\ todo # <<>>) ~> (todo = <<>>)

\* once the cover rests, a client of a running monitor gets its position, or
\* "off" for one that could not be read and has not moved since (253-256)
EventuallyShown ==
  <>[](~used \/ reader = "ended" \/ seen = Perceived)

=============================================================================
