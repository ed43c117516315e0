--------------------------- MODULE ListenerProofs ---------------------------
(***************************************************************************)
(* Proofs about the three providers that start a thread of their own to    *)
(* wait for events: BackCover, Bme and Keyboard.                           *)
(***************************************************************************)
EXTENDS Providers, FiniteSetTheorems, SequenceTheorems, TLAPS

----------------------------------------------------------------------------
(***************************************************************************)
(* Proofs about BackCover, for every number of openings and of changes:    *)
(* the monitor's thread never outlives the descriptor and the slot it      *)
(* uses, and never leaves the mutex locked behind it; and a client that    *)
(* has been answered has seen the position of the cover.                   *)
(*                                                                         *)
(* None is inductive.  That the thread has its descriptor depends on       *)
(* where connect and disconnect are in their steps: the thread exists only *)
(* after the last step of connect and before the last but one of           *)
(* disconnect (ThreadWindow), and in that window the device is open        *)
(* (DeviceWindow).  That the mutex is free depends on who holds it and     *)
(* where it is (MutexOwner).  That the client has the position depends on  *)
(* what is queued, being compared and not notified yet (Followed, Seen).   *)
(***************************************************************************)

Reader == Alive \cup {None, "ended"}

\* what connect has left to do before, and after, it has found the device
Finding == {connect}
Found == {<<"get", "set", "start">>, <<"set", "start">>, <<"start">>}

\* what disconnect has left to do with the thread, and without it
Stopping == {disconnect, <<"join", "close", "clear">>}
Stopped == {<<"close", "clear">>, <<"clear">>}

StepsOK == todo \in {<<>>} \cup Finding \cup Found \cup Stopping \cup Stopped

UsedOK == /\ todo \in Finding \cup Found => used
          /\ todo \in Stopping \cup Stopped => ~used

ThreadWindow == /\ reader \in Reader
                /\ reader # None => \/ used /\ todo = <<>>
                                    \/ todo \in Stopping

DeviceWindow == \/ todo \in Found \cup Stopping
                \/ used /\ todo = <<>>
                => m_fd = "fd" /\ m_slot = "slot" /\ fd_open = TRUE

MutexOwner == /\ reader = "locked" <=> m_mutex = "reader"
              /\ reading = TRUE <=> m_mutex = "server"
              /\ reading \in BOOLEAN /\ used \in BOOLEAN
              /\ reading => used /\ todo = <<>>

IInv == StepsOK /\ UsedOK /\ ThreadWindow /\ DeviceWindow /\ MutexOwner

----------------------------------------------------------------------------

\* connect first looks for the device (225).
LEMMA FindingOrder ==
  ASSUME NEW s \in Finding
  PROVE  s # <<>> /\ Head(s) = "find" /\ Tail(s) \in Found
<1>1. s = connect BY DEF Finding
<1>2. Head(s) = "find" /\ s # <<>> BY <1>1 DEF connect
<1>3. Tail(s) = <<"get", "set", "start">> BY <1>1 DEF connect
<1> QED BY <1>2, <1>3 DEF Found

\* The thread is started by connect's last step (230-238).
LEMMA FoundOrder ==
  ASSUME NEW s \in Found
  PROVE  /\ s # <<>>
         /\ Head(s) \in {"get", "set", "start"}
         /\ Head(s) # "start" => Tail(s) \in Found
         /\ Head(s) = "start" => Tail(s) = <<>>
<1>1. CASE s = <<"get", "set", "start">> BY <1>1 DEF Found
<1>2. CASE s = <<"set", "start">> BY <1>2 DEF Found
<1>3. CASE s = <<"start">> BY <1>3 DEF Found
<1> QED BY <1>1, <1>2, <1>3 DEF Found

\* readValue, the assignment and the start of the thread follow one another.
LEMMA FoundNext ==
  /\ \A s \in Finding : Tail(s) # <<>> /\ Head(Tail(s)) = "get"
  /\ \A s \in Found : Head(s) = "get" => Tail(s) # <<>> /\ Head(Tail(s)) = "set"
  /\ \A s \in Found : Head(s) = "set" => Tail(s) # <<>> /\ Head(Tail(s)) = "start"
<1>1. Tail(connect) # <<>> /\ Head(Tail(connect)) = "get" BY DEF connect
<1>2. ASSUME NEW s \in Found, Head(s) = "get"
      PROVE  Tail(s) # <<>> /\ Head(Tail(s)) = "set"
  <2>1. s = <<"get", "set", "start">> BY <1>2 DEF Found
  <2> QED BY <2>1
<1>3. ASSUME NEW s \in Found, Head(s) = "set"
      PROVE  Tail(s) # <<>> /\ Head(Tail(s)) = "start"
  <2>1. s = <<"set", "start">> BY <1>3 DEF Found
  <2> QED BY <2>1
<1> QED BY <1>1, <1>2, <1>3 DEF Finding

\* disconnect first cancels and joins the thread (265-269).
LEMMA StoppingOrder ==
  ASSUME NEW s \in Stopping
  PROVE  /\ s # <<>>
         /\ Head(s) \in {"cancel", "join"}
         /\ Head(s) = "cancel" => Tail(s) \in Stopping
         /\ Head(s) = "join" => Tail(s) \in Stopped
<1>1. CASE s = disconnect BY <1>1 DEF Stopping, disconnect
<1>2. CASE s = <<"join", "close", "clear">> BY <1>2 DEF Stopped
<1> QED BY <1>1, <1>2 DEF Stopping

\* Only then it closes the descriptor and clears the slot (277-280).
LEMMA StoppedOrder ==
  ASSUME NEW s \in Stopped
  PROVE  /\ s # <<>>
         /\ Head(s) \in {"close", "clear"}
         /\ Head(s) = "close" => Tail(s) \in Stopped
         /\ Head(s) = "clear" => Tail(s) = <<>>
<1>1. CASE s = <<"close", "clear">> BY <1>1 DEF Stopped
<1>2. CASE s = <<"clear">> BY <1>2 DEF Stopped
<1> QED BY <1>1, <1>2 DEF Stopped

\* The five kinds of what is left to do exclude one another.
LEMMA TodoKinds ==
  /\ <<>> \notin Finding \cup Found \cup Stopping \cup Stopped
  /\ Finding \cap (Found \cup Stopping \cup Stopped) = {}
  /\ Found \cap (Stopping \cup Stopped) = {}
  /\ Stopping \cap Stopped = {}
<1>1. <<>> \notin Finding \cup Found \cup Stopping \cup Stopped
  BY FindingOrder, FoundOrder, StoppingOrder, StoppedOrder
<1>2. Finding \cap (Found \cup Stopping \cup Stopped) = {}
  BY FindingOrder, FoundOrder, StoppingOrder, StoppedOrder
<1>3. Found \cap (Stopping \cup Stopped) = {}
  BY FoundOrder, StoppingOrder, StoppedOrder
<1>4. Stopping \cap Stopped = {} BY StoppingOrder, StoppedOrder
<1> QED BY <1>1, <1>2, <1>3, <1>4

\* Nothing is connected at first.
LEMMA InitInv == Init => IInv
BY TodoKinds DEF Init, IInv, StepsOK, UsedOK, ThreadWindow, DeviceWindow, MutexOwner,
             Reader, None

\* Every step keeps the invariant.  Those of connect and disconnect move it
\* from one window to the next; those of the thread stay in its window, and
\* those of the client in the window where the property is connected.
LEMMA NextInv == IInv /\ [Next]_vars => IInv'
<1> SUFFICES ASSUME IInv, [Next]_vars PROVE IInv' OBVIOUS
<1> USE DEF IInv, StepsOK, UsedOK, ThreadWindow, DeviceWindow, MutexOwner,
            monitor, server, thread, client, device
<1>1. CASE Open
  BY <1>1, FindingOrder, FoundOrder, StoppingOrder, StoppedOrder
  DEF Open, Finding
<1>2. CASE Release
  BY <1>2, FindingOrder, FoundOrder, StoppingOrder
  DEF Release, Stopping
<1>3. CASE FindDevice
  BY <1>3, FindingOrder, FoundOrder, StoppingOrder, StoppedOrder
  DEF FindDevice, Doing, Done
<1>4. CASE NoDevice
  BY <1>4, FoundOrder, StoppingOrder, StoppedOrder
  DEF NoDevice, Doing, GiveUp, Finding
<1>5. CASE GetValue
  BY <1>5, FindingOrder, FoundOrder, StoppingOrder, StoppedOrder
  DEF GetValue, Doing, Done
<1>6. CASE GetValueFails
  BY <1>6, FindingOrder, FoundOrder, StoppingOrder, StoppedOrder
  DEF GetValueFails, Doing, Done
<1>7. CASE SetValue
  BY <1>7, FindingOrder, FoundOrder, StoppingOrder, StoppedOrder
  DEF SetValue, Doing, Done
<1>8. CASE StartThread
  BY <1>8, FindingOrder, FoundOrder, StoppingOrder, StoppedOrder
  DEF StartThread, Doing, Done, Reader, Alive, None
<1>9. CASE NoThread
  BY <1>9, FindingOrder, FoundOrder, StoppingOrder
  DEF NoThread, Doing, GiveUp
<1>10. CASE Cancel
  BY <1>10, FindingOrder, FoundOrder, StoppingOrder, StoppedOrder
  DEF Cancel, Doing, Done
<1>11. CASE Join
  BY <1>11, FindingOrder, FoundOrder, StoppingOrder, StoppedOrder
  DEF Join, Doing, Done, Reader, None
<1>12. CASE Close
  BY <1>12, FindingOrder, FoundOrder, StoppingOrder, StoppedOrder
  DEF Close, Doing, Done
<1>13. CASE Clear
  BY <1>13, FindingOrder, FoundOrder, StoppingOrder, StoppedOrder
  DEF Clear, Doing, Done
<1>14. CASE Loop BY <1>14 DEF Loop, Reader, Alive, None
<1>15. CASE ReadEvent BY <1>15 DEF ReadEvent, Reader, Alive, None
<1>16. CASE ReadFails BY <1>16 DEF ReadFails, Reader, None
<1>17. CASE Lock BY <1>17 DEF Lock, Reader, Alive, None
<1>18. CASE Compare BY <1>18 DEF Compare, Reader, Alive, None
<1>19. CASE Notify BY <1>19 DEF Notify, Reader, Alive, None
<1>20. CASE BeginRead BY <1>20 DEF BeginRead, None
<1>21. CASE EndRead BY <1>21 DEF EndRead, None
<1>22. CASE Toggle BY <1>22 DEF Toggle
<1>23. CASE UNCHANGED vars BY <1>23 DEF vars
<1> QED
  BY <1>1, <1>2, <1>3, <1>4, <1>5, <1>6, <1>7, <1>8, <1>9, <1>10, <1>11, <1>12,
     <1>13, <1>14, <1>15, <1>16, <1>17, <1>18, <1>19, <1>20, <1>21, <1>22,
     <1>23
  DEF Next, Connecting, Disconnecting, RunThread, ReadCancelled, Client

\* The invariant holds in every reachable state.
THEOREM InvHolds == Spec => []IInv
BY InitInv, NextInv, PTL DEF Spec

\* The thread uses neither a closed descriptor nor a cleared slot: it runs
\* only between the last step of connect and the join of disconnect.
LEMMA ReaderIsSafe == IInv => ReaderSafe
BY TodoKinds DEF IInv, ThreadWindow, DeviceWindow, ReaderSafe, Alive, None

\* So it never reads from a number that stands for another file.
THEOREM ReaderSafeHolds == Spec => []ReaderSafe
BY ReaderIsSafe, InvHolds, PTL

\* A thread that has ended has unlocked the mutex: it holds it only between
\* 336 and 343, where there is no cancellation point.
LEMMA MutexIsFree == IInv => MutexFree
BY DEF IInv, MutexOwner, MutexFree, None

\* So no reader of the property waits for a thread that is gone.
THEOREM MutexFreeHolds == Spec => []MutexFree
BY MutexIsFree, InvHolds, PTL

----------------------------------------------------------------------------
(* What the client has seen.                                               *)

Inputs == Position \cup {"syn"}

\* nothing but the ends of events; a position, the last, and the ends after it
Quiet(q) == \A i \in 1..Len(q) : q[i] = "syn"
Newest(q, p) == \E i \in 1..Len(q) : q[i] = p /\ \A j \in (i + 1)..Len(q) : q[j] = "syn"

\* once everything queued is read, where the position of the cover is, as far as
\* it could be read
Told == /\ Doing("set") => bits = Perceived
        /\ Doing("start") => m_val = Perceived
        /\ used /\ todo = <<>> =>
             /\ reader \in {"lock", "locked"} => event = dock
             /\ reader \in {"loop", "read", "notify"} => m_val = Perceived

Followed == /\ events \in Seq(Inputs) /\ dock \in Position
            /\ \/ todo \in Found
               \/ used /\ todo = <<>>
               => Newest(events, dock) \/ (Quiet(events) /\ Told)

\* what the client has seen is m_val, unless it has been or will be notified
Seen == /\ todo \in Finding \cup Found => seen = None /\ ~reading /\ ~notified
        /\ used /\ todo = <<>> /\ seen # None /\ ~reading /\ ~notified /\ reader # "notify"
           => seen = m_val

CoverInv == IInv /\ Followed /\ Seen
\* The first event is read: another position is the newest, or it was that one.
LEMMA ReadFirst ==
  ASSUME NEW q \in Seq(Inputs), q # <<>>, NEW p \in Position
  PROVE  /\ Head(q) \in Inputs /\ Tail(q) \in Seq(Inputs)
         /\ Quiet(q) => Head(q) = "syn" /\ Quiet(Tail(q))
         /\ Newest(q, p) => \/ Newest(Tail(q), p)
                            \/ Head(q) = p /\ Head(q) # "syn" /\ Quiet(Tail(q))
<1>1. /\ Head(q) = q[1] /\ Len(Tail(q)) = Len(q) - 1 /\ Len(q) \in Nat /\ Len(q) >= 1
      /\ \A i \in 1..Len(Tail(q)) : Tail(q)[i] = q[i + 1]
      /\ Head(q) \in Inputs /\ Tail(q) \in Seq(Inputs)
  OBVIOUS
<1>2. Quiet(q) => Head(q) = "syn" /\ Quiet(Tail(q)) BY <1>1 DEF Quiet
<1>3. ASSUME NEW i \in 1..Len(q), q[i] = p, \A j \in (i + 1)..Len(q) : q[j] = "syn"
      PROVE  \/ Newest(Tail(q), p)
             \/ Head(q) = p /\ Head(q) # "syn" /\ Quiet(Tail(q))
  <2>1. CASE i = 1
    <3>1. Quiet(Tail(q)) BY <1>1, <1>3, <2>1 DEF Quiet
    <3>2. p # "syn" BY DEF Position
    <3> QED BY <1>1, <1>3, <2>1, <3>1, <3>2
  <2>2. CASE i # 1
    <3>1. i - 1 \in 1..Len(Tail(q)) /\ Tail(q)[i - 1] = p BY <1>1, <1>3, <2>2
    <3>2. \A j \in ((i - 1) + 1)..Len(Tail(q)) : Tail(q)[j] = "syn" BY <1>1, <1>3, <2>2
    <3> QED BY <3>1, <3>2 DEF Newest
  <2> QED BY <2>1, <2>2
<1> QED BY <1>1, <1>2, <1>3 DEF Newest

\* A change of the cover is the newest position.
LEMMA Toggled ==
  ASSUME NEW q \in Seq(Inputs), NEW p \in Position
  PROVE  q \o <<p, "syn">> \in Seq(Inputs) /\ Newest(q \o <<p, "syn">>, p)
<1> DEFINE r == q \o <<p, "syn">>
<1>1. /\ r \in Seq(Inputs) /\ Len(r) = Len(q) + 2 /\ Len(q) \in Nat
      /\ r[Len(q) + 1] = p /\ r[Len(q) + 2] = "syn"
  BY DEF Inputs
<1> HIDE DEF r
<1>2. Len(q) + 1 \in 1..Len(r) /\ \A j \in ((Len(q) + 1) + 1)..Len(r) : r[j] = "syn"
  BY <1>1
<1>3. Newest(r, p) BY <1>1, <1>2 DEF Newest
<1> QED BY <1>1, <1>3 DEF r

\* A queue that is emptied holds no position.
LEMMA NothingQueued ==
  <<>> \in Seq(Inputs) /\ Quiet(<<>>) /\ \A p : ~Newest(<<>>, p)
BY DEF Quiet, Newest

\* The client has seen nothing of a cover that nobody looked at.
LEMMA CoverInit == Init => CoverInv
<1> SUFFICES ASSUME Init PROVE CoverInv OBVIOUS
<1>1. IInv BY InitInv
<1>2. Followed /\ Seen BY NothingQueued, TodoKinds DEF Init, Followed, Seen, None
<1> QED BY <1>1, <1>2 DEF CoverInv
\* Every step keeps the invariant.
LEMMA CoverNext == CoverInv /\ [Next]_vars => CoverInv'
<1> SUFFICES ASSUME CoverInv, [Next]_vars PROVE CoverInv' OBVIOUS
<1>0. IInv /\ IInv' /\ StepsOK /\ UsedOK /\ ThreadWindow /\ DeviceWindow /\ MutexOwner
  BY NextInv DEF CoverInv, IInv
<1> USE DEF CoverInv, Followed, Seen, Told, Perceived, monitor, server, thread, client, device
<1>1. CASE Open
  <2>1. todo' \in Finding /\ ~reading BY <1>0, <1>1 DEF Open, Finding, MutexOwner
  <2> QED BY <1>0, <1>1, <2>1, <1>0, TodoKinds DEF Open
<1>2. CASE Release
  <2>1. todo' \in Stopping BY <1>2 DEF Release, Stopping
  <2> QED BY <1>0, <1>2, <2>1, <1>0, TodoKinds DEF Release
<1>3. CASE FindDevice
  <2>1. todo \in Finding
    BY <1>0, <1>3, FoundOrder, StoppingOrder, StoppedOrder
    DEF FindDevice, Doing, StepsOK
  <2>2. todo' = Tail(todo) /\ todo' \in Found /\ todo' # <<>> /\ Head(todo') = "get"
    BY <1>3, <2>1, FindingOrder, FoundNext DEF FindDevice, Done
  <2>3. Told' BY <2>2, TodoKinds DEF Doing
  <2> QED BY <1>0, <1>3, <2>1, <2>2, <2>3, NothingQueued DEF FindDevice
<1>4. CASE NoDevice
  BY <1>0, <1>4, FindingOrder, FoundOrder, StoppingOrder, StoppedOrder, TodoKinds, NothingQueued
  DEF NoDevice, Doing, Done, GiveUp, StepsOK, UsedOK, ThreadWindow, DeviceWindow, MutexOwner, Reader, Alive, None
<1>5. CASE GetValue
  <2>1. todo \in Found /\ Head(todo) = "get"
    BY <1>0, <1>5, FindingOrder, StoppingOrder, StoppedOrder DEF GetValue, Doing, StepsOK
  <2>2. todo' \in Found /\ todo' # <<>> /\ Head(todo') = "set"
    BY <1>5, <2>1, FoundOrder, FoundNext DEF GetValue, Done
  <2>3. Told' BY <1>5, <2>2 DEF GetValue, Doing
  <2>4. Newest(events, dock) => Newest(events', dock) \/ Quiet(events')
    BY <1>5, NothingQueued DEF GetValue
  <2>5. Quiet(events) => Quiet(events') BY <1>5, NothingQueued DEF GetValue
  <2>6. events' \in Seq(Inputs) BY <1>5, NothingQueued DEF GetValue
  <2> QED BY <1>0, <1>5, <2>1, <2>2, <2>3, <2>4, <2>5, <2>6, TodoKinds DEF GetValue
<1>6. CASE GetValueFails
  <2>1. todo \in Found /\ Head(todo) = "get"
    BY <1>0, <1>6, FindingOrder, StoppingOrder, StoppedOrder DEF GetValueFails, Doing, StepsOK
  <2>2. todo' \in Found /\ todo' # <<>> /\ Head(todo') = "set"
    BY <1>6, <2>1, FoundOrder, FoundNext DEF GetValueFails, Done
  <2>3. Told' BY <1>6, <2>2 DEF GetValueFails, Doing
  <2> QED BY <1>0, <1>6, <2>1, <2>2, <2>3, TodoKinds DEF GetValueFails
<1>7. CASE SetValue
  <2>1. todo \in Found /\ Head(todo) = "set" /\ todo # <<>>
    BY <1>0, <1>7, FindingOrder, StoppingOrder, StoppedOrder DEF SetValue, Doing, StepsOK
  <2>2. todo' \in Found /\ todo' # <<>> /\ Head(todo') = "start"
    BY <1>7, <2>1, FoundOrder, FoundNext DEF SetValue, Done
  <2>3. Told => Told' BY <1>7, <2>1, <2>2 DEF SetValue, Doing
  <2> QED BY <1>0, <1>7, <2>1, <2>2, <2>3, TodoKinds DEF SetValue
<1>8. CASE StartThread
  <2>1. todo \in Found /\ Head(todo) = "start" /\ todo # <<>>
    BY <1>0, <1>8, FindingOrder, StoppingOrder, StoppedOrder DEF StartThread, Doing, StepsOK
  <2>2. todo' = <<>> BY <1>8, <2>1, FoundOrder DEF StartThread, Done
  <2>3. Told => Told' BY <1>8, <2>1, <2>2 DEF StartThread, Doing
  <2>4. Seen' BY <1>8, <2>1, <2>2, TodoKinds DEF StartThread
  <2> QED BY <1>0, <1>8, <2>1, <2>2, <2>3, <2>4, TodoKinds DEF StartThread
<1>9. CASE NoThread
  BY <1>0, <1>9, FindingOrder, FoundOrder, StoppingOrder, StoppedOrder, TodoKinds, NothingQueued
  DEF NoThread, Doing, Done, GiveUp, StepsOK, UsedOK, ThreadWindow, DeviceWindow, MutexOwner, Reader, Alive, None
<1>10. CASE Cancel
  BY <1>0, <1>10, FindingOrder, FoundOrder, StoppingOrder, StoppedOrder, TodoKinds, NothingQueued
  DEF Cancel, Doing, Done, GiveUp, StepsOK, UsedOK, ThreadWindow, DeviceWindow, MutexOwner, Reader, Alive, None
<1>11. CASE Join
  BY <1>0, <1>11, FindingOrder, FoundOrder, StoppingOrder, StoppedOrder, TodoKinds, NothingQueued
  DEF Join, Doing, Done, GiveUp, StepsOK, UsedOK, ThreadWindow, DeviceWindow, MutexOwner, Reader, Alive, None
<1>12. CASE Close
  BY <1>0, <1>12, FindingOrder, FoundOrder, StoppingOrder, StoppedOrder, TodoKinds, NothingQueued
  DEF Close, Doing, Done, GiveUp, StepsOK, UsedOK, ThreadWindow, DeviceWindow, MutexOwner, Reader, Alive, None
<1>13. CASE Clear
  BY <1>0, <1>13, FindingOrder, FoundOrder, StoppingOrder, StoppedOrder, TodoKinds, NothingQueued
  DEF Clear, Doing, Done, GiveUp, StepsOK, UsedOK, ThreadWindow, DeviceWindow, MutexOwner, Reader, Alive, None
<1>14. CASE Loop
  BY <1>0, <1>14, FindingOrder, FoundOrder, StoppingOrder, StoppedOrder, TodoKinds, NothingQueued
  DEF Loop, Doing, Done, GiveUp, StepsOK, UsedOK, ThreadWindow, DeviceWindow, MutexOwner, Reader, Alive, None
<1>15. CASE ReadEvent
  <2>1. /\ reader = "read" /\ events # <<>> /\ events' = Tail(events)
        /\ event' = (IF Head(events) = "syn" THEN event ELSE Head(events))
        /\ reader' = (IF m_fd = None THEN "ended"
                      ELSE IF Head(events) = "syn" THEN "loop" ELSE "lock")
        /\ UNCHANGED <<monitor, server, cancelled, client, dock, failed>>
    BY <1>15 DEF ReadEvent
  <2>2. todo \notin Found BY <1>0, <2>1, TodoKinds DEF ThreadWindow, None
  <2>3. Newest(events, dock) => \/ Newest(events', dock)
                                \/ Head(events) = dock /\ Head(events) # "syn" /\ Quiet(events')
    BY <2>1, ReadFirst
  <2>4. Quiet(events) => Head(events) = "syn" /\ Quiet(events') BY <2>1, ReadFirst
  <2>5. events' \in Seq(Inputs) BY <2>1, ReadFirst
  <2>6. Followed'
    <3>1. CASE Head(events) = "syn" BY <2>1, <2>2, <2>3, <2>4, <2>5, <3>1 DEF Doing
    <3>2. CASE Head(events) # "syn" BY <2>1, <2>2, <2>3, <2>4, <2>5, <3>2 DEF Doing
    <3> QED BY <3>1, <3>2
  <2>7. Seen' BY <2>1
  <2> QED BY <1>0, <1>0, <2>6, <2>7
<1>16. CASE ReadFails
  BY <1>0, <1>16, FindingOrder, FoundOrder, StoppingOrder, StoppedOrder, TodoKinds, NothingQueued
  DEF ReadFails, Doing, Done, GiveUp, StepsOK, UsedOK, ThreadWindow, DeviceWindow, MutexOwner, Reader, Alive, None
<1>17. CASE Lock
  BY <1>0, <1>17, FindingOrder, FoundOrder, StoppingOrder, StoppedOrder, TodoKinds, NothingQueued
  DEF Lock, Doing, Done, GiveUp, StepsOK, UsedOK, ThreadWindow, DeviceWindow, MutexOwner, Reader, Alive, None
<1>18. CASE Compare
  BY <1>0, <1>18, FindingOrder, FoundOrder, StoppingOrder, StoppedOrder, TodoKinds, NothingQueued
  DEF Compare, Doing, Done, GiveUp, StepsOK, UsedOK, ThreadWindow, DeviceWindow, MutexOwner, Reader, Alive, None
<1>19. CASE Notify
  BY <1>0, <1>19, FindingOrder, FoundOrder, StoppingOrder, StoppedOrder, TodoKinds, NothingQueued
  DEF Notify, Doing, Done, GiveUp, StepsOK, UsedOK, ThreadWindow, DeviceWindow, MutexOwner, Reader, Alive, None
<1>20. CASE BeginRead
  BY <1>0, <1>20, FindingOrder, FoundOrder, StoppingOrder, StoppedOrder, TodoKinds, NothingQueued
  DEF BeginRead, Doing, Done, GiveUp, StepsOK, UsedOK, ThreadWindow, DeviceWindow, MutexOwner, Reader, Alive, None
<1>21. CASE EndRead
  BY <1>0, <1>21, FindingOrder, FoundOrder, StoppingOrder, StoppedOrder, TodoKinds, NothingQueued
  DEF EndRead, Doing, Done, GiveUp, StepsOK, UsedOK, ThreadWindow, DeviceWindow, MutexOwner, Reader, Alive, None
<1>22. CASE Toggle
  <2>1. dock' \in Position BY <1>22 DEF Toggle, Opposite, Position
  <2>2. UNCHANGED <<monitor, server, thread, client, fd_open, failed>> BY <1>22 DEF Toggle
  <2>3. CASE fd_open
    <3>1. events' = events \o <<dock', "syn">> BY <1>22, <2>3 DEF Toggle
    <3>2. events' \in Seq(Inputs) /\ Newest(events', dock') BY <2>1, <3>1, Toggled
    <3> QED BY <1>0, <2>1, <2>2, <3>2
  <2>4. CASE ~fd_open
    <3>1. ~(todo \in Found) /\ ~(used /\ todo = <<>>) BY <1>0, <2>4 DEF DeviceWindow
    <3> QED BY <1>0, <1>22, <2>1, <2>2, <2>4, <3>1 DEF Toggle
  <2> QED BY <2>3, <2>4
<1>23. CASE UNCHANGED vars BY <1>0, <1>23 DEF vars, Doing
<1> QED BY <1>1, <1>2, <1>3, <1>4, <1>5, <1>6, <1>7, <1>8, <1>9, <1>10, <1>11, <1>12, <1>13, <1>14, <1>15, <1>16, <1>17, <1>18, <1>19, <1>20, <1>21, <1>22, <1>23
  DEF Next, Connecting, Disconnecting, RunThread, ReadCancelled, Client
\* A client that has been answered, when every event is consumed, has seen the
\* position of the cover, as far as it could be read: the value is stored before the thread starts, and what
\* happened since is queued, being compared, or notified (225-238, 334-346).
LEMMA CoverIsShown == CoverInv => CoverShown
<1> SUFFICES ASSUME CoverInv, used /\ todo = <<>> /\ seen # None /\ ~reading /\ ~notified,
                    events = <<>> /\ reader = "read"
             PROVE  seen = Perceived
  BY DEF CoverShown
<1>1. Told BY NothingQueued DEF CoverInv, Followed
<1>2. m_val = Perceived BY <1>1 DEF Told
<1>3. seen = m_val BY DEF CoverInv, Seen
<1> QED BY <1>2, <1>3

\* So the client of a running monitor has the position of the cover, or "off"
\* where it could not be read and has not moved since.
THEOREM CoverShownHolds == Spec => []CoverShown
BY CoverIsShown, CoverInit, CoverNext, PTL DEF Spec

\* The three properties hold of the provider beside the others.
THEOREM ProvidersCover == ProvidersSpec => [](ReaderSafe /\ MutexFree /\ CoverShown)
<1>1. ProvidersInit => CoverInv BY CoverInit DEF ProvidersInit
<1>2. [ProvidersNext]_allVars => [Next]_vars
  BY Zenon DEF ProvidersNext, allVars, backCover, BackCoverStep, BmeStep, KeyboardStep,
               MceStep, ProfileStep
<1>3. CoverInv => ReaderSafe /\ MutexFree /\ CoverShown
  BY ReaderIsSafe, MutexIsFree, CoverIsShown DEF CoverInv
<1> QED BY <1>1, <1>2, <1>3, CoverNext, PTL DEF ProvidersSpec

----------------------------------------------------------------------------
(***************************************************************************)
(* Proofs about Bme, for every set of statistics the server may have and   *)
(* however often it, its file and poll change: a waiting listener has a    *)
(* watch unless adding it failed, a crash is one of the two the code has,  *)
(* and what a waiting listener shows is the server's, unless a write was   *)
(* not heard.                                                              *)
(*                                                                         *)
(* None is inductive.  They depend on what the thread has left to do       *)
(* (Jobs), on what the queue of events still holds (Watched, Deletions),   *)
(* and on which of the variables the constructor has assigned (Opened).    *)
(***************************************************************************)

Events == {"DELETE_SELF", "IGNORED", "CLOSE_WRITE"}

Pending(q, ev) == \E i \in 1..Len(q) : q[i] = ev
Once(q, ev) == \A i, j \in 1..Len(q) : q[i] = ev /\ q[j] = ev => i = j

\* what is left to do before there is a watch, before the server has answered,
\* before the answer is shown, and before a deleted file is watched again
Opens == {initialize_bme, <<"create", "add", "query", "show">>,
          <<"add", "query", "show">>}
Asks == {<<"query", "show">>}
Shows == {<<"show">>}
Replaces == {replace_watch, <<"create", "add">>, <<"add">>}

Jobs == /\ job \in {<<>>} \cup Opens \cup Asks \cup Shows \cup Replaces
        /\ listener \in {"none", "running", "ended", "joined", "crashed"}
        /\ pollErrors \in Nat
        /\ inotify \in Seq(Events)
        /\ watch \in {"none", "file", "other"}
        /\ xchg \in {"open", "null", "wild"}
        /\ exit_handler \in BOOLEAN /\ reopenFailed \in BOOLEAN
        /\ stale \in BOOLEAN /\ lost \in BOOLEAN /\ addFailed \in BOOLEAN

\* the constructor has returned when the listener runs, and the listener when
\* the destructor joins it
Lives == /\ listener = "none" => life = "up" \/ ~exit_handler
         /\ life = "over" => listener \in {"none", "joined", "crashed"}
         /\ listener \in {"ended", "joined"} => job = <<>>
         /\ ~exit_handler => listener \in {"none", "crashed"} /\ job = <<>>
         /\ listener = "crashed" => reopenFailed \/ ~exit_handler

\* ufds[0] is the descriptor of an xchg, which is null only after a failure
Opened == /\ polled => xchg # "wild"
          /\ polled /\ xchg = "null" => reopenFailed \/ life = "over"
          /\ exit_handler /\ xchg = "wild" => job \in Opens
          /\ job \in Opens /\ pollErrors = 0 => ~polled

\* a deletion is told once, after the watch has gone
Deletions == /\ Once(inotify, "DELETE_SELF")
             /\ Pending(inotify, "DELETE_SELF") => watch = "none" /\ job \notin Replaces
             /\ job \in Replaces => watch = "none" /\ xchg = "open"

\* whoever has no watch will replace it, or could not
Watched == /\ xchg = "open" /\ watch = "none" =>
                \/ addFailed
                \/ Pending(inotify, "DELETE_SELF")
                \/ job \in Opens \cup Replaces
           /\ watch = "file" => file
           /\ xchg = "open" /\ watch # "file" => lost

\* a write that is not told any more has been read, or nobody heard it
Heard == xchg = "open" /\ ~stale /\ ~Pending(inotify, "CLOSE_WRITE") =>
           /\ job \in Shows => answer = statistics
           /\ job \in {<<>>} \cup Replaces => battery = batteryOf(statistics)

BmeInv == Jobs /\ Lives /\ Opened /\ Deletions /\ Watched /\ Heard

----------------------------------------------------------------------------
(* What is left to do, and what is left in the queue.                      *)

\* initialize_bme watches the file before it asks the server (95-112).
LEMMA OpensOrder ==
  ASSUME NEW s \in Opens
  PROVE  /\ s # <<>> /\ s[Len(s)] = "show"
         /\ Head(s) \in {"inotify", "create", "add"}
         /\ Head(s) # "add" => Tail(s) \in Opens
         /\ Head(s) = "add" => Tail(s) \in Asks
<1>1. CASE s = initialize_bme BY <1>1 DEF Opens, initialize_bme
<1>2. CASE s = <<"create", "add", "query", "show">> BY <1>2 DEF Opens
<1>3. CASE s = <<"add", "query", "show">> BY <1>3 DEF Asks
<1> QED BY <1>1, <1>2, <1>3 DEF Opens

\* readBatteryValues shows what was answered (171-213).
LEMMA AsksOrder ==
  ASSUME NEW s \in Asks
  PROVE  s # <<>> /\ s[Len(s)] = "show" /\ Head(s) = "query" /\ Tail(s) \in Shows
<1>1. s = <<"query", "show">> BY DEF Asks
<1> QED BY <1>1 DEF Shows

\* There is nothing left after that.
LEMMA ShowsOrder ==
  ASSUME NEW s \in Shows
  PROVE  s # <<>> /\ s[Len(s)] = "show" /\ Head(s) = "show" /\ Tail(s) = <<>>
<1>1. s = <<"show">> BY DEF Shows
<1> QED BY <1>1

\* A watch is replaced by adding the new one last (161-169).
LEMMA ReplacesOrder ==
  ASSUME NEW s \in Replaces
  PROVE  /\ s # <<>> /\ s[Len(s)] = "add"
         /\ Head(s) \in {"rm", "create", "add"}
         /\ Head(s) # "add" => Tail(s) \in Replaces
         /\ Head(s) = "add" => Tail(s) = <<>>
<1>1. CASE s = replace_watch BY <1>1 DEF Replaces, replace_watch
<1>2. CASE s = <<"create", "add">> BY <1>2 DEF Replaces
<1>3. CASE s = <<"add">> BY <1>3 DEF Replaces
<1> QED BY <1>1, <1>2, <1>3 DEF Replaces

\* The kinds of what is left to do exclude one another.
LEMMA JobKinds ==
  /\ <<>> \notin Opens \cup Asks \cup Shows \cup Replaces
  /\ Opens \cap (Asks \cup Shows \cup Replaces) = {}
  /\ Asks \cap (Shows \cup Replaces) = {}
  /\ Shows \cap Replaces = {}
<1>1. <<>> \notin Opens \cup Asks \cup Shows \cup Replaces
  BY OpensOrder, AsksOrder, ShowsOrder, ReplacesOrder
<1>2. Opens \cap (Asks \cup Shows \cup Replaces) = {}
  BY OpensOrder, AsksOrder, ShowsOrder, ReplacesOrder
<1>3. Asks \cap (Shows \cup Replaces) = {} BY AsksOrder, ShowsOrder, ReplacesOrder
<1>4. Shows \cap Replaces = {} BY ShowsOrder, ReplacesOrder
<1> QED BY <1>1, <1>2, <1>3, <1>4

\* The event that is read is pending no more, unless there is another.
LEMMA PendingTail ==
  ASSUME NEW q \in Seq(Events), q # <<>>, NEW ev
  PROVE  /\ Tail(q) \in Seq(Events) /\ Head(q) \in Events
         /\ Pending(q, ev) <=> Head(q) = ev \/ Pending(Tail(q), ev)
         /\ Once(q, ev) => Once(Tail(q), ev) /\ ~(Head(q) = ev /\ Pending(Tail(q), ev))
<1>1. /\ Head(q) = q[1] /\ Len(Tail(q)) = Len(q) - 1 /\ Len(q) \in Nat /\ Len(q) >= 1
      /\ \A i \in 1..Len(Tail(q)) : Tail(q)[i] = q[i + 1]
      /\ Tail(q) \in Seq(Events) /\ Head(q) \in Events
  OBVIOUS
<1>2. Pending(q, ev) => Head(q) = ev \/ Pending(Tail(q), ev)
  <2> SUFFICES ASSUME NEW i \in 1..Len(q), q[i] = ev, i # 1 PROVE Pending(Tail(q), ev)
    BY <1>1 DEF Pending
  <2>1. i - 1 \in 1..Len(Tail(q)) /\ Tail(q)[i - 1] = ev BY <1>1
  <2> QED BY <2>1 DEF Pending
<1>3. Head(q) = ev => Pending(q, ev) BY <1>1 DEF Pending
<1>4. Pending(Tail(q), ev) => Pending(q, ev)
  <2> SUFFICES ASSUME NEW i \in 1..Len(Tail(q)), Tail(q)[i] = ev PROVE Pending(q, ev)
    BY DEF Pending
  <2>1. i + 1 \in 1..Len(q) /\ q[i + 1] = ev BY <1>1
  <2> QED BY <2>1 DEF Pending
<1>5. Once(q, ev) => Once(Tail(q), ev)
  <2> SUFFICES ASSUME Once(q, ev), NEW i \in 1..Len(Tail(q)), NEW j \in 1..Len(Tail(q)),
                      Tail(q)[i] = ev, Tail(q)[j] = ev
               PROVE  i = j
    BY DEF Once
  <2>1. /\ i + 1 \in 1..Len(q) /\ q[i + 1] = ev
        /\ j + 1 \in 1..Len(q) /\ q[j + 1] = ev
    BY <1>1
  <2>2. i + 1 = j + 1 BY <2>1 DEF Once
  <2> QED BY <2>2, <1>1
<1>6. Once(q, ev) /\ Head(q) = ev => ~Pending(Tail(q), ev)
  <2> SUFFICES ASSUME Once(q, ev), q[1] = ev, NEW i \in 1..Len(Tail(q)), Tail(q)[i] = ev
               PROVE  FALSE
    BY <1>1 DEF Pending
  <2>1. i + 1 \in 1..Len(q) /\ q[i + 1] = ev /\ 1 \in 1..Len(q) BY <1>1
  <2>2. i + 1 = 1 BY <2>1 DEF Once
  <2> QED BY <2>2
<1> QED BY <1>1, <1>2, <1>3, <1>4, <1>5, <1>6

\* What comes to the queue is pending, with what was before it.
LEMMA PendingAppend ==
  ASSUME NEW q \in Seq(Events), NEW e \in Events, NEW ev
  PROVE  /\ Append(q, e) \in Seq(Events)
         /\ Pending(Append(q, e), ev) <=> Pending(q, ev) \/ e = ev
         /\ Once(q, ev) /\ ~(e = ev /\ Pending(q, ev)) => Once(Append(q, e), ev)
<1>1. /\ Len(Append(q, e)) = Len(q) + 1 /\ Len(q) \in Nat
      /\ \A i \in 1..Len(q) : Append(q, e)[i] = q[i]
      /\ Append(q, e)[Len(q) + 1] = e /\ Append(q, e) \in Seq(Events)
  OBVIOUS
<1>2. \A i : i \in 1..Len(Append(q, e)) <=> i \in 1..Len(q) \/ i = Len(q) + 1 BY <1>1
<1>3. Pending(Append(q, e), ev) <=> Pending(q, ev) \/ e = ev BY <1>1, <1>2 DEF Pending
<1>4. Once(q, ev) /\ ~(e = ev /\ Pending(q, ev)) => Once(Append(q, e), ev)
  BY <1>1, <1>2 DEF Once, Pending
<1> QED BY <1>1, <1>3, <1>4

\* A deletion and the end of its watch come together.
LEMMA PendingBoth ==
  ASSUME NEW q \in Seq(Events), NEW d \in Events, NEW e \in Events
  PROVE  q \o <<d, e>> = Append(Append(q, d), e)
OBVIOUS

\* Nothing is pending in an empty queue.
LEMMA PendingEmpty ==
  ASSUME NEW ev PROVE <<>> \in Seq(Events) /\ ~Pending(<<>>, ev) /\ Once(<<>>, ev)
BY DEF Pending, Once

----------------------------------------------------------------------------
(* The invariant.                                                          *)

\* The constructor has yet to open anything.
LEMMA BmeInvInit == BmeInit => BmeInv
<1> SUFFICES ASSUME BmeInit PROVE BmeInv OBVIOUS
<1> USE DEF BmeInit
<1>1. inotify \in Seq(Events) /\ \A ev : ~Pending(inotify, ev) /\ Once(inotify, ev)
  BY PendingEmpty
<1>2. initialize_bme \in Opens BY DEF Opens
<1>3. Jobs BY <1>1, <1>2 DEF Jobs
<1>4. Lives /\ Opened BY <1>2 DEF Lives, Opened
<1>5. Deletions BY <1>1, <1>2, JobKinds DEF Deletions
<1>6. Watched /\ Heard BY DEF Watched, Heard
<1> QED BY <1>3, <1>4, <1>5, <1>6 DEF BmeInv

\* A write is pending when the file is watched, and otherwise nobody hears it.
LEMMA FileWritten ==
  ASSUME BmeInv, WriteFile, UNCHANGED <<xchg, job, addFailed>>
  PROVE  /\ inotify' \in Seq(Events) /\ stale' \in BOOLEAN /\ Deletions' /\ Watched'
         /\ watch = "file" => Pending(inotify', "CLOSE_WRITE")
         /\ xchg = "open" /\ watch # "file" => stale'
<1> USE DEF BmeInv, Jobs
<1>1. /\ file' = TRUE /\ UNCHANGED <<watch, lost>> /\ (watch = "file" => file)
      /\ (stale' = TRUE <=> stale \/ lost) /\ stale' \in BOOLEAN
  BY DEF WriteFile, Watched
<1>2. /\ inotify' \in Seq(Events)
      /\ watch = "file" => Pending(inotify', "CLOSE_WRITE")
      /\ Once(inotify', "DELETE_SELF")
      /\ Pending(inotify', "DELETE_SELF") <=> Pending(inotify, "DELETE_SELF")
  <2>1. CASE watch # "file" BY <2>1 DEF WriteFile, Deletions
  <2>2. CASE inotify' = Append(inotify, "CLOSE_WRITE")
    BY <2>2, PendingAppend DEF Deletions, Events
  <2>3. CASE inotify' = inotify /\ inotify # <<>> /\ inotify[Len(inotify)] = "CLOSE_WRITE"
    BY <2>3 DEF Deletions, Pending
  <2> QED BY <1>1, <2>1, <2>2, <2>3 DEF WriteFile
<1>3. Deletions' /\ Watched' BY <1>1, <1>2 DEF Deletions, Watched
<1>4. xchg = "open" /\ watch # "file" => stale' BY <1>1 DEF Watched
<1> QED BY <1>1, <1>2, <1>3, <1>4

\* Every step keeps the invariant.
LEMMA BmeInvNext == BmeInv /\ [BmeNext]_bmeVars => BmeInv'
<1> SUFFICES ASSUME BmeInv, [BmeNext]_bmeVars PROVE BmeInv' OBVIOUS
<1> USE DEF BmeInv, Jobs, Lives, Opened, Deletions, Watched, Heard, batteryNs, kernel, bmeServer, past
<1>1. CASE InotifyInit
  BY <1>1, OpensOrder, AsksOrder, ShowsOrder, ReplacesOrder, JobKinds, PendingEmpty, PendingAppend, PendingTail
  DEF InotifyInit, At, Proceed, Return, Opening, Polling, ServerMove, WriteFile
<1>2. CASE XchgFails
  <2>1. job \in Opens \cup Replaces /\ (Opening <=> job \in Opens)
    BY <1>2, OpensOrder, AsksOrder, ShowsOrder, ReplacesOrder, JobKinds
    DEF XchgFails, At, Opening
  <2>2. CASE job \in Opens
    <3>1. polled => reopenFailed'
      <4>1. CASE pollErrors = 0 BY <4>1, <2>2
      <4>2. CASE pollErrors > 0 BY <4>2, <1>2, <2>1, <2>2 DEF XchgFails
      <4> QED BY <4>1, <4>2
    <3>2. /\ job' = <<>> /\ xchg' = "null" /\ (reopenFailed => reopenFailed')
          /\ reopenFailed' \in BOOLEAN
          /\ UNCHANGED <<battery, answer, polled, kernel, bmeServer, lost, stale, addFailed>>
          /\ UNCHANGED <<exit_handler, listener, life, pollErrors>>
      BY <1>2, <2>1, <2>2 DEF XchgFails, Return
    <3> QED BY <3>1, <3>2, <2>2, JobKinds
  <2>3. CASE job \in Replaces
    BY <1>2, <2>1, <2>3, JobKinds DEF XchgFails, Return
  <2> QED BY <2>1, <2>2, <2>3
<1>3. CASE CreateFile
  BY <1>3, OpensOrder, AsksOrder, ShowsOrder, ReplacesOrder, JobKinds, PendingEmpty, PendingAppend, PendingTail
  DEF CreateFile, At, Proceed, Return, Opening, Polling, ServerMove, WriteFile
<1>4. CASE AddWatch
  <2>1. job \in Opens \cup Replaces /\ (Opening <=> job \in Opens) /\ Head(job) = "add"
    BY <1>4, OpensOrder, AsksOrder, ShowsOrder, ReplacesOrder, JobKinds
    DEF AddWatch, At, Opening
  <2>2. CASE job \in Opens
    BY <1>4, <2>1, <2>2, OpensOrder, JobKinds, PendingEmpty DEF AddWatch, Proceed
  <2>3. CASE job \in Replaces
    BY <1>4, <2>1, <2>3, ReplacesOrder, JobKinds DEF AddWatch, Proceed
  <2> QED BY <2>1, <2>2, <2>3
<1>5. CASE RemoveWatch
  BY <1>5, OpensOrder, AsksOrder, ShowsOrder, ReplacesOrder, JobKinds, PendingEmpty, PendingAppend, PendingTail
  DEF RemoveWatch, At, Proceed, Return, Opening, Polling, ServerMove, WriteFile
<1>6. CASE Query
  BY <1>6, OpensOrder, AsksOrder, ShowsOrder, ReplacesOrder, JobKinds, PendingEmpty, PendingAppend, PendingTail, ZenonT(40)
  DEF Query, At, Proceed, Return, Opening, Polling, ServerMove, WriteFile
<1>7. CASE ShowBattery
  <2>1. job \in Shows /\ job' = <<>>
    BY <1>7, OpensOrder, AsksOrder, ShowsOrder, ReplacesOrder
    DEF ShowBattery, At, Proceed
  <2>2. Heard' BY <1>7, <2>1, JobKinds DEF ShowBattery, Proceed
  <2> QED BY <1>7, <2>1, <2>2, JobKinds DEF ShowBattery, Proceed
<1>8. CASE QueryFails
  <2>1. job \in Asks /\ job' = <<>>
    BY <1>8, OpensOrder, AsksOrder, ShowsOrder, ReplacesOrder
    DEF QueryFails, At, Return
  <2>2. stale' = TRUE
    <3>1. \A a \in Answers : WellFormed(a) => bme_stat_get(a)
      BY DEF Answers, WellFormed, bme_stat_get, bme_rc_recv, StatSize
    <3> QED BY <1>8, <3>1 DEF QueryFails
  <2> QED BY <1>8, <2>1, <2>2, JobKinds DEF QueryFails, Return
<1>9. CASE StartListening
  BY <1>9, OpensOrder, AsksOrder, ShowsOrder, ReplacesOrder, JobKinds, PendingEmpty, PendingAppend, PendingTail
  DEF StartListening, At, Proceed, Return, Opening, Polling, ServerMove, WriteFile
<1>10. CASE PollExit
  BY <1>10, OpensOrder, AsksOrder, ShowsOrder, ReplacesOrder, JobKinds, PendingEmpty, PendingAppend, PendingTail
  DEF PollExit, At, Proceed, Return, Opening, Polling, ServerMove, WriteFile
<1>11. CASE PollEvent
  <2>1. job = <<>> /\ listener = "running" /\ inotify # <<>> BY <1>11 DEF PollEvent, Polling
  <2>2. CASE xchg # "open"
    BY <1>11, <2>1, <2>2 DEF PollEvent
  <2>3. CASE xchg = "open"
    <3>1. Head(inotify) \in Events /\ job' = onBMEEvent(Head(inotify)) /\ inotify' = Tail(inotify)
      BY <1>11, <2>1, <2>3, PendingTail DEF PollEvent
    <3>2. CASE Head(inotify) = "DELETE_SELF"
      <4>1. job' \in Replaces BY <3>1, <3>2 DEF onBMEEvent, Replaces
      <4> QED BY <1>11, <2>1, <2>3, <3>1, <3>2, <4>1, PendingTail, JobKinds DEF PollEvent
    <3>3. CASE Head(inotify) = "IGNORED"
      <4>1. job' = <<>> BY <3>1, <3>3 DEF onBMEEvent
      <4> QED BY <1>11, <2>1, <2>3, <3>1, <3>3, <4>1, PendingTail, JobKinds DEF PollEvent
    <3>4. CASE Head(inotify) = "CLOSE_WRITE"
      <4>1. job' \in Asks BY <3>1, <3>4 DEF onBMEEvent, Asks
      <4> QED BY <1>11, <2>1, <2>3, <3>1, <3>4, <4>1, PendingTail, JobKinds DEF PollEvent
    <3> QED BY <3>1, <3>2, <3>3, <3>4 DEF Events
  <2> QED BY <2>2, <2>3
<1>12. CASE PollFails
  <2>1. job = <<>> /\ job' \in Opens /\ pollErrors' # 0
    BY <1>12 DEF PollFails, Polling, Opens
  <2> QED BY <1>12, <2>1, JobKinds DEF PollFails, Polling
<1>13. CASE Destruct
  BY <1>13, OpensOrder, AsksOrder, ShowsOrder, ReplacesOrder, JobKinds, PendingEmpty, PendingAppend, PendingTail
  DEF Destruct, At, Proceed, Return, Opening, Polling, ServerMove, WriteFile
<1>14. CASE JoinListener
  BY <1>14, OpensOrder, AsksOrder, ShowsOrder, ReplacesOrder, JobKinds, PendingEmpty, PendingAppend, PendingTail
  DEF JoinListener, At, Proceed, Return, Opening, Polling, ServerMove, WriteFile
<1>15. CASE CloseXchg
  <2>1. /\ xchg' = "null" /\ watch' = "none" /\ inotify' = <<>> /\ life' = "over"
        /\ UNCHANGED <<battery, answer, exit_handler, polled, job, pollErrors, bmeServer, past>>
        /\ listener \in {"joined", "none"} /\ life = "stopping"
        /\ listener' = listener \/ (xchg = "wild" /\ listener' = "crashed")
    BY <1>15 DEF CloseXchg
  <2>2. listener' \in {"joined", "none", "crashed"} BY <2>1
  <2>3. job = <<>> /\ (listener' = "crashed" => ~exit_handler) BY <2>1, JobKinds
  <2>4. Jobs' /\ Lives' BY <2>1, <2>2, <2>3, PendingEmpty
  <2>5. Opened' /\ Deletions' /\ Watched' /\ Heard' BY <2>1, <2>3, PendingEmpty, JobKinds
  <2> QED BY <2>4, <2>5
<1>16. CASE NewStatistics
  <2>1. WriteFile /\ UNCHANGED <<batteryNs, addFailed, reopenFailed>>
    BY <1>16 DEF NewStatistics, ServerMove
  <2>2. /\ inotify' \in Seq(Events) /\ stale' \in BOOLEAN /\ Deletions' /\ Watched'
        /\ watch = "file" => Pending(inotify', "CLOSE_WRITE")
        /\ xchg = "open" /\ watch # "file" => stale'
    BY <2>1, FileWritten
  <2>3. UNCHANGED <<watch, lost>> BY <2>1 DEF WriteFile
  <2>4. Heard' BY <2>1, <2>2
  <2> QED BY <2>1, <2>2, <2>3, <2>4
<1>17. CASE StartServer
  <2>1. WriteFile /\ UNCHANGED <<batteryNs, addFailed, reopenFailed>>
    BY <1>17 DEF StartServer, ServerMove
  <2>2. /\ inotify' \in Seq(Events) /\ stale' \in BOOLEAN /\ Deletions' /\ Watched'
        /\ watch = "file" => Pending(inotify', "CLOSE_WRITE")
        /\ xchg = "open" /\ watch # "file" => stale'
    BY <2>1, FileWritten
  <2>3. UNCHANGED <<watch, lost>> BY <2>1 DEF WriteFile
  <2>4. Heard' BY <2>1, <2>2
  <2> QED BY <2>1, <2>2, <2>3, <2>4
<1>18. CASE StopServer
  BY <1>18, OpensOrder, AsksOrder, ShowsOrder, ReplacesOrder, JobKinds, PendingEmpty, PendingAppend, PendingTail
  DEF StopServer, At, Proceed, Return, Opening, Polling, ServerMove, WriteFile
<1>19. CASE Hang
  BY <1>19, OpensOrder, AsksOrder, ShowsOrder, ReplacesOrder, JobKinds, PendingEmpty, PendingAppend, PendingTail
  DEF Hang, At, Proceed, Return, Opening, Polling, ServerMove, WriteFile
<1>20. CASE LoseName
  <2>1. /\ UNCHANGED <<batteryNs, addFailed, reopenFailed, inotify, statistics, stale>>
        /\ file' = FALSE
        /\ watch' = (IF watch = "file" THEN "other" ELSE watch)
        /\ (lost' = TRUE <=> lost \/ watch = "file") /\ lost' \in BOOLEAN
    BY <1>20 DEF LoseName, ServerMove
  <2> QED BY <2>1
<1>21. CASE LoseFile
  <2>1. /\ UNCHANGED <<batteryNs, addFailed, reopenFailed, statistics, stale, lost, file>>
        /\ watch = "other" /\ watch' = "none"
        /\ inotify' = Append(Append(inotify, "DELETE_SELF"), "IGNORED")
    BY <1>21, PendingBoth DEF LoseFile, ServerMove, Events
  <2> DEFINE q == Append(inotify, "DELETE_SELF")
  <2>2. /\ q \in Seq(Events) /\ Once(q, "DELETE_SELF") /\ Pending(q, "DELETE_SELF")
        /\ Pending(q, "CLOSE_WRITE") <=> Pending(inotify, "CLOSE_WRITE")
    BY <2>1, PendingAppend DEF Events
  <2>3. inotify' = Append(q, "IGNORED") BY <2>1
  <2> HIDE DEF q
  <2>4. /\ inotify' \in Seq(Events) /\ Once(inotify', "DELETE_SELF")
        /\ Pending(inotify', "DELETE_SELF")
        /\ Pending(inotify', "CLOSE_WRITE") <=> Pending(inotify, "CLOSE_WRITE")
    BY <2>2, <2>3, PendingAppend DEF Events
  <2> QED BY <2>1, <2>4
<1>22. CASE UNCHANGED bmeVars BY <1>22 DEF bmeVars
<1> QED BY <1>1, <1>2, <1>3, <1>4, <1>5, <1>6, <1>7, <1>8, <1>9, <1>10, <1>11, <1>12, <1>13, <1>14, <1>15, <1>16, <1>17, <1>18, <1>19, <1>20, <1>21, <1>22
  DEF BmeNext, Work, Listener, Destructor, Server
\* The invariant holds in every reachable state of the provider,
THEOREM BmeInvHolds == BmeSpec => []BmeInv
BY BmeInvInit, BmeInvNext, PTL DEF BmeSpec

\* and in every one of the providers side by side.
THEOREM ProvidersBmeInv == ProvidersSpec => []BmeInv
<1>1. ProvidersInit => BmeInit BY DEF ProvidersInit
<1>2. [ProvidersNext]_allVars => [BmeNext]_bmeVars
  BY Zenon DEF ProvidersNext, allVars, BackCoverStep, BmeStep, KeyboardStep, MceStep,
               ProfileStep
<1> QED BY <1>1, <1>2, BmeInvInit, BmeInvNext, PTL DEF ProvidersSpec

----------------------------------------------------------------------------
(* What follows.                                                           *)

\* A waiting listener has a watch unless adding it failed: a deletion is told
\* once, when the watch has gone already, so replacing the watch takes none
\* away, and whoever waits has handled it (161-169).
THEOREM WatchKeptHolds == (BmeSpec => []WatchKept) /\ (ProvidersSpec => []WatchKept)
<1>1. BmeInv => WatchKept
  BY JobKinds, PendingEmpty DEF BmeInv, Watched, WatchKept, Idle
<1> QED BY <1>1, BmeInvHolds, ProvidersBmeInv, PTL

\* The listener crashes only when poll failed and the file could not be watched
\* again, and the destructor only when there was no eventfd (75, 91, 99-101).
THEOREM BmeCrashExplainedHolds ==
  (BmeSpec => []BmeCrashExplained) /\ (ProvidersSpec => []BmeCrashExplained)
<1>1. BmeInv => BmeCrashExplained BY DEF BmeInv, Lives, BmeCrashExplained
<1> QED BY <1>1, BmeInvHolds, ProvidersBmeInv, PTL

\* What a waiting listener shows is what the server has, unless a write was not
\* heard or the last query failed: a watch is added before the server is asked,
\* and a write that comes in between is pending (95-112, 150-171).
THEOREM BmeShownHolds == (BmeSpec => []BmeShown) /\ (ProvidersSpec => []BmeShown)
<1>1. BmeInv => BmeShown
  BY JobKinds, PendingEmpty DEF BmeInv, Heard, BmeShown, Idle
<1> QED BY <1>1, BmeInvHolds, ProvidersBmeInv, PTL

----------------------------------------------------------------------------
(***************************************************************************)
(* Proofs about Keyboard, for every finite set of input devices, every     *)
(* size of the socket and any number of changes: a monitor that has        *)
(* handled every event shows the keyboards that are there.                 *)
(*                                                                         *)
(* That is not inductive: in between, a device the keyboards are wrong     *)
(* about is one the constructor has yet to look at, or one whose change    *)
(* udevd has yet to send or the monitor yet to handle (Mirrored), and who  *)
(* will do so depends on how far the constructor is (Building) and on what *)
(* the thread waits for (Running).                                         *)
(***************************************************************************)

Waits(q, e) == \E i \in 1..Len(q) : q[i] = e

Look(d) == Todo("look", d)
Todos == [do : {"monitor", "list", "look", "run", "thread"}, dev : InputDevices \cup {NoPath}]

\* before the devices are listed, while they are, and after
Listing(s) == /\ Len(s) >= 2
              /\ s[Len(s) - 1] = Plan("run") /\ s[Len(s)] = Plan("thread")
              /\ \A i \in 1..(Len(s) - 2) : \E d \in InputDevices : s[i] = Look(d)
Unlisted == {construct, Tail(construct)}
Started == {<<Plan("thread")>>, <<>>}

Building == /\ constructing \in Unlisted \cup Started \/ Listing(constructing)
            /\ constructing \in Seq(Todos)
            /\ armed => constructing \in Started
            /\ constructing # construct /\ monitor_thread_ # "joined" => listening
            /\ constructing # <<>> => monitor_thread_ = "none" /\ ~destroying

Running == /\ monitor_thread_ \in {"none", "running", "ended", "joined"}
           /\ destroying => stopped
           /\ constructing = <<>> /\ armed /\ ~stopped => monitor_thread_ = "running"

Devices == /\ plugged \in SUBSET InputDevices /\ keyboards_ \in SUBSET KeyboardDevices
           /\ announced \in Seq(InputDevices) /\ socket \in Seq(InputDevices)

\* nothing is lost yet
Following == /\ listening /\ ~overrun
             /\ constructing # <<>> \/ armed

Mirrored ==
  /\ constructing \in Unlisted => keyboards_ = {}
  /\ Following /\ constructing \notin Unlisted =>
       \A d \in KeyboardDevices :
         \/ d \in keyboards_ <=> d \in plugged
         \/ Waits(constructing, Look(d))
         \/ Waits(announced, d)
         \/ Waits(socket, d)

KeyboardsTold == Available = [Open |-> keyboards_ # {}, Present |-> keyboards_ # {}]

KeyboardInv == Building /\ Running /\ Devices /\ Mirrored /\ KeyboardsTold
----------------------------------------------------------------------------
(* What the constructor has left to do.                                    *)

\* The five things the constructor does are told apart by what they are.
LEMMA Plans ==
  /\ \A do : Plan(do).do = do
  /\ \A d : Look(d).do = "look" /\ Look(d).dev = d
  /\ \A do \in {"monitor", "list", "run", "thread"} : Plan(do) \in Todos
  /\ \A d \in InputDevices : Look(d) \in Todos
BY DEF Plan, Look, Todo, Todos

\* The monitor is there before the devices are listed (134-140).
LEMMA UnlistedOrder ==
  /\ construct # <<>> /\ Head(construct).do = "monitor"
  /\ Tail(construct) # <<>> /\ Head(Tail(construct)).do = "list"
  /\ Tail(construct) # construct
  /\ Tail(Tail(construct)) = <<Plan("run"), Plan("thread")>>
  /\ construct \in Seq(Todos) /\ Tail(construct) \in Seq(Todos)
<1>1. construct = <<Plan("monitor"), Plan("list"), Plan("run"), Plan("thread")>>
  BY DEF construct
<1>2. Tail(construct) = <<Plan("list"), Plan("run"), Plan("thread")>> BY <1>1
<1>3. Tail(Tail(construct)) = <<Plan("run"), Plan("thread")>>
  <2>1. \A a, b, c : Tail(<<a, b, c>>) = <<b, c>> OBVIOUS
  <2> QED BY <1>2, <2>1
<1>4. Len(construct) = 4 /\ Len(Tail(construct)) = 3 BY <1>1, <1>2
<1> QED BY <1>1, <1>2, <1>3, <1>4, Plans

\* The devices are looked at before the read is armed (140-141).
LEMMA ListingOrder ==
  ASSUME NEW s \in Seq(Todos), Listing(s)
  PROVE  /\ s # <<>> /\ Head(s).do \in {"look", "run"} /\ Tail(s) \in Seq(Todos)
         /\ Head(s).do = "look" => /\ Listing(Tail(s)) /\ Head(s).dev \in InputDevices
                                   /\ Head(s) = Look(Head(s).dev)
         /\ Head(s).do = "run" => /\ Tail(s) = <<Plan("thread")>>
                                  /\ \A d : ~Waits(s, Look(d))
<1>1. /\ Len(s) \in Nat /\ Len(s) >= 2 /\ s # <<>> /\ Head(s) = s[1]
      /\ Len(Tail(s)) = Len(s) - 1 /\ \A i \in 1..Len(Tail(s)) : Tail(s)[i] = s[i + 1]
      /\ Tail(s) \in Seq(Todos)
  BY DEF Listing
<1>2. CASE Len(s) = 2
  <2>1. s[1] = Plan("run") /\ s[2] = Plan("thread") BY <1>2 DEF Listing
  <2>2. Tail(s) = <<Plan("thread")>>
    <3> DEFINE t == Tail(s)
    <3>1. Len(t) = 1 /\ t \in Seq(Todos) BY <1>1, <1>2
    <3>2. t[1] = s[1 + 1] BY <1>1, <3>1
    <3> HIDE DEF t
    <3>3. t[1] = Plan("thread") BY <2>1, <3>2
    <3>4. t = <<t[1]>> BY <3>1
    <3> QED BY <3>3, <3>4 DEF t
  <2>3. \A d : ~Waits(s, Look(d)) BY <1>2, <2>1, Plans DEF Waits
  <2> QED BY <1>1, <2>1, <2>2, <2>3, Plans
<1>3. CASE Len(s) > 2
  <2>1. PICK d \in InputDevices : s[1] = Look(d) BY <1>1, <1>3 DEF Listing
  <2>2. Listing(Tail(s))
    <3>1. Len(Tail(s)) >= 2 BY <1>1, <1>3
    <3>2. Tail(s)[Len(Tail(s)) - 1] = Plan("run") /\ Tail(s)[Len(Tail(s))] = Plan("thread")
      BY <1>1, <1>3 DEF Listing
    <3>3. \A i \in 1..(Len(Tail(s)) - 2) : \E e \in InputDevices : Tail(s)[i] = Look(e)
      <4> SUFFICES ASSUME NEW i \in 1..(Len(Tail(s)) - 2)
                   PROVE  \E e \in InputDevices : Tail(s)[i] = Look(e)
        OBVIOUS
      <4>1. i + 1 \in 1..(Len(s) - 2) /\ Tail(s)[i] = s[i + 1] BY <1>1
      <4> QED BY <4>1 DEF Listing
    <3> QED BY <3>1, <3>2, <3>3 DEF Listing
  <2> QED BY <1>1, <2>1, <2>2, Plans
<1> QED BY <1>1, <1>2, <1>3

\* Whoever waits in a queue is its first or waits behind it.
LEMMA WaitsTail ==
  ASSUME NEW S, NEW q \in Seq(S), q # <<>>, NEW e, Waits(q, e)
  PROVE  e = Head(q) \/ Waits(Tail(q), e)
<1>1. PICK i \in 1..Len(q) : q[i] = e BY DEF Waits
<1>2. CASE i = 1 BY <1>1, <1>2
<1>3. CASE i # 1
  <2>1. i - 1 \in 1..Len(Tail(q)) /\ Tail(q)[i - 1] = e BY <1>1, <1>3
  <2> QED BY <2>1 DEF Waits
<1> QED BY <1>2, <1>3

\* Who comes to a queue waits in it, and so do those who did.
LEMMA WaitsAppend ==
  ASSUME NEW S, NEW q \in Seq(S), NEW d \in S
  PROVE  /\ Append(q, d) \in Seq(S) /\ Waits(Append(q, d), d)
         /\ \A e : Waits(q, e) => Waits(Append(q, d), e)
<1>1. /\ Len(Append(q, d)) = Len(q) + 1 /\ Len(q) \in Nat
      /\ \A i \in 1..Len(q) : Append(q, d)[i] = q[i]
      /\ Append(q, d)[Len(q) + 1] = d /\ Append(q, d) \in Seq(S)
  OBVIOUS
<1>2. Waits(Append(q, d), d) BY <1>1 DEF Waits
<1>3. \A e : Waits(q, e) => Waits(Append(q, d), e) BY <1>1 DEF Waits
<1> QED BY <1>1, <1>2, <1>3

\* Every element of a finite set is somewhere in the sequence made of it.
LEMMA SetToSeqAll ==
  ASSUME NEW S, IsFiniteSet(S)
  PROVE  /\ Cardinality(S) \in Nat
         /\ \A i \in 1..Cardinality(S) : SetToSeq(S)[i] \in S
         /\ \A x \in S : \E i \in 1..Cardinality(S) : SetToSeq(S)[i] = x
<1> DEFINE n == Cardinality(S)
<1>1. n \in Nat /\ ExistsBijection(1..n, S) BY FS_CardinalityType
<1>2. PICK g \in Bijection(1..n, S) : TRUE BY <1>1 DEF ExistsBijection
<1>3. g \in [1..n -> S] /\ IsInjective(g) BY <1>2 DEF Bijection, Injection
<1>4. SetToSeq(S) \in [1..n -> S] /\ IsInjective(SetToSeq(S)) BY <1>3 DEF SetToSeq
<1>5. SetToSeq(S) \in Injection(1..n, S) BY <1>4 DEF Injection
<1>6. Cardinality(1..n) = n BY <1>1, FS_Interval
<1>7. SetToSeq(S) \in Surjection(1..n, S) BY <1>1, <1>5, <1>6, FS_Injection
<1> QED BY <1>1, <1>4, <1>7 DEF Surjection
----------------------------------------------------------------------------
(* The invariant.                                                          *)

\* on_input_device makes the keyboards right about one device, and leaves the
\* others; the properties follow (159-171).
LEMMA Looked ==
  ASSUME Devices, KeyboardsTold, NEW dev, on_input_device(dev)
  PROVE  /\ keyboards_' \in SUBSET KeyboardDevices /\ KeyboardsTold'
         /\ \A d \in KeyboardDevices :
              d \in keyboards_' <=> IF d = dev THEN d \in plugged ELSE d \in keyboards_
<1>1. keyboards_' = IF is_keyboard(dev) THEN keyboards_ \cup {dev} ELSE keyboards_ \ {dev}
  BY DEF on_input_device
<1>2. keyboards_' \in SUBSET KeyboardDevices BY <1>1 DEF Devices, is_keyboard
<1>3. \A d \in KeyboardDevices :
        d \in keyboards_' <=> IF d = dev THEN d \in plugged ELSE d \in keyboards_
  BY <1>1 DEF is_keyboard
<1>4. KeyboardsTold' BY DEF KeyboardsTold, on_input_device
<1> QED BY <1>2, <1>3, <1>4

\* How far the constructor is when it takes a step.
LEMMA Constructing ==
  ASSUME Building, NEW do, Constructs(do)
  PROVE  /\ do = "monitor" => constructing = construct
         /\ do = "list" => constructing = Tail(construct)
         /\ do \in {"look", "run"} => Listing(constructing)
         /\ do = "thread" => constructing = <<Plan("thread")>>
         /\ constructing # <<>> /\ constructing \in Seq(Todos)
<1>1. constructing # <<>> /\ Head(constructing).do = do BY DEF Constructs
<1>2. Head(<<Plan("thread")>>).do = "thread" BY Plans
<1> QED BY <1>1, <1>2, UnlistedOrder, ListingOrder DEF Building, Unlisted, Started

\* What is left to do after a listing is neither to monitor nor to list.
LEMMA ListingKinds ==
  ASSUME NEW s \in Seq(Todos)
  PROVE  /\ Listing(s) \/ s \in Started => s \notin Unlisted
         /\ Listing(s) => s \notin Started /\ s # <<>>
         /\ construct # <<>> /\ Tail(construct) # <<>> /\ construct \notin Started
         /\ Tail(construct) \notin Started /\ \A d : ~Waits(<<>>, d)
         /\ <<>> \in Started /\ \A d : ~Waits(<<Plan("thread")>>, Look(d))
<1>1. Head(<<Plan("thread")>>).do = "thread" /\ Len(<<Plan("thread")>>) = 1 BY Plans
<1>2. Len(<<>>) = 0 OBVIOUS
<1>3. Listing(s) => s \notin Unlisted BY UnlistedOrder, ListingOrder DEF Unlisted
<1>4. s \in Started => s \notin Unlisted BY <1>1, UnlistedOrder DEF Unlisted, Started
<1>5. Listing(s) => s \notin Started /\ s # <<>> BY <1>1, <1>2, ListingOrder DEF Listing, Started
<1>6. construct \notin Started /\ Tail(construct) \notin Started
  BY <1>1, UnlistedOrder DEF Started
<1>7. \A d : ~Waits(<<>>, d) BY DEF Waits
<1>8. \A d : ~Waits(<<Plan("thread")>>, Look(d)) BY Plans DEF Waits
<1>9. <<>> \in Started BY DEF Started
<1> QED BY <1>3, <1>4, <1>5, <1>6, <1>7, <1>8, <1>9, UnlistedOrder

\* The constructor has yet to create the monitor.
LEMMA KeyboardInvInit == KeyboardInit => KeyboardInv
<1> SUFFICES ASSUME KeyboardInit PROVE KeyboardInv OBVIOUS
<1> USE DEF KeyboardInit
<1>1. constructing \in Unlisted /\ constructing \in Seq(Todos) /\ constructing # <<>>
  BY UnlistedOrder DEF Unlisted
<1>2. Building /\ Running BY <1>1 DEF Building, Running
<1>3. Devices BY DEF Devices
<1>4. Mirrored BY <1>1 DEF Mirrored
<1>5. KeyboardsTold
  <2>1. (keyboards_ # {}) = FALSE OBVIOUS
  <2> QED BY <2>1 DEF KeyboardsTold
<1> QED BY <1>2, <1>3, <1>4, <1>5 DEF KeyboardInv
\* The elements of a sequence that is followed by two more.
LEMMA Joined ==
  ASSUME NEW S, NEW p \in Seq(S), NEW q \in Seq(S), Len(q) = 2
  PROVE  /\ p \o q \in Seq(S) /\ Len(p) \in Nat /\ Len(p \o q) = Len(p) + 2
         /\ \A i \in 1..Len(p) : (p \o q)[i] = p[i]
         /\ (p \o q)[Len(p) + 1] = q[1] /\ (p \o q)[Len(p) + 2] = q[2]
<1>1. p \o q \in Seq(S) /\ Len(p \o q) = Len(p) + Len(q) /\ Len(p) \in Nat
  <2>1. Len(p) \in Nat OBVIOUS
  <2> QED BY <2>1, ConcatProperties, Zenon
<1>2. \A i \in 1..(Len(p) + Len(q)) :
        (p \o q)[i] = IF i <= Len(p) THEN p[i] ELSE q[i - Len(p)]
  BY ConcatProperties
<1> DEFINE r == p \o q
<1> HIDE DEF r
<1>3. \A i \in 1..Len(p) : r[i] = p[i] BY <1>1, <1>2 DEF r
<1>4. r[Len(p) + 1] = q[1]
  <2>1. Len(p) + 1 \in 1..(Len(p) + Len(q)) /\ (Len(p) + 1) - Len(p) = 1 BY <1>1
  <2> QED BY <1>1, <1>2, <2>1 DEF r
<1>5. r[Len(p) + 2] = q[2]
  <2>1. Len(p) + 2 \in 1..(Len(p) + Len(q)) /\ (Len(p) + 2) - Len(p) = 2 BY <1>1
  <2> QED BY <1>1, <1>2, <2>1 DEF r
<1> QED BY <1>1, <1>3, <1>4, <1>5 DEF r

\* The list that is made is of every device that is there (140).
LEMMA DevicesListed ==
  ASSUME KeyboardInv, ListDevices
  PROVE  /\ Listing(constructing)' /\ constructing' \in Seq(Todos)
         /\ \A d \in plugged : Waits(constructing', Look(d))
<1>1. constructing = Tail(construct)
  BY Constructing DEF KeyboardInv, ListDevices
<1> DEFINE n == Cardinality(plugged)
           f == SetToSeq(plugged)
           looks == [i \in 1..n |-> Todo("look", f[i])]
           rest == <<Plan("run"), Plan("thread")>>
           s == looks \o rest
<1>2. constructing' = s BY <1>1, UnlistedOrder DEF ListDevices
<1>3. IsFiniteSet(plugged) BY FS_Subset, KeyboardAssumption DEF KeyboardInv, Devices
<1>4. /\ n \in Nat /\ \A i \in 1..n : f[i] \in plugged
      /\ \A d \in plugged : \E i \in 1..n : f[i] = d
  BY <1>3, SetToSeqAll
<1>5. \A i \in 1..n : f[i] \in InputDevices BY <1>4 DEF KeyboardInv, Devices
<1> HIDE DEF n, f
<1>6. looks = [i \in 1..n |-> Look(f[i])] BY DEF Look
<1>7. looks \in Seq(Todos) /\ Len(looks) = n /\ \A i \in 1..n : looks[i] = Look(f[i])
  BY <1>4, <1>5, <1>6, Plans
<1>8. rest \in Seq(Todos) /\ Len(rest) = 2 /\ rest[1] = Plan("run") /\ rest[2] = Plan("thread")
  BY Plans
<1> HIDE DEF looks, rest
<1>9. /\ s \in Seq(Todos) /\ Len(s) = n + 2 /\ \A i \in 1..n : s[i] = Look(f[i])
      /\ s[n + 1] = Plan("run") /\ s[n + 2] = Plan("thread")
  BY <1>7, <1>8, Joined
<1> HIDE DEF s
<1>10. Listing(s)
  <2>1. Len(s) - 1 = n + 1 /\ Len(s) - 2 = n /\ Len(s) >= 2 BY <1>4, <1>9
  <2> QED BY <1>5, <1>9, <2>1 DEF Listing
<1>11. \A d \in plugged : Waits(s, Look(d))
  <2> SUFFICES ASSUME NEW d \in plugged PROVE Waits(s, Look(d)) OBVIOUS
  <2>1. PICK i \in 1..n : f[i] = d BY <1>4
  <2>2. i \in 1..Len(s) /\ s[i] = Look(d) BY <1>4, <1>9, <2>1
  <2> QED BY <2>2 DEF Waits
<1> QED BY <1>2, <1>9, <1>10, <1>11

\* Who waits for the constructor's look is looked at, or still waits.
LEMMA LookHandled ==
  ASSUME KeyboardInv, LookAtDevice
  PROVE  Building' /\ Mirrored' /\ KeyboardsTold' /\ keyboards_' \in SUBSET KeyboardDevices
<1> DEFINE dev == Head(constructing).dev
<1>1. Listing(constructing) /\ constructing \in Seq(Todos) /\ constructing # <<>>
      /\ Head(constructing).do = "look"
  BY Constructing DEF KeyboardInv, LookAtDevice, Constructs
<1>2. /\ Listing(constructing)' /\ constructing' = Tail(constructing) /\ Head(constructing) = Look(dev)
      /\ constructing' \in Seq(Todos)
  BY <1>1, ListingOrder DEF LookAtDevice, built
<1>3. /\ UNCHANGED <<armed, stopped, monitor_thread_, inputs, netlink, destroying>>
      /\ on_input_device(dev)
  BY DEF LookAtDevice, built
<1>4. /\ constructing \notin Started /\ constructing \notin Unlisted
      /\ constructing' \notin Started /\ constructing' \notin Unlisted /\ constructing' # <<>>
      /\ construct # <<>> /\ constructing # construct
  BY <1>1, <1>2, ListingKinds DEF Unlisted
<1>5. Building'
  BY <1>1, <1>2, <1>3, <1>4 DEF KeyboardInv, Building, netlink
<1> HIDE DEF dev
<1>6. /\ keyboards_' \in SUBSET KeyboardDevices /\ KeyboardsTold'
      /\ \A d \in KeyboardDevices :
           d \in keyboards_' <=> IF d = dev THEN d \in plugged ELSE d \in keyboards_
  BY <1>3, Looked DEF KeyboardInv
<1>7. \A d : Waits(constructing, Look(d)) => d = dev \/ Waits(constructing', Look(d))
  BY <1>1, <1>2, WaitsTail, Plans
<1>8. UNCHANGED <<plugged, announced, socket, listening, overrun>> BY <1>3 DEF inputs, netlink
<1>9. Mirrored'
  BY <1>1, <1>2, <1>3, <1>4, <1>6, <1>7, <1>8 DEF KeyboardInv, Mirrored, Following
<1> QED BY <1>5, <1>6, <1>9

\* Who waits for the monitor is looked at, or still waits.
LEMMA EventHandled ==
  ASSUME KeyboardInv, OnInputEvent
  PROVE  Mirrored' /\ KeyboardsTold' /\ Devices'
<1> DEFINE dev == Head(socket)
<1>1. /\ socket # <<>> /\ socket' = Tail(socket) /\ on_input_device(dev)
      /\ UNCHANGED <<armed, stopped, overrun, constructing, monitor_thread_, destroying,
                     plugged, announced, listening>>
      /\ monitor_thread_ = "running"
  BY DEF OnInputEvent, Readable, inputs
<1>2. /\ dev \in InputDevices /\ socket' \in Seq(InputDevices)
      /\ \A d : Waits(socket, d) => d = dev \/ Waits(socket', d)
  BY <1>1, WaitsTail DEF KeyboardInv, Devices
<1> HIDE DEF dev
<1>3. /\ keyboards_' \in SUBSET KeyboardDevices /\ KeyboardsTold'
      /\ \A d \in KeyboardDevices :
           d \in keyboards_' <=> IF d = dev THEN d \in plugged ELSE d \in keyboards_
  BY <1>1, Looked DEF KeyboardInv
<1>4. constructing \notin Unlisted
  BY <1>1, ListingKinds, UnlistedOrder DEF KeyboardInv, Building, Unlisted
<1>5. Mirrored' BY <1>1, <1>2, <1>3, <1>4 DEF KeyboardInv, Mirrored, Following
<1>6. Devices' BY <1>1, <1>2, <1>3 DEF KeyboardInv, Devices
<1> QED BY <1>3, <1>5, <1>6

\* A device that came or went is announced.
LEMMA PlugHandled ==
  ASSUME KeyboardInv, Plug
  PROVE  Mirrored' /\ Devices'
<1>1. PICK d \in InputDevices :
        /\ plugged' = (IF d \in plugged THEN plugged \ {d} ELSE plugged \cup {d})
        /\ announced' = Append(announced, d)
  BY DEF Plug
<1>2. UNCHANGED <<keyboards_, constructing, armed, listening, socket, overrun>>
  BY DEF Plug, keyboardNs, netlink
<1>3. /\ announced' \in Seq(InputDevices) /\ Waits(announced', d)
      /\ \A e : Waits(announced, e) => Waits(announced', e)
  BY <1>1, WaitsAppend DEF KeyboardInv, Devices
<1>4. plugged' \in SUBSET InputDevices /\ \A e : e # d => (e \in plugged' <=> e \in plugged)
  BY <1>1 DEF KeyboardInv, Devices
<1>5. Mirrored' BY <1>2, <1>3, <1>4 DEF KeyboardInv, Mirrored, Following
<1>6. Devices' BY <1>2, <1>3, <1>4 DEF KeyboardInv, Devices
<1> QED BY <1>5, <1>6

\* What is announced gets into the socket, unless nobody listens or the socket
\* is full; then nothing is followed any more.
LEMMA SendHandled ==
  ASSUME KeyboardInv, SendUdevEvent
  PROVE  Mirrored' /\ Devices'
<1> DEFINE d == Head(announced)
           overflows == Len(socket) = SocketSize
<1>1. /\ announced # <<>> /\ announced' = Tail(announced)
      /\ socket' = (IF listening /\ ~overflows THEN Append(socket, d) ELSE socket)
      /\ (overrun' <=> overrun \/ (listening /\ overflows))
      /\ UNCHANGED <<keyboards_, constructing, armed, plugged, listening>>
  BY DEF SendUdevEvent, keyboardNs
<1>2. /\ d \in InputDevices /\ announced' \in Seq(InputDevices)
      /\ \A e : Waits(announced, e) => e = d \/ Waits(announced', e)
  BY <1>1, WaitsTail DEF KeyboardInv, Devices
<1> HIDE DEF d, overflows
<1>3. /\ Append(socket, d) \in Seq(InputDevices) /\ Waits(Append(socket, d), d)
      /\ \A e : Waits(socket, e) => Waits(Append(socket, d), e)
  BY <1>2, WaitsAppend DEF KeyboardInv, Devices
<1>4. CASE listening /\ ~overflows
  BY <1>1, <1>2, <1>3, <1>4 DEF KeyboardInv, Mirrored, Following, Devices
<1>5. CASE ~(listening /\ ~overflows)
  <2>1. ~Following' BY <1>1, <1>5 DEF Following
  <2> QED BY <1>1, <1>2, <2>1, <1>5 DEF KeyboardInv, Mirrored, Devices
<1> QED BY <1>4, <1>5
\* Every step keeps the invariant.
LEMMA KeyboardInvNext == KeyboardInv /\ [KeyboardNext]_keyboardVars => KeyboardInv'
<1> SUFFICES ASSUME KeyboardInv, [KeyboardNext]_keyboardVars PROVE KeyboardInv' OBVIOUS
<1>0. Building /\ Running /\ Devices /\ Mirrored /\ KeyboardsTold BY DEF KeyboardInv
<1> USE DEF keyboardNs, inputs, netlink
<1>1. CASE CreateMonitor
  <2>1. /\ constructing = construct /\ constructing' = Tail(construct) /\ listening' = TRUE
        /\ UNCHANGED <<keyboards_, Available, armed, stopped, monitor_thread_, inputs,
                       socket, overrun, destroying>>
    BY <1>0, <1>1, Constructing DEF CreateMonitor, built
  <2>2. /\ constructing' \in Unlisted /\ constructing \in Unlisted
        /\ constructing \notin Started /\ constructing' \in Seq(Todos) /\ constructing # <<>>
    BY <2>1, UnlistedOrder, ListingKinds DEF Unlisted
  <2> QED
    BY <1>0, <2>1, <2>2, UnlistedOrder
    DEF KeyboardInv, Building, Running, Devices, Mirrored, Following, KeyboardsTold
<1>2. CASE ListDevices
  <2>1. Listing(constructing)' /\ constructing' \in Seq(Todos)
        /\ \A d \in plugged : Waits(constructing', Look(d))
    BY <1>2, DevicesListed
  <2>2. /\ constructing = Tail(construct)
        /\ UNCHANGED <<keyboards_, Available, armed, stopped, monitor_thread_, destroying,
                       inputs, netlink>>
    BY <1>0, <1>2, Constructing DEF ListDevices
  <2>3. /\ constructing # <<>> /\ constructing \notin Started /\ constructing # construct
        /\ constructing \in Unlisted /\ constructing' # <<>> /\ construct # <<>>
        /\ constructing' \notin Unlisted /\ constructing' \notin Started
    BY <2>1, <2>2, UnlistedOrder, ListingKinds DEF Unlisted
  <2>4. Mirrored'
    <3>1. keyboards_' = {} BY <1>0, <2>2, <2>3 DEF Mirrored
    <3> QED BY <2>1, <2>2, <2>3, <3>1 DEF Mirrored
  <2> QED
    BY <1>0, <2>1, <2>2, <2>3, <2>4
    DEF KeyboardInv, Building, Running, Devices, KeyboardsTold
<1>3. CASE LookAtDevice
  <2>1. Building' /\ Mirrored' /\ KeyboardsTold' /\ keyboards_' \in SUBSET KeyboardDevices
    BY <1>3, LookHandled
  <2>2. UNCHANGED <<armed, stopped, monitor_thread_, inputs, netlink, destroying>>
    BY <1>3 DEF LookAtDevice, built
  <2>3. monitor_thread_ = "none" /\ constructing # <<>> /\ ~armed
    <3>1. Listing(constructing) /\ constructing \in Seq(Todos)
      BY <1>0, <1>3, Constructing DEF LookAtDevice
    <3> QED BY <1>0, <3>1, ListingKinds DEF Building
  <2> QED BY <1>0, <2>1, <2>2, <2>3 DEF KeyboardInv, Running, Devices
<1>4. CASE LookAtNothing
  <2>1. /\ constructing' = <<>> /\ monitor_thread_' = "joined" /\ listening' = FALSE
        /\ UNCHANGED <<keyboards_, Available, armed, stopped, destroying, inputs, socket,
                       overrun>>
    BY <1>4 DEF LookAtNothing
  <2>2. ~armed
    <3>1. Listing(constructing) /\ constructing \in Seq(Todos)
      BY <1>0, <1>4, Constructing DEF LookAtNothing
    <3> QED BY <1>0, <3>1, ListingKinds DEF Building
  <2>3. constructing' \in Started /\ constructing' \notin Unlisted /\ constructing' \in Seq(Todos)
    BY <2>1, UnlistedOrder DEF Started, Unlisted
  <2> QED
    BY <1>0, <2>1, <2>2, <2>3
    DEF KeyboardInv, Building, Running, Devices, Mirrored, Following, KeyboardsTold
<1>5. CASE ArmRead
  <2>1. /\ Listing(constructing) /\ constructing \in Seq(Todos) /\ constructing # <<>>
        /\ Head(constructing).do = "run"
    BY <1>0, <1>5, Constructing DEF ArmRead, Constructs
  <2>2. /\ constructing' = <<Plan("thread")>> /\ constructing' \in Seq(Todos)
        /\ \A d : ~Waits(constructing, Look(d))
    BY <1>5, <2>1, ListingOrder DEF ArmRead, built
  <2>3. armed' = TRUE /\ UNCHANGED <<keyboards_, Available, stopped, monitor_thread_, inputs,
                                     netlink, destroying>>
    BY <1>5 DEF ArmRead, built
  <2>4. /\ constructing' \in Started /\ constructing' \notin Unlisted /\ constructing' # <<>>
        /\ constructing \notin Unlisted /\ constructing # construct
    BY <2>1, <2>2, ListingKinds DEF Started, Unlisted
  <2> QED
    BY <1>0, <2>1, <2>2, <2>3, <2>4
    DEF KeyboardInv, Building, Running, Devices, Mirrored, Following, KeyboardsTold
<1>6. CASE StartMonitorThread
  <2>1. constructing = <<Plan("thread")>> /\ constructing # <<>> /\ constructing \in Seq(Todos)
    BY <1>0, <1>6, Constructing DEF StartMonitorThread
  <2>2. /\ constructing' = <<>> /\ monitor_thread_' = "running"
        /\ UNCHANGED <<keyboards_, Available, armed, stopped, inputs, netlink, destroying>>
    BY <1>6, <2>1 DEF StartMonitorThread, built
  <2>3. /\ constructing \in Started /\ constructing' \in Started /\ constructing' \in Seq(Todos)
        /\ \A d : ~Waits(constructing, Look(d))
    <3>1. constructing \in Started /\ constructing' \in Started BY <2>1, <2>2 DEF Started
    <3>2. constructing' \in Seq(Todos) BY <2>2
    <3>3. \A d : ~Waits(<<Plan("thread")>>, Look(d)) BY <2>1, ListingKinds
    <3> QED BY <2>1, <3>1, <3>2, <3>3
  <2>4. constructing \notin Unlisted /\ constructing' \notin Unlisted /\ constructing # construct
    BY <2>1, <2>3, ListingKinds DEF Unlisted
  <2> QED
    BY <1>0, <2>1, <2>2, <2>3, <2>4
    DEF KeyboardInv, Building, Running, Devices, Mirrored, Following, KeyboardsTold
<1>7. CASE OnInputEvent
  <2>1. Mirrored' /\ KeyboardsTold' /\ Devices' BY <1>7, EventHandled
  <2> QED
    BY <1>0, <1>7, <2>1 DEF KeyboardInv, OnInputEvent, Readable, Building, Running
<1>8. CASE OnOverrun
  <2>1. constructing = <<>> BY <1>0, <1>8 DEF OnOverrun, Readable, Building
  <2> QED
    BY <1>0, <1>8, <2>1
    DEF KeyboardInv, OnOverrun, Readable, Building, Running, Devices, Mirrored, Following, KeyboardsTold
<1>9. CASE RunReturns
  BY <1>0, <1>9
  DEF KeyboardInv, RunReturns, Building, Running, Devices, Mirrored, Following, KeyboardsTold
<1>10. CASE OnAsioError
  BY <1>0, <1>10
  DEF KeyboardInv, OnAsioError, Readable, Building, Running, Devices, Mirrored, Following, KeyboardsTold
<1>11. CASE Destroy
  BY <1>0, <1>11
  DEF KeyboardInv, Destroy, Building, Running, Devices, Mirrored, Following, KeyboardsTold
<1>12. CASE JoinMonitorThread
  BY <1>0, <1>12
  DEF KeyboardInv, JoinMonitorThread, Building, Running, Devices, Mirrored, Following, KeyboardsTold
<1>13. CASE Plug
  <2>1. Mirrored' /\ Devices' BY <1>13, PlugHandled
  <2> QED BY <1>0, <1>13, <2>1 DEF KeyboardInv, Plug, Building, Running, KeyboardsTold
<1>14. CASE SendUdevEvent
  <2>1. Mirrored' /\ Devices' BY <1>14, SendHandled
  <2> QED BY <1>0, <1>14, <2>1 DEF KeyboardInv, SendUdevEvent, Building, Running, KeyboardsTold
<1>15. CASE UNCHANGED keyboardVars
  BY <1>0, <1>15
  DEF KeyboardInv, keyboardVars, Building, Running, Devices, Mirrored, Following, KeyboardsTold
<1> QED
  BY <1>1, <1>2, <1>3, <1>4, <1>5, <1>6, <1>7, <1>8, <1>9, <1>10, <1>11, <1>12, <1>13,
     <1>14, <1>15
  DEF KeyboardNext, Constructor, MonitorThread

\* The invariant holds in every reachable state of the provider,
THEOREM KeyboardInvHolds == KeyboardSpec => []KeyboardInv
BY KeyboardInvInit, KeyboardInvNext, PTL DEF KeyboardSpec

\* and in every one of the providers side by side.
THEOREM ProvidersKeyboardInv == ProvidersSpec => []KeyboardInv
<1>1. ProvidersInit => KeyboardInit BY DEF ProvidersInit
<1>2. [ProvidersNext]_allVars => [KeyboardNext]_keyboardVars
  BY Zenon DEF ProvidersNext, allVars, BackCoverStep, BmeStep, KeyboardStep, MceStep,
               ProfileStep
<1> QED BY <1>1, <1>2, KeyboardInvInit, KeyboardInvNext, PTL DEF ProvidersSpec

\* A monitor that is armed and was not stopped has its thread, and when every
\* event is handled it shows the keyboards that are there, whatever came and
\* went before, during and after the listing (134-171).
THEOREM KeyboardsShownHolds ==
  (KeyboardSpec => []KeyboardsShown) /\ (ProvidersSpec => []KeyboardsShown)
<1>1. KeyboardInv => KeyboardsShown
  <2> SUFFICES ASSUME KeyboardInv, constructing = <<>> /\ armed /\ ~stopped
               PROVE  /\ monitor_thread_ = "running"
                      /\ announced = <<>> /\ socket = <<>> /\ ~overrun =>
                           /\ keyboards_ = plugged \cap KeyboardDevices
                           /\ Available = [Open |-> keyboards_ # {}, Present |-> keyboards_ # {}]
    BY DEF KeyboardsShown
  <2>1. monitor_thread_ = "running" BY DEF KeyboardInv, Running
  <2>2. listening BY <2>1, UnlistedOrder DEF KeyboardInv, Building
  <2>3. constructing \notin Unlisted /\ \A d : ~Waits(<<>>, d)
    BY UnlistedOrder DEF Unlisted, Waits
  <2>4. ASSUME announced = <<>>, socket = <<>>, ~overrun
        PROVE  keyboards_ = plugged \cap KeyboardDevices
    <3>1. \A d \in KeyboardDevices : d \in keyboards_ <=> d \in plugged
      BY <2>2, <2>3, <2>4 DEF KeyboardInv, Mirrored, Following
    <3> QED BY <3>1 DEF KeyboardInv, Devices
  <2>5. Available = [Open |-> keyboards_ # {}, Present |-> keyboards_ # {}]
    BY DEF KeyboardInv, KeyboardsTold
  <2> QED BY <2>1, <2>4, <2>5
<1> QED BY <1>1, KeyboardInvHolds, ProvidersKeyboardInv, PTL
=============================================================================
