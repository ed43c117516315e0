---------------------------- MODULE UdevProofs -----------------------------
(***************************************************************************)
(* Proofs about Udev: the timer is always armed or its handler queued,     *)
(* IsCharging is what the cached states of the chargers say, the sum of    *)
(* the samples is theirs, and a division by 0 has one of two causes.       *)
(***************************************************************************)
EXTENDS Udev, SignalsProofs

Handlers == {"udev", "screen", "timer", "aborted"}
Fields == {"IsOnline", "EnergyNow", "Power", "Capacity", "TimeToLow",
           "TimeToFull"}

Queued(q) == \E i \in DOMAIN q : q[i] = "timer"

\* The queue holds handlers, and the timer is alive.
TimerInv == /\ ready \in Seq(Handlers)
            /\ run = "running" /\ screen # "dead" => armed \/ Queued(ready)

\* IsCharging, last_ and the map agree, in the state before Run too.
ChargingInv == /\ last_ = [f \in Fields |-> last_[f]]
               /\ last_.IsOnline = Online(charger_state_)
               /\ pub.IsCharging = Online(charger_state_)

----------------------------------------------------------------------------
(* The queue.                                                              *)

\* A handler that is appended does not displace a queued timer.
LEMMA AppendKeeps ==
  ASSUME NEW q \in Seq(Handlers), NEW h \in Handlers
  PROVE  /\ Append(q, h) \in Seq(Handlers)
         /\ Queued(q) => Queued(Append(q, h))
         /\ h = "timer" => Queued(Append(q, h))
<1>1. Append(q, h) \in Seq(Handlers) OBVIOUS
<1>2. Queued(q) => Queued(Append(q, h))
  <2> SUFFICES ASSUME NEW i \in DOMAIN q, q[i] = "timer"
               PROVE  Append(q, h)[i] = "timer" /\ i \in DOMAIN Append(q, h)
    BY DEF Queued
  <2> QED OBVIOUS
<1>3. Append(q, h)[Len(q) + 1] = h /\ Len(q) + 1 \in DOMAIN Append(q, h)
  OBVIOUS
<1> QED BY <1>1, <1>2, <1>3 DEF Queued

\* Taking a handler other than the timer's off leaves a queued timer there.
LEMMA TailKeeps ==
  ASSUME NEW q \in Seq(Handlers), q # <<>>
  PROVE  /\ Tail(q) \in Seq(Handlers)
         /\ Head(q) # "timer" /\ Queued(q) => Queued(Tail(q))
<1>1. Tail(q) \in Seq(Handlers) OBVIOUS
<1>2. ASSUME Head(q) # "timer", NEW i \in DOMAIN q, q[i] = "timer"
      PROVE  Queued(Tail(q))
  <2>1. i # 1 BY <1>2
  <2>2. i - 1 \in DOMAIN Tail(q) /\ Tail(q)[i - 1] = "timer" BY <1>2, <2>1
  <2> QED BY <2>2 DEF Queued
<1> QED BY <1>1, <1>2 DEF Queued

\* Arming the timer makes it alive, and keeps the queue one of handlers.
LEMMA Arms ==
  ASSUME NEW q \in Seq(Handlers), monitor_timer(q)
  PROVE  armed' = TRUE /\ ready' \in Seq(Handlers)
BY DEF monitor_timer, Handlers

\* A process that has ended has no timer to keep.
LEMMA CrashKeeps ==
  ASSUME TimerInv, NEW devs, Crash(devs)
  PROVE  TimerInv'
BY DEF TimerInv, Crash

----------------------------------------------------------------------------
(* The timer.                                                              *)

\* Every step keeps a timer that goes on.
LEMMA TimerStep == TimerInv /\ [Next]_vars => TimerInv'
<1> SUFFICES ASSUME TimerInv, [Next]_vars PROVE TimerInv'
  OBVIOUS
<1>0. ready \in Seq(Handlers) BY DEF TimerInv
<1>1. CASE Run
  BY <1>0, <1>1, Arms DEF Run, TimerInv
<1>2. CASE OnEvent \/ OnScreen \/ OnTimer
  <2>1. Tail(ready) \in Seq(Handlers) /\ monitor_timer(Tail(ready))
    BY <1>0, <1>2, TailKeeps DEF OnEvent, OnScreen, OnTimer, Running
  <2> QED BY <2>1, Arms DEF TimerInv
<1>3. CASE RunCrashes \/ OnEventCrashes \/ OnScreenCrashes \/ OnTimerCrashes
  BY <1>3, CrashKeeps
  DEF RunCrashes, OnEventCrashes, OnScreenCrashes, OnTimerCrashes
<1>4. CASE OnScreenThrows
  <2>1. Tail(ready) \in Seq(Handlers)
    BY <1>0, <1>4, TailKeeps DEF OnScreenThrows, Running
  <2> QED BY <1>4, <2>1, AppendKeeps DEF OnScreenThrows, TimerInv, Handlers
<1>5. CASE OnTimerAborted
  BY <1>0, <1>5, TailKeeps DEF OnTimerAborted, Running, TimerInv
<1>6. CASE OnError
  BY <1>6 DEF OnError, TimerInv
<1>7. CASE UdevReady
  BY <1>0, <1>7, AppendKeeps DEF UdevReady, TimerInv, Handlers, world, news
<1>8. CASE ScreenReady
  BY <1>0, <1>8, AppendKeeps DEF ScreenReady, TimerInv, Handlers
<1>9. CASE TimerExpires
  BY <1>0, <1>9, AppendKeeps DEF TimerExpires, TimerInv, Handlers
<1>10. CASE ChargeChanges \/ SupplyChanges \/ BlankChanges
  BY <1>10 DEF ChargeChanges, SupplyChanges, BlankChanges, TimerInv, loop
<1>11. CASE UNCHANGED vars
  BY <1>11 DEF vars, loop, TimerInv
<1> QED
  BY <1>1, <1>2, <1>3, <1>4, <1>5, <1>6, <1>7, <1>8, <1>9, <1>10, <1>11
  DEF Next, Handler, Reactor

\* While the monitor runs the timer is pending or its handler queued, for every
\* number of chargers and changes, unless the read of Screen.Blanked has thrown:
\* that handler does leave the timer cancelled (458, 466).  Each other one that
\* cancels it (431, 458, 654) arms it again.
THEOREM PollAliveHolds == Spec => []PollAlive
<1>1. Init => TimerInv BY DEF Init, TimerInv
<1>2. TimerInv => PollAlive BY DEF TimerInv, PollAlive, Queued
<1> QED BY <1>1, <1>2, TimerStep, PTL DEF Spec

----------------------------------------------------------------------------
(* The chargers.                                                           *)

\* The online state that was read is the one that is published and kept,
\* whatever the energy's rate.
LEMMA NotifyKeeps ==
  ASSUME ChargingInv, NEW devs, NEW dt, notify(reading(devs), dt),
         charger_state_' = on_charger(devs)
  PROVE  ChargingInv'
<1> DEFINE read == reading(devs)
           de == rate(read, dt)
           samples == sampled(de)
           current == process_energy(read, de, samples, 0)
<1>1. /\ read = [f \in Fields |-> read[f]]
      /\ read.IsOnline = Online(charger_state_')
  BY DEF reading, on_battery, after_enumeration, ChargingInv, Fields
<1>2. last_' = current /\ pub' = publish(current)
  BY DEF notify
<1> HIDE DEF read, de, samples
<1>3. /\ current = [f \in Fields |-> current[f]]
      /\ current.IsOnline = read.IsOnline
  <2>1. PICK low, full, power :
          \/ current = read
          \/ current = [read EXCEPT !.TimeToLow = low, !.TimeToFull = full,
                                    !.Power = power]
    <3>1. CASE de = 0 BY <3>1 DEF process_energy, current
    <3>2. CASE de # 0 /\ de < 0 BY <3>2 DEF process_energy, current
    <3>3. CASE de # 0 /\ ~(de < 0) BY <3>3 DEF process_energy, current
    <3> QED BY <3>1, <3>2, <3>3
  <2> HIDE DEF current
  <2> QED BY <1>1, <2>1 DEF Fields
<1> HIDE DEF current
<1>4. publish(current).IsCharging = current.IsOnline
  BY DEF publish, ChargingInv
<1> QED BY <1>1, <1>2, <1>3, <1>4 DEF ChargingInv

\* So does a reading of the devices.
LEMMA ReadKeeps ==
  ASSUME ChargingInv, NEW devs, on_device(devs)
  PROVE  ChargingInv'
BY NotifyKeeps DEF on_device

\* Every step keeps what is known of the chargers.
LEMMA ChargingStep == ChargingInv /\ [Next]_vars => ChargingInv'
<1> SUFFICES ASSUME ChargingInv, [Next]_vars PROVE ChargingInv'
  OBVIOUS
<1>1. CASE Run \/ OnTimer
  BY <1>1, ReadKeeps DEF Run, OnTimer
<1>2. CASE OnEvent
  BY <1>2, ReadKeeps DEF OnEvent
<1>3. CASE OnScreen
  <2>1. CASE blanked BY <1>3, <2>1, ReadKeeps DEF OnScreen
  <2>2. CASE ~blanked
    BY <1>3, <2>2 DEF OnScreen, monitor, ChargingInv
  <2> QED BY <2>1, <2>2
<1>4. CASE UNCHANGED monitor
  BY <1>4 DEF monitor, ChargingInv
<1>5. \/ Run \/ OnTimer \/ OnEvent \/ OnScreen \/ UNCHANGED monitor
  BY DEF Next, Handler, Reactor, Crash, RunCrashes, OnEventCrashes,
         OnScreenCrashes, OnTimerCrashes, OnScreenThrows, OnTimerAborted,
         OnError, UdevReady, ScreenReady, TimerExpires, ChargeChanges,
         SupplyChanges, BlankChanges, vars
<1> QED BY <1>1, <1>2, <1>3, <1>4, <1>5

\* IsCharging is what the states kept of the chargers say, whichever handler
\* saw them first and whatever the battery read meanwhile, for every set of
\* chargers (493-500, 521, 576).
THEOREM ChargingShownHolds == Spec => []ChargingShown
<1>1. Init => ChargingInv
  <2> SUFFICES ASSUME Init PROVE ChargingInv
    OBVIOUS
  <2>1. charger_state_ = <<>> BY DEF Init, InitMonitor
  <2>2. Online(charger_state_) = FALSE BY <2>1 DEF Online
  <2>3. last_ = [f \in Fields |-> last_[f]]
    BY DEF Init, InitMonitor, Fields
  <2>4. last_.IsOnline = FALSE /\ pub.IsCharging = FALSE
    BY DEF Init, InitMonitor
  <2> QED BY <2>2, <2>3, <2>4 DEF ChargingInv
<1>2. ChargingInv => ChargingShown BY DEF ChargingInv, ChargingShown
<1> QED BY <1>1, <1>2, ChargingStep, PTL DEF Spec
----------------------------------------------------------------------------
(* Sums of sequences of numbers.                                           *)

\* what SumTo adds with the n-th number
SumStep(s, f, n) == IF n = 0 THEN 0 ELSE f[n - 1] + s[n]

\* SumTo satisfies its recursive definition.
LEMMA SumToDef ==
  ASSUME NEW s \in Seq(Int)
  PROVE  SumTo(s) = [n \in 0..Len(s) |-> SumStep(s, SumTo(s), n)]
<1> DEFINE L == Len(s)
           Good(f, k) == f = [n \in 0..k |-> SumStep(s, f, n)]
           T == {k \in Nat : k <= L => \E f : Good(f, k)}
<1>0. L \in Nat OBVIOUS
<1>1. 0 \in T
  <2>1. Good([n \in 0..0 |-> 0], 0) BY DEF SumStep
  <2> QED BY <2>1
<1>2. ASSUME NEW k \in T PROVE k + 1 \in T
  <2> SUFFICES ASSUME k + 1 <= L PROVE \E f : Good(f, k + 1) BY DEF T
  <2>1. k <= L BY <1>0
  <2>2. PICK f : Good(f, k) BY <2>1
  <2> DEFINE g == [n \in 0..(k + 1) |-> IF n = k + 1 THEN SumStep(s, f, n) ELSE f[n]]
  <2>3. ASSUME NEW n \in 0..(k + 1) PROVE g[n] = SumStep(s, g, n)
    <3>1. CASE n = 0 BY <2>2, <3>1 DEF SumStep
    <3>2. CASE n # 0
      <4>1. n - 1 \in 0..k /\ n - 1 # k + 1 /\ n - 1 \in 0..(k + 1) BY <3>2
      <4>2. SumStep(s, g, n) = SumStep(s, f, n) BY <4>1 DEF SumStep
      <4>3. g[n] = SumStep(s, f, n)
        <5>1. CASE n = k + 1 BY <5>1
        <5>2. CASE n # k + 1
          <6>1. n \in 0..k BY <5>2
          <6> QED BY <2>2, <5>2, <6>1
        <5> QED BY <5>1, <5>2
      <4> QED BY <4>2, <4>3
    <3> QED BY <3>1, <3>2
  <2>4. g = [n \in 0..(k + 1) |-> g[n]] OBVIOUS
  <2> HIDE DEF g
  <2>5. Good(g, k + 1) BY <2>3, <2>4
  <2> QED BY <2>5
<1>3. T \in SUBSET Nat OBVIOUS
<1> HIDE DEF T
<1>4. T = Nat BY <1>1, <1>2, <1>3, Induction
<1>5. \E f : Good(f, L) BY <1>0, <1>4 DEF T
<1>6. SumTo(s) = CHOOSE f : Good(f, L) BY DEF SumTo, SumStep
<1> HIDE DEF Good
<1>7. Good(SumTo(s), L) BY <1>5, <1>6
<1> QED BY <1>7 DEF Good

\* Its values, one by one.
LEMMA SumToAt ==
  ASSUME NEW s \in Seq(Int)
  PROVE  /\ SumTo(s)[0] = 0
         /\ \A n \in Nat : n + 1 <= Len(s) => SumTo(s)[n + 1] = SumTo(s)[n] + s[n + 1]
<1>1. \A n \in 0..Len(s) : SumTo(s)[n] = SumStep(s, SumTo(s), n) BY SumToDef
<1>2. 0 \in 0..Len(s) OBVIOUS
<1>3. SumTo(s)[0] = 0 BY <1>1, <1>2 DEF SumStep
<1>4. ASSUME NEW n \in Nat, n + 1 <= Len(s)
      PROVE  SumTo(s)[n + 1] = SumTo(s)[n] + s[n + 1]
  <2>1. n + 1 \in 0..Len(s) /\ n + 1 # 0 /\ (n + 1) - 1 = n BY <1>4
  <2> QED BY <1>1, <2>1 DEF SumStep
<1> QED BY <1>3, <1>4

\* A sum of integers is one, and with every number below 0 it is no more than
\* minus the number of them.
LEMMA SumBounded ==
  ASSUME NEW s \in Seq(Int)
  PROVE  /\ \A n \in 0..Len(s) : SumTo(s)[n] \in Int
         /\ (\A i \in 1..Len(s) : s[i] < 0) => SumOf(s) <= -Len(s)
<1> DEFINE L == SumTo(s)
           T == {k \in Nat : k <= Len(s) => L[k] \in Int}
           U == {k \in Nat : k <= Len(s) => L[k] <= -k}
<1>0. Len(s) \in Nat OBVIOUS
<1>1. L[0] = 0 /\ \A n \in Nat : n + 1 <= Len(s) => L[n + 1] = L[n] + s[n + 1]
  BY SumToAt
<1> HIDE DEF L
<1>2. T = Nat
  <2>1. 0 \in T BY <1>1
  <2>2. ASSUME NEW k \in T PROVE k + 1 \in T
    <3> SUFFICES ASSUME k + 1 <= Len(s) PROVE L[k + 1] \in Int OBVIOUS
    <3>1. L[k] \in Int /\ s[k + 1] \in Int BY <1>0
    <3> QED BY <1>1, <3>1
  <2>3. T \in SUBSET Nat OBVIOUS
  <2> HIDE DEF T
  <2> QED BY <2>1, <2>2, <2>3, Induction
<1>3. \A n \in 0..Len(s) : L[n] \in Int BY <1>2
<1> HIDE DEF T
<1>4. ASSUME \A i \in 1..Len(s) : s[i] < 0 PROVE U = Nat
  <2>1. 0 \in U BY <1>1
  <2>2. ASSUME NEW k \in U PROVE k + 1 \in U
    <3> SUFFICES ASSUME k + 1 <= Len(s) PROVE L[k + 1] <= -(k + 1) OBVIOUS
    <3>1. k \in Nat /\ k \in 0..Len(s) /\ k + 1 \in 1..Len(s) BY <1>0
    <3>2. L[k] \in Int /\ L[k] <= -k BY <1>3, <3>1
    <3>3. s[k + 1] \in Int /\ s[k + 1] <= -1 BY <1>4, <3>1
    <3>4. L[k + 1] = L[k] + s[k + 1] BY <1>1, <3>1
    <3> QED BY <3>1, <3>2, <3>3, <3>4
  <2>3. U \in SUBSET Nat OBVIOUS
  <2> HIDE DEF U
  <2> QED BY <2>1, <2>2, <2>3, Induction
<1>5. (\A i \in 1..Len(s) : s[i] < 0) => L[Len(s)] <= -Len(s) BY <1>0, <1>4
<1> QED BY <1>3, <1>5 DEF L, SumOf

\* A number more at the end is added.
LEMMA SumAppended ==
  ASSUME NEW s \in Seq(Int), NEW v \in Int
  PROVE  SumOf(Append(s, v)) = SumOf(s) + v
<1> DEFINE t == Append(s, v)
           T == {k \in Nat : k <= Len(s) => SumTo(t)[k] = SumTo(s)[k]}
<1>1. /\ t \in Seq(Int) /\ Len(t) = Len(s) + 1 /\ t[Len(s) + 1] = v
      /\ \A i \in 1..Len(s) : t[i] = s[i]
  OBVIOUS
<1>2. Len(s) \in Nat OBVIOUS
<1> HIDE DEF t
<1>3. /\ SumTo(s)[0] = 0
      /\ \A n \in Nat : n + 1 <= Len(s) => SumTo(s)[n + 1] = SumTo(s)[n] + s[n + 1]
  BY SumToAt
<1>4. /\ SumTo(t)[0] = 0
      /\ \A n \in Nat : n + 1 <= Len(t) => SumTo(t)[n + 1] = SumTo(t)[n] + t[n + 1]
  BY <1>1, SumToAt
<1>5. 0 \in T BY <1>3, <1>4
<1>6. ASSUME NEW k \in T PROVE k + 1 \in T
  <2> SUFFICES ASSUME k + 1 <= Len(s) PROVE SumTo(t)[k + 1] = SumTo(s)[k + 1] OBVIOUS
  <2>1. k \in Nat /\ k <= Len(s) /\ k + 1 <= Len(t) /\ k + 1 \in 1..Len(s)
    BY <1>1, <1>2
  <2> QED BY <1>1, <1>3, <1>4, <2>1
<1>7. T \in SUBSET Nat OBVIOUS
<1> HIDE DEF T
<1>8. T = Nat BY <1>5, <1>6, <1>7, Induction
<1>9. SumTo(t)[Len(s)] = SumTo(s)[Len(s)] BY <1>2, <1>8 DEF T
<1>10. SumTo(t)[Len(t)] = SumTo(t)[Len(s)] + v BY <1>1, <1>2, <1>4
<1> QED BY <1>9, <1>10 DEF t, SumOf

\* The first number is taken off.
LEMMA SumTailed ==
  ASSUME NEW s \in Seq(Int), s # <<>>
  PROVE  SumOf(Tail(s)) = SumOf(s) - Head(s)
<1> DEFINE t == Tail(s)
           T == {k \in Nat : k <= Len(t) => SumTo(t)[k] = SumTo(s)[k + 1] - s[1]}
<1>1. /\ t \in Seq(Int) /\ Len(t) = Len(s) - 1 /\ Head(s) = s[1] /\ s[1] \in Int
      /\ \A i \in 1..Len(t) : t[i] = s[i + 1]
  OBVIOUS
<1>2. Len(s) \in Nat /\ Len(t) \in Nat /\ 1 <= Len(s) OBVIOUS
<1> HIDE DEF t
<1>3. /\ SumTo(s)[0] = 0
      /\ \A n \in Nat : n + 1 <= Len(s) => SumTo(s)[n + 1] = SumTo(s)[n] + s[n + 1]
  BY SumToAt
<1>4. /\ SumTo(t)[0] = 0
      /\ \A n \in Nat : n + 1 <= Len(t) => SumTo(t)[n + 1] = SumTo(t)[n] + t[n + 1]
  BY <1>1, SumToAt
<1>5. 0 \in T
  <2>1. SumTo(s)[0 + 1] = SumTo(s)[0] + s[0 + 1] BY <1>2, <1>3
  <2>2. SumTo(s)[1] = s[1] BY <1>1, <1>3, <2>1
  <2> QED BY <1>1, <1>4, <2>2
<1>6. ASSUME NEW k \in T PROVE k + 1 \in T
  <2> SUFFICES ASSUME k + 1 <= Len(t)
               PROVE  SumTo(t)[k + 1] = SumTo(s)[(k + 1) + 1] - s[1]
    OBVIOUS
  <2>1. /\ k \in Nat /\ k + 1 \in Nat /\ k <= Len(t) /\ k + 1 \in 1..Len(t)
        /\ (k + 1) + 1 <= Len(s) /\ k + 1 \in 0..Len(s) /\ (k + 1) + 1 \in 1..Len(s)
    BY <1>1, <1>2
  <2>2. SumTo(t)[k] = SumTo(s)[k + 1] - s[1] BY <2>1
  <2>3. SumTo(t)[k + 1] = SumTo(t)[k] + s[(k + 1) + 1] BY <1>1, <1>4, <2>1
  <2>4. SumTo(s)[(k + 1) + 1] = SumTo(s)[k + 1] + s[(k + 1) + 1] BY <1>3, <2>1
  <2>5. SumTo(s)[k + 1] \in Int BY <2>1, SumBounded
  <2>6. s[(k + 1) + 1] \in Int BY <2>1
  <2> QED BY <1>1, <2>2, <2>3, <2>4, <2>5, <2>6
<1>7. T \in SUBSET Nat OBVIOUS
<1> HIDE DEF T
<1>8. T = Nat BY <1>5, <1>6, <1>7, Induction
<1>9. SumTo(t)[Len(t)] = SumTo(s)[Len(t) + 1] - s[1] BY <1>2, <1>8 DEF T
<1> QED BY <1>1, <1>2, <1>9 DEF t, SumOf
----------------------------------------------------------------------------
(* The samples of the rate of discharge.                                   *)

Sample == Int \ {0}
LastN == [sum_ : Int, values_ : Seq(Sample)]

\* LastN holds its bound, and the sum of what it holds
Summed(n) == n.sum_ = SumOf(n.values_) /\ Len(n.values_) <= max_size_

\* none of the samples is one of charging
Discharged(n) == \A i \in 1..Len(n.values_) : n.values_[i] < 0

\* The energies that are subtracted are numbers, no sample is 0, and the sum is
\* right; a crash leaves the samples of which it died as they were.
SamplesInv ==
  /\ max_size_ \in Nat /\ charge \in Int
  /\ last_ = [f \in Fields |-> last_[f]] /\ last_.EnergyNow \in Int
  /\ denergy_ \in LastN /\ Summed(denergy_)
  /\ CrashExplained

\* A quotient of integers is one.
LEMMA QuotInt ==
  ASSUME NEW a \in Int, NEW b \in Int, b # 0
  PROVE  Quot(a, b) \in Int
<1> DEFINE x == Abs(a)
           y == Abs(b)
<1>1. x \in Nat /\ y \in Nat \ {0} BY DEF Abs
<1> HIDE DEF x, y
<1>2. x \div y \in Int BY <1>1
<1> QED BY <1>2 DEF Quot, x, y

\* The mean of numbers below 0 is not cut to 0: ten times their sum is no more
\* than minus ten times their number.
LEMMA MeanBelow ==
  ASSUME NEW sum \in Int, NEW n \in Nat \ {0}, sum <= -n
  PROVE  Quot(Quot(sum * precision_, n), precision_) # 0
<1> DEFINE a == -(sum * 10)
           q == a \div n
<1>1. sum < 0 /\ ~(n < 0) /\ Abs(n) = n /\ Abs(sum * 10) = a BY DEF Abs
<1>2. a \in Nat /\ a >= 10 * n OBVIOUS
<1>3. Quot(sum * precision_, n) = -q BY <1>1 DEF Quot, precision_
<1> HIDE DEF a
<1>4. q \in Nat /\ a = n * q + (a % n) /\ a % n \in 0..(n - 1) BY <1>2
<1> HIDE DEF q
<1>5. q >= 10
  <2> SUFFICES ASSUME q <= 9 PROVE FALSE BY <1>4
  <2>1. q \in 0..9 BY <1>4
  <2>2. n * q <= 9 * n
    <3>1. CASE q = 0 BY <3>1
    <3>2. CASE q = 1 BY <3>2
    <3>3. CASE q = 2 BY <3>3
    <3>4. CASE q = 3 BY <3>4
    <3>5. CASE q = 4 BY <3>5
    <3>6. CASE q = 5 BY <3>6
    <3>7. CASE q = 6 BY <3>7
    <3>8. CASE q = 7 BY <3>8
    <3>9. CASE q = 8 BY <3>9
    <3>10. CASE q = 9 BY <3>10
    <3> QED BY <2>1, <3>1, <3>2, <3>3, <3>4, <3>5, <3>6, <3>7, <3>8, <3>9, <3>10
  <2> QED BY <1>2, <1>4, <2>2
<1>6. Quot(-q, 10) = -(q \div 10) BY <1>4, <1>5 DEF Quot, Abs
<1>7. q \div 10 >= 1 BY <1>4, <1>5
<1> QED BY <1>3, <1>4, <1>6, <1>7 DEF precision_

\* push keeps the sum that of the samples, and their number in its bound.
LEMMA PushKeeps ==
  ASSUME NEW n \in LastN, Summed(n), NEW v \in Sample, max_size_ \in Nat
  PROVE  /\ push(n, v) \in LastN /\ Summed(push(n, v))
         /\ v < 0 /\ Discharged(n) => Discharged(push(n, v))
         /\ max_size_ # 0 => push(n, v).values_ # <<>>
<1> DEFINE s == n.values_
           pushed == Append(s, v)
<1>1. s \in Seq(Sample) /\ n.sum_ \in Int /\ v \in Int BY DEF LastN, Sample
<1>2. s \in Seq(Int) BY <1>1 DEF Sample
<1>3. n.sum_ = SumOf(s) /\ Len(s) <= max_size_ BY DEF Summed
<1> HIDE DEF s
<1>4. /\ pushed \in Seq(Sample) /\ Len(pushed) = Len(s) + 1 /\ pushed # <<>>
      /\ pushed[Len(s) + 1] = v /\ \A i \in 1..Len(s) : pushed[i] = s[i]
  BY <1>1
<1>5. pushed \in Seq(Int) BY <1>4 DEF Sample
<1>6. SumOf(pushed) = n.sum_ + v BY <1>1, <1>2, <1>3, SumAppended
<1>7. v < 0 /\ Discharged(n) => \A i \in 1..Len(pushed) : pushed[i] < 0
  BY <1>1, <1>4 DEF Discharged, s
<1>8. Len(s) \in Nat BY <1>1
<1> HIDE DEF pushed
<1>9. CASE Len(pushed) > max_size_
  <2> DEFINE t == Tail(pushed)
  <2>1. push(n, v) = [sum_ |-> n.sum_ - Head(pushed) + v, values_ |-> t]
    BY <1>9 DEF push, pushed, s
  <2>2. /\ t \in Seq(Sample) /\ Len(t) = Len(pushed) - 1
        /\ Head(pushed) \in Int
        /\ \A i \in 1..Len(t) : i + 1 \in 1..Len(pushed) /\ t[i] = pushed[i + 1]
    BY <1>4, <1>5
  <2>3. SumOf(t) = n.sum_ + v - Head(pushed)
    <3>1. SumOf(t) = SumOf(pushed) - Head(pushed) BY <1>4, <1>5, SumTailed
    <3> QED BY <1>1, <1>6, <2>2, <3>1
  <2> HIDE DEF t
  <2>4. n.sum_ - Head(pushed) + v \in Int /\ n.sum_ - Head(pushed) + v = SumOf(t)
    BY <1>1, <2>2, <2>3
  <2>5. push(n, v) \in LastN BY <2>1, <2>2, <2>4 DEF LastN
  <2>6. Len(t) <= max_size_ BY <1>3, <1>4, <1>8, <2>2
  <2>7. Summed(push(n, v)) BY <2>1, <2>4, <2>6 DEF Summed
  <2>8. v < 0 /\ Discharged(n) => Discharged(push(n, v))
    BY <1>7, <2>1, <2>2 DEF Discharged
  <2>9. max_size_ # 0 => t # <<>>
    <3> SUFFICES ASSUME max_size_ # 0 PROVE Len(t) # 0 OBVIOUS
    <3> QED BY <1>8, <1>9, <1>4, <2>2
  <2> QED BY <2>1, <2>5, <2>7, <2>8, <2>9
<1>10. CASE ~(Len(pushed) > max_size_)
  <2>1. push(n, v) = [sum_ |-> n.sum_ + v, values_ |-> pushed]
    BY <1>10 DEF push, pushed, s
  <2>2. n.sum_ + v \in Int BY <1>1
  <2>3. push(n, v) \in LastN BY <1>4, <2>1, <2>2 DEF LastN
  <2>4. Len(pushed) <= max_size_ BY <1>4, <1>8, <1>10
  <2>5. Summed(push(n, v)) BY <1>6, <2>1, <2>4 DEF Summed
  <2>6. v < 0 /\ Discharged(n) => Discharged(push(n, v))
    BY <1>7, <2>1 DEF Discharged
  <2> QED BY <1>4, <2>1, <2>3, <2>5, <2>6
<1> QED BY <1>9, <1>10

\* A reading has the number that was read, and the rate is a number.
LEMMA ReadingIsNumber ==
  ASSUME SamplesInv, NEW devs, NEW dt \in Elapsed(devs)
  PROVE  /\ reading(devs) = [f \in Fields |-> reading(devs)[f]]
         /\ reading(devs).EnergyNow \in Int
         /\ rate(reading(devs), dt) \in Int
<1> DEFINE read == reading(devs)
<1>1. /\ read = [f \in Fields |-> read[f]]
      /\ read.EnergyNow \in {charge, last_.EnergyNow}
  BY DEF reading, on_battery, SamplesInv, Fields
<1>2. read.EnergyNow \in Int /\ last_.EnergyNow \in Int BY <1>1 DEF SamplesInv
<1>3. dt \in Int BY UdevAssumption DEF Elapsed
<1> HIDE DEF read
<1>4. read.EnergyNow - last_.EnergyNow \in Int BY <1>2
<1>5. rate(read, dt) \in Int BY <1>3, <1>4, QuotInt DEF rate
<1> QED BY <1>1, <1>2, <1>5 DEF read

\* A reading is another sample, or none, or the last of the old ones.
LEMMA SamplesKept ==
  ASSUME SamplesInv, NEW devs, on_device(devs), max_size_' = max_size_,
         run' = "running", charge' = charge
  PROVE  SamplesInv'
<1>1. PICK dt \in Elapsed(devs) : notify(reading(devs), dt) BY DEF on_device
<1> DEFINE read == reading(devs)
           de == rate(read, dt)
           samples == sampled(de)
           current == process_energy(read, de, samples, 0)
<1>2. /\ read = [f \in Fields |-> read[f]] /\ read.EnergyNow \in Int /\ de \in Int
  BY ReadingIsNumber
<1>3. last_' = current /\ denergy_' \in {samples, clear(samples)}
  BY <1>1 DEF notify
<1> HIDE DEF read, de
<1>4. samples \in LastN /\ Summed(samples)
  BY <1>2, PushKeeps DEF SamplesInv, sampled, Sample
<1> HIDE DEF samples
<1>5. current = [f \in Fields |-> current[f]] /\ current.EnergyNow = read.EnergyNow
  <2>1. PICK low, full, power :
          \/ current = read
          \/ current = [read EXCEPT !.TimeToLow = low, !.TimeToFull = full,
                                    !.Power = power]
    <3>1. CASE de = 0 BY <3>1 DEF process_energy, current
    <3>2. CASE de # 0 /\ de < 0 BY <3>2 DEF process_energy, current
    <3>3. CASE de # 0 /\ ~(de < 0) BY <3>3 DEF process_energy, current
    <3> QED BY <3>1, <3>2, <3>3
  <2> HIDE DEF current
  <2> QED BY <1>2, <2>1 DEF Fields
<1> HIDE DEF current
<1>6. NoSamples \in LastN /\ NoSamples.sum_ = 0 /\ NoSamples.values_ = <<>>
  BY DEF NoSamples, LastN
<1>7. SumOf(<<>>) = 0 /\ Len(<<>>) = 0
  <2>1. <<>> \in Seq(Int) /\ Len(<<>>) = 0 OBVIOUS
  <2>2. SumTo(<<>>)[0] = 0 BY <2>1, SumToAt
  <2> QED BY <2>1, <2>2 DEF SumOf
<1>8. denergy_' \in LastN /\ Summed(denergy_')
  <2>1. CASE denergy_' = samples BY <1>4, <2>1
  <2>2. CASE denergy_' = NoSamples
    BY <1>6, <1>7, <2>2 DEF Summed, SamplesInv
  <2> QED BY <1>3, <2>1, <2>2 DEF clear
<1>9. CrashExplained' BY DEF CrashExplained
<1>10. Summed(denergy_)' BY <1>8 DEF Summed
<1> QED BY <1>2, <1>3, <1>5, <1>8, <1>9, <1>10 DEF SamplesInv
\* A process that dies of a division by 0 had a bound of 0, or a sample of
\* charging: else the mean of the samples is a quotient below 0.
LEMMA CrashIsExplained ==
  ASSUME SamplesInv, NEW devs, Crash(devs)
  PROVE  SamplesInv'
<1>1. PICK dt \in Elapsed(devs) : DividesByZero(reading(devs), dt) BY DEF Crash
<1>2. UNCHANGED <<monitor, max_size_, world>> BY Zenon DEF Crash
<1> DEFINE de == rate(reading(devs), dt)
           samples == sampled(de)
<1>3. de \in Int /\ de < 0 /\ average(samples) = 0
  BY <1>1, ReadingIsNumber DEF DividesByZero
<1> HIDE DEF de
<1>4. de \in Sample /\ samples = push(denergy_, de) BY <1>3 DEF sampled, Sample
<1>5. samples \in LastN /\ Summed(samples) /\ denergy_ \in LastN
  BY <1>4, PushKeeps DEF SamplesInv
<1>6. ASSUME max_size_ # 0, Discharged(denergy_) PROVE FALSE
  <2>1. samples.values_ # <<>> /\ Discharged(samples)
    BY <1>3, <1>4, <1>6, PushKeeps DEF SamplesInv
  <2> HIDE DEF samples
  <2> DEFINE s == samples.values_
             sum == samples.sum_
  <2>2. s \in Seq(Int) /\ s # <<>> /\ sum \in Int /\ sum = SumOf(s)
    BY <1>5, <2>1 DEF LastN, Sample, Summed
  <2>3. \A i \in 1..Len(s) : s[i] < 0 BY <2>1 DEF Discharged
  <2>4. average(samples) = Quot(Quot(sum * precision_, Len(s)), precision_)
    BY <2>1 DEF average
  <2> HIDE DEF s, sum
  <2>5. sum <= -Len(s) BY <2>2, <2>3, SumBounded
  <2>6. Len(s) \in Nat \ {0} BY <2>2
  <2> QED BY <1>3, <2>2, <2>4, <2>5, <2>6, MeanBelow
<1>7. max_size_ = 0 \/ \E i \in DOMAIN denergy_.values_ : denergy_.values_[i] > 0
  <2> DEFINE s == denergy_.values_
  <2>1. s \in Seq(Sample) BY <1>5 DEF LastN
  <2> HIDE DEF s
  <2>2. DOMAIN s = 1..Len(s) /\ \A i \in 1..Len(s) : s[i] \in Int /\ s[i] # 0
    BY <2>1 DEF Sample
  <2>3. (\A i \in 1..Len(s) : s[i] < 0) \/ \E i \in DOMAIN s : s[i] > 0 BY <2>2
  <2> QED BY <1>6, <2>3 DEF Discharged, s
<1>8. denergy_' = denergy_ /\ max_size_' = max_size_ /\ last_' = last_ /\ charge' = charge
  BY <1>2 DEF monitor, world
<1>9. CrashExplained' BY <1>7, <1>8 DEF CrashExplained
<1> QED BY <1>8, <1>9 DEF SamplesInv, Summed

\* Every step keeps the sum of the samples.
LEMMA SamplesStep == SamplesInv /\ [Next]_vars => SamplesInv'
<1> SUFFICES ASSUME SamplesInv, [Next]_vars PROVE SamplesInv'
  OBVIOUS
<1>1. CASE Run
  <2>1. on_device(Device) /\ run' = "running" /\ max_size_' = max_size_ /\ charge' = charge
    BY <1>1 DEF Run, world
  <2> QED BY <2>1, SamplesKept
<1>2. CASE OnEvent \/ OnTimer
  <2>1. PICK devs : on_device(devs) BY <1>2 DEF OnEvent, OnTimer
  <2>2. run' = "running" /\ max_size_' = max_size_ /\ charge' = charge
    BY <1>2 DEF OnEvent, OnTimer, Running, world
  <2> QED BY <2>1, <2>2, SamplesKept
<1>3. CASE OnScreen /\ blanked
  <2>1. on_device(Device) /\ run' = "running" /\ max_size_' = max_size_ /\ charge' = charge
    BY <1>3 DEF OnScreen, Running, world
  <2> QED BY <2>1, SamplesKept
<1>4. CASE RunCrashes \/ OnEventCrashes \/ OnScreenCrashes \/ OnTimerCrashes
  BY <1>4, CrashIsExplained
  DEF RunCrashes, OnEventCrashes, OnScreenCrashes, OnTimerCrashes
<1>5. CASE /\ UNCHANGED <<monitor, max_size_>> /\ charge' \in {charge} \cup 0..EnergyFull
           /\ run' \in {run, "stopped"}
  <2>1. charge' \in Int BY <1>5, UdevAssumption DEF SamplesInv
  <2>2. /\ denergy_' = denergy_ /\ max_size_' = max_size_ /\ last_' = last_
        /\ run' \in {run, "stopped"}
    BY <1>5 DEF monitor
  <2>3. CrashExplained' BY <2>2 DEF CrashExplained, SamplesInv
  <2> QED BY <2>1, <2>2, <2>3 DEF SamplesInv, Summed
<1>6. \/ Run \/ OnEvent \/ OnTimer \/ (OnScreen /\ blanked)
      \/ RunCrashes \/ OnEventCrashes \/ OnScreenCrashes \/ OnTimerCrashes
      \/ /\ UNCHANGED <<monitor, max_size_>> /\ charge' \in {charge} \cup 0..EnergyFull
         /\ run' \in {run, "stopped"}
  BY DEF Next, Handler, Reactor, OnScreen, OnScreenThrows, OnTimerAborted,
         OnError, UdevReady, ScreenReady, TimerExpires, ChargeChanges,
         SupplyChanges, BlankChanges, vars, loop, world
<1> QED BY <1>1, <1>2, <1>3, <1>4, <1>5, <1>6

\* With nothing sampled the sum is 0.
LEMMA SamplesInit == Init => SamplesInv
<1> SUFFICES ASSUME Init PROVE SamplesInv OBVIOUS
<1>1. max_size_ \in Nat /\ charge \in Int
  BY UdevAssumption DEF Init, InitMonitor
<1>2. last_ = [f \in Fields |-> last_[f]] /\ last_.EnergyNow \in Int
  BY UdevAssumption DEF Init, InitMonitor, Fields
<1>3. NoSamples \in LastN /\ Summed(NoSamples)
  <2>1. <<>> \in Seq(Int) /\ <<>> \in Seq(Sample) /\ Len(<<>>) = 0 OBVIOUS
  <2>2. SumTo(<<>>)[0] = 0 BY <2>1, SumToAt
  <2> QED BY <1>1, <2>1, <2>2 DEF NoSamples, LastN, Summed, SumOf
<1>4. denergy_ = NoSamples BY DEF Init, InitMonitor
<1>5. CrashExplained BY DEF Init, CrashExplained
<1> QED BY <1>1, <1>2, <1>3, <1>4, <1>5 DEF SamplesInv

\* The sum that LastN keeps is that of its samples, which are no more than its
\* bound, whatever the uninitialized bound is (59-99).
THEOREM SamplesSummedHolds == Spec => []SamplesSummed
<1>1. SamplesInv => SamplesSummed BY DEF SamplesInv, Summed, SamplesSummed
<1> QED BY <1>1, SamplesInit, SamplesStep, PTL DEF Spec

\* A division by the average is by 0 only when the bound is 0, or a discharge
\* is averaged with samples of charging (559), for every rate and bound.
THEOREM CrashExplainedHolds == Spec => []CrashExplained
<1>1. SamplesInv => CrashExplained BY DEF SamplesInv
<1> QED BY <1>1, SamplesInit, SamplesStep, PTL DEF Spec
=============================================================================
