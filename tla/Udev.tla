------------------------------- MODULE Udev --------------------------------
(***************************************************************************)
(* Monitor and BatteryNs of src/src/udev/provider_udev.cpp: the namespace  *)
(* "Battery".  One thread runs an asio loop with three handlers: a device  *)
(* event of udev, a change of the property Screen.Blanked, and a timer     *)
(* that polls.  Each of them cancels the timer and arms it again, reads    *)
(* devices into current_, and notify publishes what differs from last_.    *)
(*                                                                         *)
(* A completed operation is appended to the queue of the loop, "ready",    *)
(* and its handler runs to the end before the next one.  cancel() has no   *)
(* effect on a wait whose handler is already queued, and queues the        *)
(* handler of one that is still pending, as "aborted".  A wait lasts a     *)
(* second or more and the loop handles a queued timer sooner than that, so *)
(* no second wait expires while one is queued.                             *)
(*                                                                         *)
(* After notify last_ equals current_ (copy_apply_if_changed copies every  *)
(* field), so the state between two handlers holds only last_, and of its  *)
(* BatTime only what is used: dt, the seconds since the last reading of    *)
(* the battery.                                                            *)
(* The lengths of the waits (dtimer_sec_) and Temperature are left out.    *)
(*                                                                         *)
(* LastN is constructed with max_size_(max_size_), an uninitialized value: *)
(* any of MaxSizes.  Dividing by an average of 0 is undefined too: the     *)
(* process dies where the processor traps, and gets 0 where it does not.   *)
(***************************************************************************)
EXTENDS Integers, Sequences

CONSTANTS Chargers,     \* the devices of type Mains or USB
          EnergyFull,   \* energy_full of the battery
          EnergyGuess,  \* the energy that last_ starts with
          MaxSizes,     \* what max_size_ may hold
          MaxElapsed,   \* the longest time between two readings, in seconds
          MaxChanges    \* of the devices and the screen

ASSUME UdevAssumption == /\ EnergyFull \in Nat \ {0} /\ EnergyGuess \in Nat
                         /\ MaxSizes \subseteq Nat /\ MaxElapsed \in Nat
                         /\ MaxChanges \in Nat

Battery == "battery"
Device == Chargers \cup {Battery}

VARIABLES last_, denergy_, charger_state_, pub,   \* Monitor, and the properties
          max_size_,                \* of denergy_
          run, armed, ready,        \* the loop, its timer and its queue
          udev_wait, screen,        \* reads of the two descriptors
          charge, supply, blanked,  \* the devices
          events, blank_event,      \* what they have to tell
          changes
monitor == <<last_, denergy_, charger_state_, pub>>
loop == <<run, armed, ready, udev_wait, screen>>
world == <<charge, supply, blanked, changes>>
news == <<events, blank_event>>
vars == <<monitor, max_size_, loop, world, news>>

----------------------------------------------------------------------------
(* Arithmetic of long: the quotient is truncated towards zero.             *)

Abs(n) == IF n < 0 THEN -n ELSE n
Quot(a, b) == IF (a < 0) = (b < 0) THEN Abs(a) \div Abs(b)
              ELSE -(Abs(a) \div Abs(b))

\* of the first n numbers of s
SumTo(s) == LET sum[n \in 0..Len(s)] == IF n = 0 THEN 0 ELSE sum[n - 1] + s[n]
            IN  sum

SumOf(s) == SumTo(s)[Len(s)]

----------------------------------------------------------------------------
(* LastN: the last samples, and their sum.                                 *)

NoSamples == [sum_ |-> 0, values_ |-> <<>>]

clear(n) == NoSamples

\* mutant: the sample that goes is not taken off the sum
push_unsubtracted(n, v) ==
  LET pushed == Append(n.values_, v)
  IN  [sum_ |-> n.sum_ + v,
       values_ |-> IF Len(pushed) > max_size_ THEN Tail(pushed) ELSE pushed]

push(n, v) ==
  LET pushed == Append(n.values_, v)
  IN  IF Len(pushed) > max_size_
      THEN [sum_ |-> n.sum_ - Head(pushed) + v, values_ |-> Tail(pushed)]
      ELSE [sum_ |-> n.sum_ + v, values_ |-> pushed]

precision_ == 10

average(n) == IF n.values_ = <<>> THEN 0
              ELSE Quot(Quot(n.sum_ * precision_, Len(n.values_)), precision_)

----------------------------------------------------------------------------
(* notify, for the reading "current" taken dt seconds after the last one.  *)

rate(current, dt) ==
  IF dt = 0 THEN 0 ELSE Quot(current.EnergyNow - last_.EnergyNow, dt)

\* mutant: a rate of 0 is a sample like any other
sampled_always(de) == push(denergy_, de)

sampled(de) == IF de = 0 THEN denergy_ ELSE push(denergy_, de)

\* the lambda process_energy; "quotient" is what a division by 0 results in
process_energy(current, de, samples, quotient) ==
  LET avg == average(samples)
      Time(energy) == IF avg = 0 THEN quotient ELSE Quot(energy, avg)
  IN  CASE de = 0 -> current
        [] de < 0 -> [current EXCEPT !.TimeToLow = Time(-current.EnergyNow),
                                     !.TimeToFull = 0, !.Power = avg]
        [] OTHER  -> [current EXCEPT
                        !.TimeToLow = 0,
                        !.TimeToFull = Time(EnergyFull - current.EnergyNow),
                        !.Power = avg]

\* the actions of copy_apply_if_changed, each for a field that has changed
publish(current) ==
  LET Show(field, value, shown) ==
        IF current[field] = last_[field] THEN shown ELSE value
  IN  [ChargePercentage |-> Show("Capacity", current.Capacity,
                                 pub.ChargePercentage),
       TimeUntilLow  |-> Show("TimeToLow", current.TimeToLow, pub.TimeUntilLow),
       TimeUntilFull |-> Show("TimeToFull", current.TimeToFull,
                              pub.TimeUntilFull),
       IsCharging    |-> Show("IsOnline", current.IsOnline, pub.IsCharging),
       Power         |-> Show("Power", current.Power, pub.Power),
       OnBattery     |-> Show("Power", current.Power < 0, pub.OnBattery)]

\* the samples are cleared when IsOnline has changed, but not when it is the
\* only field that has
keeps_samples(current, dt) ==
  \/ current.IsOnline = last_.IsOnline
  \/ dt = 0 /\ \A f \in DOMAIN current \ {"IsOnline"} : current[f] = last_[f]

notify(read, dt) ==
  LET de == rate(read, dt)
      samples == sampled(de)
      current == process_energy(read, de, samples, 0)
  IN  /\ last_' = current
      /\ pub' = publish(current)
      /\ denergy_' = IF keeps_samples(current, dt) THEN samples
                     ELSE clear(samples)

\* - enow / de, with an average of 0
DividesByZero(read, dt) ==
  LET de == rate(read, dt)
  IN  de < 0 /\ average(sampled(de)) = 0

----------------------------------------------------------------------------
(* on_device for the devices that are read, after_enumeration, and notify. *)

Online(state) == \E c \in DOMAIN state : state[c]

\* mutant: a device event does not look at the chargers
after_enumeration_none(state) == last_.IsOnline

after_enumeration(state) == Online(state)

percent(energy) == (100 * energy) \div EnergyFull

\* map::insert: a charger that is known keeps its state
on_charger(devs) ==
  LET seen == {c \in devs \cap Chargers : supply[c] # "absent"}
  IN  [c \in DOMAIN charger_state_ \cup seen |->
         IF c \in DOMAIN charger_state_ THEN charger_state_[c]
         ELSE supply[c] = "online"]

\* mutant: the battery's energy is read, and not its level
on_battery_energy(current) == [current EXCEPT !.EnergyNow = charge]

on_battery(current) == [current EXCEPT !.EnergyNow = charge,
                                       !.Capacity = percent(charge)]

reading(devs) ==
  LET current == [last_ EXCEPT !.IsOnline = after_enumeration(on_charger(devs))]
  IN  IF Battery \in devs THEN on_battery(current) ELSE current

Elapsed(devs) == IF Battery \in devs THEN 0..MaxElapsed ELSE {0}

on_device(devs) ==
  /\ charger_state_' = on_charger(devs)
  /\ \E dt \in Elapsed(devs) : notify(reading(devs), dt)

Crash(devs) == /\ \E dt \in Elapsed(devs) : DividesByZero(reading(devs), dt)
               /\ run' = "crashed"
               /\ UNCHANGED <<monitor, max_size_, armed, ready, udev_wait,
                              screen, world, news>>

----------------------------------------------------------------------------
(* The timer.  Arming it cancels what is pending; the handler of a wait    *)
(* that was cancelled returns at once.                                     *)

\* mutant: the screen's handler cancels the timer and does not arm it again
monitor_timer_screen(q) ==
  /\ armed' = ~(ready # <<>> /\ Head(ready) = "screen")
  /\ ready' = IF armed THEN Append(q, "aborted") ELSE q

monitor_timer(q) == /\ armed' = TRUE
                    /\ ready' = IF armed THEN Append(q, "aborted") ELSE q

Running(handler) == run = "running" /\ ready # <<>> /\ Head(ready) = handler

----------------------------------------------------------------------------
(* The monitor.                                                            *)

InitMonitor ==
  /\ last_ = [IsOnline |-> FALSE, EnergyNow |-> EnergyGuess, Power |-> 0,
              Capacity |-> 100, TimeToLow |-> 36000, TimeToFull |-> 0]
  /\ denergy_ = NoSamples /\ max_size_ \in MaxSizes
  /\ charger_state_ = <<>>
  /\ pub = [ChargePercentage |-> 97, OnBattery |-> TRUE, TimeUntilLow |-> 3600,
            TimeUntilFull |-> 0, IsCharging |-> FALSE, Power |-> 0]

Init == /\ InitMonitor
        /\ run = "init" /\ armed = FALSE /\ ready = <<>>
        /\ udev_wait = FALSE /\ screen = "none"
        /\ charge \in 0..EnergyFull
        /\ supply \in [Chargers -> {"absent", "offline", "online"}]
        /\ blanked \in BOOLEAN
        /\ events = <<>> /\ blank_event = FALSE
        /\ changes = 0

\* Monitor::run; Screen.Blanked may not be there to be opened
Run == /\ run = "init"
       /\ on_device(Device)
       /\ run' = "running" /\ monitor_timer(ready) /\ udev_wait' = TRUE
       /\ screen' \in {"none", "wait"}
       /\ UNCHANGED <<max_size_, world, news>>

RunCrashes == run = "init" /\ Crash(Device)

\* on_event, for the device of the first event
OnEvent ==
  /\ Running("udev") /\ events # <<>>
  /\ on_device({Head(events)}) /\ events' = Tail(events)
  /\ monitor_timer(Tail(ready)) /\ udev_wait' = TRUE
  /\ UNCHANGED <<max_size_, run, screen, world, blank_event>>

OnEventCrashes == Running("udev") /\ events # <<>> /\ Crash({Head(events)})

OnScreen ==
  /\ Running("screen")
  /\ IF blanked THEN on_device(Device) ELSE UNCHANGED monitor
  /\ screen' = "wait" /\ monitor_timer(Tail(ready))
  /\ UNCHANGED <<max_size_, run, udev_wait, world, news>>

OnScreenCrashes == Running("screen") /\ blanked /\ Crash(Device)

\* read_some throws: error_trace_nothrow ends the handler after the cancel
OnScreenThrows ==
  /\ Running("screen") /\ screen' = "dead"
  /\ armed' = FALSE
  /\ ready' = IF armed THEN Append(Tail(ready), "aborted") ELSE Tail(ready)
  /\ UNCHANGED <<monitor, max_size_, run, udev_wait, world, news>>

OnTimer ==
  /\ Running("timer")
  /\ on_device(Device) /\ monitor_timer(Tail(ready))
  /\ UNCHANGED <<max_size_, run, udev_wait, screen, world, news>>

OnTimerCrashes == Running("timer") /\ Crash(Device)

\* mutant: a wait that was cancelled polls too
OnTimerAborted_polls ==
  /\ Running("aborted")
  /\ on_device(Device) /\ monitor_timer(Tail(ready))
  /\ UNCHANGED <<max_size_, run, udev_wait, screen, world, news>>

OnTimerAborted ==
  /\ Running("aborted") /\ ready' = Tail(ready)
  /\ UNCHANGED <<monitor, max_size_, run, armed, udev_wait, screen, world, news>>

\* a handler is told of an error on its descriptor: io_.stop()
OnError == /\ Running("udev") \/ Running("screen")
           /\ run' = "stopped" /\ armed' = FALSE
           /\ UNCHANGED <<monitor, max_size_, ready, udev_wait, screen, world, news>>

----------------------------------------------------------------------------
(* The reactor: an operation completes.                                    *)

UdevReady ==
  /\ run = "running" /\ udev_wait /\ events # <<>>
  /\ udev_wait' = FALSE /\ ready' = Append(ready, "udev")
  /\ UNCHANGED <<monitor, max_size_, run, armed, screen, world, news>>

ScreenReady ==
  /\ run = "running" /\ screen = "wait" /\ blank_event
  /\ screen' = "ready" /\ blank_event' = FALSE /\ ready' = Append(ready, "screen")
  /\ UNCHANGED <<monitor, max_size_, run, armed, udev_wait, world, events>>

TimerExpires ==
  /\ run = "running" /\ armed /\ ~\E i \in DOMAIN ready : ready[i] = "timer"
  /\ armed' = FALSE /\ ready' = Append(ready, "timer")
  /\ UNCHANGED <<monitor, max_size_, run, udev_wait, screen, world, news>>

----------------------------------------------------------------------------
(* The devices.  A charger announces each change; a battery may.  They     *)
(* change while the monitor runs; before that, any state is an initial one. *)

Changes == run = "running" /\ changes < MaxChanges /\ changes' = changes + 1

ChargeChanges ==
  /\ Changes
  /\ charge' \in 0..EnergyFull \ {charge}
  /\ events' \in {events, Append(events, Battery)}
  /\ UNCHANGED <<monitor, max_size_, loop, supply, blanked, blank_event>>

SupplyChanges ==
  /\ Changes
  /\ \E c \in Chargers, s \in {"offline", "online"} :
       /\ s # supply[c] /\ supply' = [supply EXCEPT ![c] = s]
       /\ events' = Append(events, c)
  /\ UNCHANGED <<monitor, max_size_, loop, charge, blanked, blank_event>>

BlankChanges ==
  /\ Changes /\ screen # "none"
  /\ blanked' = ~blanked /\ blank_event' = TRUE
  /\ UNCHANGED <<monitor, max_size_, loop, charge, supply, events>>

Handler == \/ OnEvent \/ OnEventCrashes
           \/ OnScreen \/ OnScreenCrashes \/ OnScreenThrows
           \/ OnTimer \/ OnTimerCrashes \/ OnTimerAborted \/ OnError

Reactor == UdevReady \/ ScreenReady \/ TimerExpires

Next == \/ Run \/ RunCrashes \/ Handler \/ Reactor
        \/ ChargeChanges \/ SupplyChanges \/ BlankChanges

Spec == Init /\ [][Next]_vars

\* the thread runs its handlers, and waits end
Fairness == WF_vars(Run) /\ WF_vars(Handler)
            /\ WF_vars(UdevReady) /\ WF_vars(ScreenReady) /\ WF_vars(TimerExpires)

FairSpec == Spec /\ Fairness

----------------------------------------------------------------------------
(* Properties.                                                             *)

\* The sum of LastN (59-99) is that of the samples it holds, and it holds no
\* more than max_size_, whatever was pushed, dropped and cleared.
SamplesSummed == /\ denergy_.sum_ = SumOf(denergy_.values_)
                 /\ Len(denergy_.values_) <= max_size_

\* While the monitor runs, the timer is pending or its handler is queued: three
\* handlers cancel it (431, 458, 654) and arm it again.  The one that does leave
\* it cancelled is excused: the screen's, when its read throws (458, 466).
PollAlive == run = "running" /\ screen # "dead" =>
               armed \/ \E i \in DOMAIN ready : ready[i] = "timer"

\* IsCharging says what charger_state_ says, in whichever handler a charger
\* was first seen (493-500, 521, 576).
ChargingShown == pub.IsCharging = Online(charger_state_)

\* The division by the average (559) is by 0 only when the bound on the
\* samples is 0, or samples of charging are among those that a discharge is
\* averaged with: a rate of 0 is no sample.
CrashExplained ==
  run = "crashed" => \/ max_size_ = 0
                     \/ \E i \in DOMAIN denergy_.values_ : denergy_.values_[i] > 0

Alive == run = "running" /\ screen # "dead"

\* A level that stays is shown in the end, and from then on, as long as the
\* monitor is alive.  The one exception is a battery that is full whenever it
\* is read: last_ starts with 100 (397), so its level never differs from last_
\* and the property keeps its default (302).  A battery that becomes full after
\* a lower level was read is none.
EventuallyShown ==
  \A c \in 0..EnergyFull :
    <>[](Alive /\ charge = c) /\ <>(percent(c) # 100 \/ last_.Capacity # 100)
      => <>[](pub.ChargePercentage = percent(c))

\* The loop comes to rest again and again: cancelling and arming the timer
\* in its own handlers never keeps it busy (639-642).
LoopRests == []<>(ready = <<>> \/ run # "running")
============================================================================
