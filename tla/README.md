# Models of statefs-providers

statefs-providers is a set of plug-ins for the statefs server.  A provider
publishes properties (small files) in a namespace and keeps them equal to the
state of some daemon or device.  Paths below are relative to the repository,
which is checked out under `src/`; so the oFono bridge is
`src/src/ofono/provider_ofono.cpp`.

## 1. Inventory

| component | state it keeps | operations | talks to |
|---|---|---|---|
| `src/ofono` Bridge, MainNs ("Cellular") | proxies `manager_ modem_ sim_ network_ operator_ stk_ connectionManager_`, `interfaces_`, `has_sim_`, `status_`, `network_name_`, contexts, MMS context | `init`, `setup_*`, `reset_*`, `set_status`, `process_interfaces`, one lambda per D-Bus signal | oFono: blocking calls and signals |
| `src/upower` Bridge, PowerNs ("Battery") | `manager_ device_ device_path_ last_values_` | `update_all_props`, `try_get_battery`, `init_manager`, `reset_device` | UPower: one asynchronous call, property reads, signals |
| `src/connman` Bridge, InternetNs ("Internet") | `manager_ service_ current_service_ technologies_ tethering_` | `process_manager_props`, `process_services`, `process_service`, `process_technologies`, `process_technology`, `reset_manager` | ConnMan |
| `src/bluez` Bridge, BlueZ ("Bluetooth") | `manager_ adapter_ devices_ connected_` | `setup_manager`, `reset_manager`, `defaultAdapterChanged`, `addDevice`, `removeDevice` | BlueZ 4 |
| `src/back_cover` BackCoverMonitor ("BackCover") | `m_fd m_slot m_val m_thread m_mutex` | `connect`, `disconnect`, `read`, `run_thread` | an input device, threads of the server |
| `src/udev` Monitor, BatteryNs ("Battery") | `last_ current_ denergy_ battery_ charger_state_`, one timer | `on_device`, `notify`, `monitor_events`, `monitor_screen`, `monitor_timer` | libudev, boost::asio, "Screen.Blanked" |
| `src/bme` BatteryNs ("Battery"), `bmeipc.c` | `xchg`, two descriptors to poll, `exit_handler`, the listener | `initialize_bme`, `start_listening`, `onBMEEvent`, `readBatteryValues`, the destructor; `bme_xchg_open`, `bme_inotify_watch_add` and `_rm`, `bme_open`, `bme_stat_get` | the BME server, inotify, eventfd |
| `src/keyboard_generic` KeyboardNs ("maemo_InternalKeyboard") | `keyboards_`, the monitor and its thread | constructor, `on_input_device`, the monitor's read loop, destructor | libudev, boost::asio |
| `src/mce` Bridge ("System", "Screen") | `request_ signal_` | `init_request`, one lambda per indication, `reset_all` | MCE: blocking calls and signals |
| `src/profile` Bridge ("Profile") | `profiled_` | `init_conn`, `on_changed`, `reset_all` | profiled |
| `src/util/ns.cpp`, `include/statefs/qt` | `setters_for_props_`; the service watcher | `setProperties`, `updateProperty`, `addProperty`; `ServiceWatch::init` | used by the five Qt bridges |
| `inout`, `examples`, `tests`, `rpm`, `doc` | none | configuration, examples, packaging | |

How they interact.  The providers do not call each other.  A Qt bridge lives in
one event loop: a handler runs to its end, and blocks that loop in every
`sync(...)` call it makes, while the daemon goes on and its signals queue up.
`ServiceWatch` calls the bridge's registration lambdas when the daemon's name
changes owner.  `PropertiesSource` passes values to its `Namespace`, which
looks the setter up by name.  `back_cover` and `bme` have a thread of their own
beside the server's, `udev` and `keyboard_generic` an asio loop in one.

What is hard in this code: a handler that reads, then connects to the changes;
a signal that is older than what a blocking call has answered; a proxy that
outlives the object, or the daemon, it stands for; `set_status`, which calls
itself through the functions it calls; six reads that make one update; and, in
`back_cover`, two threads that share fields under a mutex, or under nothing but
the order of starting and joining a thread.  `bme` has a watch on a file that
its server may replace, and three ways to lose it; `keyboard_generic` a
listing and a stream of events that overlap.  `PROJECT.json` lists each of these
hazards at its line with the properties that are for it.

What makes each component right:

* a Qt bridge is a *mirror*: once every signal is handled, what is published is
  the daemon's state, or the defaults when there is no daemon; and at every
  moment it is at least about objects the bridge still has;
* `back_cover` is a mirror of a switch whose thread never touches what
  `disconnect` has taken away, never leaves its mutex locked, and always ends;
* `udev` must never stop reading, and `bme` must keep its watch, or be able to
  say why it has none;
* `keyboard_generic` must know the keyboards that are there, whatever came and
  went while it listed them;
* a provider that owns a thread must be able to be destroyed.

## 2. Modules

| module | stands for | uses |
|---|---|---|
| `OfonoBridge` | the oFono bridge, alone, against any signal and any answer | |
| `OfonoSystem` | the same bridge with oFono and the queue of signals | extends `OfonoBridge`, and implements it; `Signals` |
| `UPower` | the UPower bridge and UPower | `Signals` |
| `Connman` | the ConnMan bridge and ConnMan | `Signals` |
| `Bluez` | the BlueZ bridge, `Namespace`, and BlueZ | `Signals` |
| `BackCover` | the monitor, its thread, the server's client, the device | |
| `Udev` | the battery's monitor, its asio loop, the devices | |
| `Bme` | the listener, its client library, the BME server and its file | |
| `Keyboard` | the set of keyboards, the monitor's thread, udevd, the socket | |
| `Mirror` | what a bridge promises about one value of its daemon (abstract) | |
| `Mce` | the MCE bridge and MCE | `Signals`; `Mirror`, three instances |
| `Profile` | the profile bridge and profiled | `Signals`; `Mirror` |
| `Signals` | the queue of the signals that wait for a bridge's event loop, and what is left of it when a proxy is deleted | |
| `Providers` | the five providers that share nothing | `BackCover`, `Bme`, `Keyboard`, `Mce`, `Profile` |
| `SignalsProofs` | lemmas about that queue | `Signals` |
| `OfonoProofs` | theorems about the oFono bridge, alone and beside oFono | `OfonoSystem` |
| `UPowerProofs`, `ConnmanProofs`, `BluezProofs`, `UdevProofs` | theorems about these | the module of the name |
| `ListenerProofs` | theorems about the back cover, BME and the keyboards, which have a thread that listens | `Providers` |
| `MirrorProofs` | theorems about MCE and profiled, and that they are mirrors | `Providers` |
| `MC...` | the values the `.cfg` files give to the constants | |

Names are the code's.  `PROJECT.json` maps every definition to its lines;
numbers in comments are lines of the module's source file.  Definitions whose
comment begins with `mutant:` are not part of a specification: they are
plausible mistakes that the properties are known to notice.

**OfonoBridge.**  The bridge is one record `b`; a member function is an
operator that takes a bridge and returns the bridge it leaves, so an action is
the composition the handler makes, in the order it makes it.  `set_status` is
recursive in the code, through `setup_sim`, `setup_network` and
`enumerate_operators`.  The recursion is two deep: the inner call is made with
the outer status already assigned and cannot become registered again.  So the
functions on the way take `set_status` as a parameter, `assign_status` is the
inner one and `set_status` the whole.  The answers to the calls of one handler
are a record `r` chosen by the environment.  Strings are reduced to what
decides something: a network's name is `""` or `"net"`, an operator's `""` or
`"op"`, so that their precedence in `set_name` is visible.

**OfonoSystem** adds the daemon (`up modem ifs present net ctx`) and `q`, the
signals on their way.  A call answers the daemon's state now (`snapshot`); a
signal carries the state it was sent with.  Only a connected proxy receives
(`Subscribed`), and what waits for a proxy is lost with it, as in Qt since 5.6;
`Handle` filters `q` with the bridge it leaves.  The blocking calls of a
handler are one step here.  Three functions connect after they read, and what
the daemon emits in between is lost: `connect_manager` (`GetModems` at 581, the
modem's signals at 537, the manager's at 593-601), `setup_sim` (784-803) and
`setup_stk` (662-676).  The first two windows are steps: `GetModems` reads the
modem into `listed`, and the daemon may move before the rest of
`connect_manager`; `connecting` holds the proxies that a handler has still to
connect when it ends, until `Connect`.  A signal that nobody hears for this
(`Unheard`) is noted in the ghost `missed`, which the properties excuse, since
the code has no way to see it.  The window of `setup_stk` is not a step: the
toolkit's text has one value in `OfonoSystem`, and no property there is about
it.  A modem that `ModemAdded` tells of is connected to when that signal is
handled; what changed since it was sent is not heard either, and a modem that
came or went is excused from what is shown of it (`replugged`).  `Connman`,
`Bluez` and `UPower` let the daemon move between any two calls of a handler:
there `todo` is what the running handler has still to do.

**UPower.**  `todo` is made of reads, one per property, and `apply`, which
publishes the fields that differ from `last_values_` in the order of the tuple
of actions.  `calls` counts `EnumerateDevices` calls not yet answered; answers
and signals come through `q` in the daemon's order.

**Connman, Bluez.**  A proxy is read before its signal is connected in several
places; a change that falls between is lost for good.  The models allow it, and
note it in the ghost variable `missed`: the mirror properties speak of
behaviours in which this did not happen, and so cover everything else (stale
signals, restarts, replaced proxies).  In `Bluez` a device's proxy is deleted with
the device, and what its signals had to say with it (`Unheard`).  A match rule is assumed to reach the bus
with the first blocking call made after `connect`.

**BackCover.**  `todo` is what `connect` or `disconnect` has still to do, in
the server's thread; `reader` is where `run_thread` is; `m_mutex` is who holds
it.  Cancellation is deferred: it acts where the thread enters or sits in
`read(2)`, and may act inside `on_changed`.  The server is external: it
connects, reads and disconnects a property in this order, and its client reads
after every notification.

**Udev.**  `ready` is the queue of the loop: handlers of operations that have
completed, run in order and each to its end.  `cancel()` turns a pending wait
into a queued handler "aborted" and has no effect on one whose handler is
queued already; a wait lasts at least a second, which is longer than the loop
leaves a timer's handler queued.  `last_` and `current_` are equal between two
handlers, so `last_` stands for both, and `notify` computes the next one from
what was read and `dt`, the seconds since the last reading.  The bound of
`LastN` is read before it is set: `max_size_` is any of `MaxSizes`.  The
division by an average of 0 is undefined: the process dies (`Crash`) or gets 0,
in each of the handlers that notify and in `run` itself (`RunCrashes`).
Of the calls that may throw only `read_some` is modelled (`OnScreenThrows`),
since what libudev's wrapper throws is not part of the repository.

**Bme.**  `job` is what `initialize_bme`, or the listener's handling of an
event, has still to do, one system call or exchange with the server a step, so
that the server and its file may move between any two.  `watch` is what the
inotify descriptor watches: a file, not its name.  A file that has lost its name
is `"other"` until it is closed by whoever has it open; only then the kernel
says `DELETE_SELF` and `IGNORED`.  `Answers` are what `bme_recv` makes of what
arrives, for an old server (status 0) and a new one (the size of the body).
`xchg` is `"wild"` until it is assigned, which an early return of the
constructor may prevent.  The server is external: it writes its file after
each change, as the listener assumes, and may stop, restart, hang, or find its
file moved or deleted.  The ghosts say what the code cannot see: `lost`, the
watched file has lost its name; `stale`, a write was not heard since, or the
last query failed; `addFailed` and `reopenFailed`, which of the two callers of
`bme_inotify_watch_add` was refused.

**Keyboard.**  `constructing` is what the constructor has still to do: create
the monitor, list, look at each listed device, queue the read, start the
thread.  `announced` are udevd's events not yet sent, `socket` those received;
a socket that is full forgets, and says so once (`overrun`).  `is_keyboard` is
libcor's and reads sysfs, hence the devices as they are when it is called; a
device that is no longer there has no path, of which the code makes a string.

**Mce, Profile, Mirror.**  `initRequest` and `initConn` are what the running
handler has still to call.  Both read before they connect; `unseen` and
`unheard` note a change that falls in between.  `Mirror` says what remains
true even then: what is shown is a value the daemon had, and never an older one
than was shown before.  For this the daemon's values are numbered, and what is
published carries the number it came with; the bridge never looks at it.
MCE's three states are three mirrors.  MCE's values stay when it goes;
profiled's does not.

**Providers.**  The plug-ins are loaded into one server and share no state, so
every behaviour of several of them is, seen by each, a behaviour of its own.
It is therefore enough to follow any one at a time: `provider` names it and
never changes, and the others stay in one of their initial states.  One run
then answers for the five, with the fairness of the one that is followed.

**Signals.**  What waits in the event loop is a sequence, and deleting a proxy
takes its signals out of it.  `LeftOf` is the recursive function that does so,
since the proofs need to know what becomes of each signal; `Without` takes out
all of a kind, which is what the bridges do.

**Properties in parts.**  The mirror properties of the larger bridges are
conjunctions of named parts: `CellularShown` of `OfonoSystem` (`NetworkShown`,
`NoNetworkShown`, `MmsShown`), `InternetShown` of `Connman` (`StateShown`,
`ServiceShown`, `TetheringShown`), `BluetoothShown` of `Bluez`
(`AdapterShown`, `ConnectedKnown`, `ConnectedShown`) and `PowerShown` of
`UPower` (`BatteryShown`, `BatteryFound`, `DefaultsShown`).

## 3. Runs

| run | module, cfg | result | shows |
|---|---|---|---|
| `ofono_registration` | MCOfonoBridge, OfonoRegistration | 15 751 states | SIM, status, proxies and the published status stay consistent through every nesting of `set_status` |
| `ofono_contexts` | MCOfonoBridge, OfonoContexts | 26 892 | types; the toolkit's text and the MMS context belong to live objects |
| `ofono_system` | MCOfonoSystem, OfonoSystem | 291 443 | the mirror of the network, of its absence and of the MMS context, unless a signal fell between a read and its connect; it implements `OfonoBridge` |
| `upower` | MCUPower, UPower | 1.3 million | the battery is found and shown through restarts, replugging and torn updates |
| `connman` | MCConnman, Connman | 1.2 million | the state, the name and type of a service that is online, and tethering are shown through stale signals |
| `bluez` | MCBluez, Bluez | 217 297 | the default adapter and its connected devices are shown |
| `providers` | MCProviders, Providers | 446 297 | back cover: order of disconnect, mutex, lost events, and that disconnect returns; BME: the watch is kept and the statistics are shown; the keyboards that are there; MCE and profiled mirrored, never backwards; destructors return |
| `udev` | Udev, Udev | 177 200 | polling goes on and rests, a level that stays is shown, samples and their sum, what is charging, why it may divide by 0 |
| `ofono_operators` | MCOfonoBridge, OfonoOperators | violated | `status_registered_` is not {Registered, Roaming} (265) |
| `ofono_reset` | MCOfonoBridge, OfonoReset | violated | a reset of the network wipes the SIM's properties (461) |
| `connman_restart` | MCConnman, ConnmanRestart | violated | `service_` kept over a restart leaves "connected" behind (127-132) |
| `bluez_reset` | MCBluez, BluezReset | violated | defaults are not keyed like the setters (147-148) |

`CHECK_DEADLOCK FALSE` everywhere: daemons and devices have a bounded number of
changes (`MaxMoves`, `MaxToggles`, `MaxConnects`) and the system may then rest.

Bounds, and why they are enough.

* OfonoBridge has no bound but its data: one modem (the code keeps one; a
  second only overwrites `modem_`, which the action `ConnectManagerOtherModem`
  and `ModemAdded` show), two contexts (the first MMS context, and another
  that takes over), statuses "registered" and "denied", which the bitset of
  265 tells apart.
* `MaxMoves` is 5 in `ofono_system`: power, SIM, online, one more, and a
  restart.  Its statuses are two that are registrations and one that is not,
  its interface lists the ones that each need the one before: none, the SIM's,
  the network's too, and all.  `MaxMoves` is 3 for UPower, where one move may meet any of eight reads; 4
  for ConnMan (also run with 5) and 4 for BlueZ (also run with 6).
* Two batteries and a line supply; two services of different types, two
  technologies; two adapters and two devices of the first: the smallest sets
  in which there is another one to confuse with.
* `MaxToggles` 4 and `MaxConnects` 3: a change before and after each step of
  `connect`, and a reconnection after a connection that ended in any way.
* `bme`: two statistics that differ in every property, five moves of the
  server (two statistics and a replaced file with room for one more, or a
  restart), one failure of poll: the second start is the one that meets an old
  descriptor.
* `keyboard_generic`: two keyboards and a device that is none, four comings and
  goings, a socket of two: so three events in a row overrun it, and one
  keyboard may go while the other is looked at.
* `mce` three moves, and `profile` four: a restart with a change before and
  after it.  Two profiles; all sets of three radios.
* `udev`: a battery of three levels, one charger that may be absent, offline or
  online, two changes after the start (the start itself may be a first change
  of energy, `EnergyGuess`), which make a charge and a discharge among the
  samples, and bounds 0, 1 and 9 on their number: none is kept, the oldest goes,
  all are kept.

Fairness.  The bridges assume that their event loop goes on: weak fairness of
the running handler and of the delivery of queued signals (and, for UPower, of
the bus answering a call).  In `ofono_system`
the event loop is fair to queued signals (`HandleSignal`, which `GetModems` and
`Connect` may have to precede) and finishes its handlers (`Connect`).
`BackCover` assumes weak fairness of every thread
that can run; not of a device event, a failure, an opening or a closing.  `Udev` assumes
that its loop runs queued handlers and that waits and reads that can complete
do; not a change, an error or an exception.  `Bme`
assumes that a thread that can run does, and that a server that answers
answers; not that poll fails or that anybody destroys the provider.
`Keyboard` assumes the constructor, the thread, the join and udevd's sending;
`Mce` and `Profile` their event loop.  No daemon is assumed to do
anything.  All liveness properties are of the form
"once the environment rests", which the bounds make happen.

The refinements.  `ImplementsBridge` of `ofono_system` is the open
specification of `OfonoBridge`, of the bridge as it is inside the system: the
map takes `b` to itself and forgets the daemon and the queue.  Initial states
are initial states, and every step of the system is a step of the bridge or
none.  `ImplementsMirror` maps `Profile` and `Mce` to `Mirror`: the daemon's
number is `truth`, the number last published `newest`, and `shown` the same, or
`Nothing` while profiled's name is reset.  Both are proved as well (section 5).

What the properties excuse, and the code does not look for:

* `OfonoSystem`: a signal that was emitted between a read and its connect
  (`missed`); a "no-sim" that is shown for the status Offline although there is a
  SIM, after `reset_sim` set the SIM up again before it published "no-sim"
  (450-451, `ShowsNetwork`); what is shown of a network after a restart of oFono
  or when a modem came or went (`Steady`), since then `interfaces_` stays (435,
  603) and nothing is set up that is believed to be there; of the absence of a
  network (`NoNetworkShown`), a restart together with another modem or the same
  one replaced; an MMS context that is no longer shown because a reset of the
  SIM or of the network took back the whole namespace (`MmsShown`).
* `OfonoBridge`: the SIM toolkit's proxy is not among those that
  `NoModemNoProxies` says go with the modem, for neither `reset_modem` nor
  `reset_sim` resets it (435-452).
* `Connman`: what is `missed`; which of several online services is the default
  one (`ServiceShown`, see below); after a restart, "connected" with none online
  (`StateShown`, finding 3).
* `Bluez`: what is `missed`; "Connected" with no device of the default adapter
  connected (`ConnectedShown`: a device of an earlier adapter may keep it, 73).
* `Mce`, `Profile`: what is `unseen` or `unheard`.
* `BackCover`: the position at a start where EVIOCGSW fails; "off" is shown then,
  until the switch moves (`Perceived`, 253-256).
* `Bme`: a write to a file that is not watched, a query that failed and a watch
  that could not be added (`BmeShown`, `WatchKept`), and a server that hangs for
  ever, which holds the destructor too (`BmeStops`).  `BmeCrashExplained` says
  when the listener reads through a null pointer, after poll failed and the file
  could not be watched again, and when the destructor closes what was never
  opened, when there was no eventfd.
* `Keyboard`: a thread that ended because its socket overran (`KeyboardsShown`
  speaks of a monitor whose read is armed).
* `Udev`: polling after the read of Screen.Blanked has thrown, which leaves the
  timer cancelled (`PollAlive`, 458-466).

A comment of `provider_connman.cpp` (212-214) says that the first service,
ConnMan's default, is the one monitored if it is online.  The loop (208-217)
monitors the first that is online when the list is read, and that a service
before it comes online later is no signal the bridge hears: with two services,
TLC reaches such a state after one change.  `ServiceShown` therefore asks only
that the service shown is online and followed.

What `udev` shows is not all good news.  `CrashExplained` says when the process
may die; TLC reaches such states (`Crash` is taken with a bound of 9, after a
charge and a discharge).  `EventuallyShown` excludes a battery that is full
whenever it is read, since `last_` starts with the level 100 and the property
with 97, but not one that becomes full after a lower level was read; and `ChargingShown` says that the published state is the one kept in
`charger_state_`, not that it is the charger's, since `map::insert` never
overwrites.  No document of the repository says otherwise, so these are hazards
and not findings.

Each property of a passing run has a mutant in `PROJECT.json`: a changed
definition under which TLC finds the property violated.

## 4. Findings

1. `provider_ofono.cpp:265`: the literal of a `std::bitset` is read from its
   last character, so "0010001" is {NoSim, Denied}.  Operators are therefore
   never enumerated for a bridge that registers normally.
2. `provider_ofono.cpp:461`: `reset_network` resets the whole namespace.
3. `provider_connman.cpp:127-132`: `reset_manager` keeps the service's proxy.
4. `provider_bluez.cpp:147-148`: "Enabled" and "Visible" are never reset.

## 5. Proofs

The theorems hold for every value of the constants that satisfies the named
assumption of the module, and for every number of changes of the daemons and
devices: the bounds of section 3 are natural numbers of any size.

| theorems | state | assumptions |
|---|---|---|
| `OfonoProofs` | `TypeOK`, `NoSimStatus`, `NoModemNoProxies`, `OperatorOwners`, `RegistrationHonest`, `MmsContextLive`, `PublishedOwners`, `StatusChangesShown` of the bridge; `ImplementsBridge` of the system, and with it the same honesty there; `CellularShown` of the system | `BridgeAssumption`, `SystemAssumption` |
| `UPowerProofs` | `PublishedIsLast`, `PowerShown` | `UPowerAssumption` |
| `ConnmanProofs` | `ManagerThere`, `DefaultsShown`, `InternetShown` | `ConnmanAssumption` |
| `BluezProofs` | `BluetoothShown`, `NothingShown` | `BluezAssumption` |
| `ListenerProofs` | `ReaderSafe`, `MutexFree`, `CoverShown`; `WatchKept`, `BmeCrashExplained`, `BmeShown`; `KeyboardsShown` | `BackCoverAssumption`, `BmeAssumption`, `KeyboardAssumption` |
| `MirrorProofs` | `MirrorsShown`, `ImplementsMirror` | `MceAssumption`, `ProfileAssumption` |
| `UdevProofs` | `PollAlive`, `ChargingShown`, `SamplesSummed`, `CrashExplained` | `UdevAssumption` |

What is assumed of the constants: a daemon's list of devices, services or
technologies is finite, since it arrives in one reply; `None` is not among
them; oFono's answers are of the types the bridge reads; `SystemAssumption`
also says that the answers that `OfonoSystem` computes are among those
`OfonoBridge` allows.  TLC evaluates each of them in some run.

The theorems of `ListenerProofs` and `MirrorProofs` are stated for
`ProvidersSpec`, the specification that is run, and most also for the provider
alone.

### Queues

Most of the invariants speak of signals that wait, and are made of a few
predicates of a queue: none of a kind waits (`NoneIn`); if any does, the last
says so (`LastIn`); the numbers they carry do not decrease (`Rising`); whoever
waits here has one of those behind it (`Behind`, `Paired`); and, of a daemon
that comes and goes, `Life` and `Absent`.  `SignalsProofs` says what appending,
taking the head and deleting a proxy do to each.  The last needs induction over
the queue.  For the oFono bridge there are two more: each of one kind has one
of another before it, since the last of a third (`AllTold`), and two in a row
have one behind the first (`FollowedBy`).  The library's induction theorems
take an operator, which the provers cannot instantiate; `Induction` of
`SignalsProofs` takes a set instead, of the lengths for which the claim holds.
This is also why `LeftOf` is a recursive function and not `SelectSeq`, of which
the provers know nothing.

### The oFono bridge

The inductive invariant is `Inv == Good(b) /\ Owned(b)`, a predicate of
bridges.  `HonestStatus`: what is shown as a registration is `status_`.
`OwnersKept`: who holds which proxies and contexts.  `NoSimKept`: `has_sim_`
against `status_`.  `Owned`: a text is shown only with the proxy that sent it.
It is needed because the properties are not inductive: the published status
follows `status_` only as long as `status_` follows `has_sim_`.  `NoSimKept`
breaks between `has_sim_ = v.toBool()` and the `set_status(NoSim)` that
follows, so the lemmas about functions say which of `Weak` and `Good` they need
and which they give back; functions parameterised by `set_status` have one
lemma for the inner and one for the whole.  `Follows` relates the bridge before
and after a function, and is what `StatusChangesShown` needs, an action
property: however deep `set_status` went, a status that has changed has been
shown (`Exact`), or "no-sim" has.

`SystemInv` says that the daemon's state is of its types and that every signal
in `q` is one that a proxy of the bridge is connected to (`Subscribed`).  Then
`Deliver` finds the guard of the bridge's own action satisfied and is that
action, with an answer from `Replies`; the daemon's steps leave `b` alone.

### The oFono bridge and oFono

`CellularShown` speaks of an empty queue, so its invariant, `Beside`, says what
the signals that wait make up for.  It holds until a signal is emitted where
nobody hears it (`SystemSpec => [](~missed => Beside)`).  Its parts, and why each
is needed:


* `World`, `First`, `Asked`, `Shape`: nothing waits about what never happened;
  the first signal finds the bridge as it was made; between `GetModems` and the
  rest of `connect_manager` what was listed is what the daemon still has (any
  other change since would have been missed), or oFono has restarted and the
  bridge will hear of it; no list has an interface that needs
  the SIM's without it, and none is offered without a SIM.
* `ModemTold`, `InterfacesTold`, `Bare`: the words of modems that come and go
  alternate and end with the modem there is; the last list of the modem the
  bridge has is what it offers, and when none waits `interfaces_` is that, or
  it is empty, of a modem that came back and with no network left to reset.
* `SimKnown`, `NetworkKnown`, `SimTakesNetwork`: for a daemon that is `Steady`.
  An interface that the bridge believes in, with no list to the contrary
  waiting, has its proxy, and the proxy's state unless a change of it waits.
  The network hangs on the SIM: `set_status` and `setup_network` look at
  `has_sim_`, which may be older than the list.  What saves the code is that a
  SIM that comes or goes behind a list with the network is followed by a list
  without it, which `SimTakesNetwork` says and `NetworkKnown` uses.
* `ContextsKnown`: a context that is known and not about to change is the
  daemon's or absent; with a connection manager in place it is the daemon's.
* `StatusShown`: what is shown is the word of `status_` (`Exact`), while
  oFono has not left.
* `Claimed`, `StatusesTold`: a status that claims a network is one of a modem
  that lists it; a status signal has a list with the network before it, or is
  heard by a bridge that has one.
* `OwnerTold`, `Restored`, `Withdrawn`: after a restart (`Crash`).  The word of
  the last start or stop waits behind all that the old oFono sent; the lists of
  the old and the new one may wait together, and then the new one's is last or
  equals what a start leaves.

For each part there is one lemma about the steps of the daemon and one about
the delivery of a signal (`SimKnownDaemon`, `SimKnownDeliver`).  The first rest
on what each step of the daemon sends (`DaemonSends`, `Unsent`, `Changes`);
the second on what each handler makes of the bridge (`Handled`, by the lemmas
`...Effect`, which say which fields a function leaves alone and what `status_`
is after it) and on what remains in the queue when a proxy is dropped
(`Carried`, `KeepsKinds`).

### The mirrors

The other mirrors have invariants of the same shape.  Some part of the chain
from the daemon to the property is always responsible for the difference
between them: the daemon's start is on its way, the handler is about to read,
the last signal on its way says what the daemon is now, or it is shown.

* `PowerInv` (UPower): the handler's steps are in the code's order (`Types`);
  what is being read is right unless a change of it waits (`Shown`); a battery
  is being listed, named in the queue, or to be tried, as long as there is no
  proxy (`Found`); without a daemon the defaults are shown or about to be
  (`Lives`, `Defaults`).
* `InternetInv` (ConnMan): the last `State` on its way and the one that was
  read are the daemon's (`LastState`, `ReadState`); a service that is on line is
  shown and connected to, or will be (`Serving`); what leaves with the last
  service (`Leaving`); the same for the technologies (`LastTethering`,
  `Tethered`); a manager that is idle is about to be connected (`Managing`); a
  daemon that never restarted (`Alive`, since the kept `service_` of finding 3
  is excused in restarts).
* `BluetoothInv` (BlueZ): the bridge turns to the default adapter (`Turns`) or
  follows it, and then what is on its way ends with what is (`LastDefault`,
  `Adapted`, `Known`, `Linked`); a connection is shown only of a device believed
  to be connected (`Believed`), and none when the daemon is gone (`Gone`).
* `MceInv`, `ProfileInv`: the numbers in the queue rise from what is shown to
  the daemon's (`Stamps`, `InOrder`), so that no step shows an older value, which
  is `ImplementsMirror`; the last news about the owner of the name is right, and
  what follows is a bridge that hears all (`Following`, `Settling`), which is
  `MirrorsShown`.

### Threads

* Back cover: `IInv` says what `connect` or `disconnect` may have left to do
  while the thread exists (`ThreadWindow`), that the device is open in that
  window (`DeviceWindow`) and where the holder of the mutex is (`MutexOwner`).
  `CoverInv` adds for `CoverShown` that the newest position, or "off" after an
  EVIOCGSW that failed, is still among the events, or known to whoever reads
  next (`Followed`), and that the client has
  seen `m_val` or will be notified (`Seen`).
* `BmeInv`: which steps may be left (`Jobs`, `Lives`), that `ufds[0]` is the
  descriptor of an `xchg` (`Opened`), that a deletion is told once (`Deletions`),
  that whoever has no watch is about to replace it (`Watched`), and that a write
  is heard or has been read (`Heard`).
* `KeyboardInv`: a keyboard that is there and not in `keyboards_`, or the other
  way round, is still to be looked at, announced, or in the socket (`Mirrored`),
  from the moment the monitor listens until it overruns.
* udev: `TimerInv` adds to `PollAlive` that the queue holds handlers only, so
  that taking off its head keeps a timer that is queued behind it.
  `ChargingInv` adds to `ChargingShown` that `last_.IsOnline` agrees too, because
  only a difference from `last_` is published.  `SamplesInv` says of `denergy_`
  that `sum_` is the sum of its values; this needs what the sum over a sequence
  does when one is appended and the oldest taken off, which is induction over
  its length (in the form above, with the sum as a recursive function).

### Before the proof

Each inductive invariant was first given to TLC as an invariant of the same
specification.  Distinct states of the largest instance: `MceInv` 2.1 million
(4 moves), `ProfileInv` 143 242 (6), `KeyboardInv` 512 693 (3 devices, 5
comings and goings, a socket of 2), `BmeInv` 143 928 (6 moves, 2 failures of
poll), `CoverInv` 32 144, `PowerInv` 14.2 million (3 devices, 4 moves),
`InternetInv` 1.2 million (2 services, 2 technologies, 4 moves), `BluetoothInv`
970 000 (5 moves, two devices of one adapter; 771 000 with one device of each
of two), `Beside`, in states where nothing is missed, 1.3 million (6 moves, one
modem) and 698 106 (5 moves, two modems).  The runs of section 3 keep the properties, and not the invariants.

### What is only model-checked

* Every liveness property, `EventuallyShown` of `OfonoSystem` among them: that what has changed is shown in the end, that
  `disconnect` and the destructors return, that polling rests.  The prover
  handles neither fairness nor `ENABLED`.
* The four violations of section 4.

## 6. Plan

Every invariant and every action property that a run checks is proved.  What
would come next changes the models and not the proofs:

1. the default service of `Connman` through ConnMan's own reordering of its list
   (212-217), of which the model has only additions and removals;
2. the reader of Temperature in `Udev`, beside `on_device` (209).

## 7. Not modelled

The encoding of values as strings, logging, the D-Bus type registration, the
loaders and provider singletons; properties that are copied one to one
(SignalStrength, CellName and the like); data races beyond interleaving: in
`BackCover` `m_val` is stored by `connect` without the mutex, but while no
other thread uses it.  In `udev` the waits' lengths and Temperature, whose
reader may race with the replacement of `battery_` when there are two
batteries.  In `bmeipc.c` `bme_xchg_read` and what only it calls, which nothing
in this repository uses; likewise `MceNs::reset_properties`.  ChargeBars and the
two times of `bme` are copied, or computed from one value, like the percentage.
`inout` is configuration that the server's own library turns into properties,
and holds no state here.
