-------------------------------- MODULE Bme --------------------------------
(***************************************************************************)
(* BatteryNs of src/src/bme/provider_bme.cpp, the client of the BME server *)
(* in src/src/bme/bmeipc.c, and the server as far as they can see it: its  *)
(* socket, and a file it writes after every change of its statistics.      *)
(*                                                                         *)
(* A listener thread polls an inotify descriptor and an eventfd.  When the *)
(* file was written it asks the server for the statistics; when the file   *)
(* was deleted it replaces the watch.  When poll fails it starts all over. *)
(* The destructor writes to the eventfd and joins the listener.            *)
(*                                                                         *)
(* A watch is on a file and not on its name: it is "other" while the file  *)
(* it is on has lost its name and still exists.  The watch asks for no     *)
(* event that would tell (IN_MOVE_SELF, bmeipc.c 315).                     *)
(***************************************************************************)
EXTENDS Integers, Sequences

CONSTANTS Statistics,       \* what the server may say
          MaxServerMoves,   \* how many changes the server and its file make
          MaxPollErrors     \* how often poll fails

State == [charger : 0..2, bat : 0..4, pct : 0..100]

ASSUME BmeAssumption == /\ Statistics \subseteq State
                        /\ MaxServerMoves \in Nat
                        /\ MaxPollErrors \in Nat

VARIABLES battery,      \* the properties
          answer,       \* what the server has said last
          exit_handler, \* there is an eventfd
          xchg,         \* "open", "null", or "wild" while never assigned
          polled,       \* ufds[0] is an inotify descriptor
          job,          \* what initialize_bme or the listener has left to do
          listener,     \* "none", "running", "ended", "joined" or "crashed"
          life,         \* "up", "stopping" (in the destructor) or "over"
          pollErrors,
          watch, inotify,       \* of the polled descriptor: watch and events
          file, serving, hung, statistics, serverMoves,     \* the server
          lost,         \* the file the watch was on has lost its name
          stale,        \* a write was not heard since, or a query has failed
          addFailed, reopenFailed   \* no watch; no xchg, after poll failed

batteryNs == <<battery, answer, exit_handler, xchg, polled, job, listener, life, pollErrors>>
kernel == <<watch, inotify>>
bmeServer == <<file, serving, hung, statistics, serverMoves>>
past == <<lost, stale, addFailed, reopenFailed>>
bmeVars == <<batteryNs, kernel, bmeServer, past>>

\* BatteryNs::info; the bars and the two times are copied like the percentage
batteryInfo == [ChargePercentage |-> 62, OnBattery |-> TRUE, LowBattery |-> FALSE,
                IsCharging |-> FALSE]

connected == 1      \* bme_charger_state_connected
started == 1        \* bme_charging_state_started: of another enumeration
low == 1            \* bme_bat_state_low
full == 3           \* bme_bat_state_full

batteryOf(st) == [ChargePercentage |-> st.pct,
                  OnBattery |-> st.charger # connected,
                  LowBattery |-> st.bat = low,
                  IsCharging |-> (st.charger = started /\ st.bat # full)]

----------------------------------------------------------------------------
(* The protocol.  A query is answered by an acknowledgement of the cookie, *)
(* a status and a body, each of which bme_recv may refuse for its sync     *)
(* word, its size or because it is short.                                  *)

Refused == -1000
StatSize == 128     \* sizeof(bme_stat_t)
Answers == [ack : BOOLEAN, rc : {Refused, -1, 0, StatSize, StatSize - 4},
            body : BOOLEAN]

\* an old server says 0, a new one the size of the body
bme_rc_recv(rc) == IF rc = 0 THEN StatSize
                   ELSE IF rc > 0 /\ rc # StatSize THEN -1 ELSE rc

bme_stat_get(a) == a.ack /\ bme_rc_recv(a.rc) > 0 /\ a.body

\* what a server of either version says when it answers a query
WellFormed(a) == a.ack /\ a.rc \in {0, StatSize} /\ a.body

----------------------------------------------------------------------------
(* initialize_bme and the replacement of the watch, a step at a time.      *)

\* mutant: the server is asked before there is a watch
initialize_bme_read == <<"inotify", "create", "query", "add", "show">>

initialize_bme == <<"inotify", "create", "add", "query", "show">>

\* mutant: the new watch is added before the old one is removed
replace_watch_swapped == <<"create", "add", "rm">>

replace_watch == <<"rm", "create", "add">>

At(step) == job # <<>> /\ Head(job) = step /\ listener # "crashed"
Proceed == job' = Tail(job) /\ UNCHANGED <<exit_handler, listener, life, pollErrors>>
Return == job' = <<>> /\ UNCHANGED <<exit_handler, listener, life, pollErrors>>
Opening == job[Len(job)] # "add"        \* and not replacing the watch

InotifyInit == /\ At("inotify") /\ Proceed
               /\ UNCHANGED <<battery, answer, xchg, polled, kernel, bmeServer, past>>

\* mutant: no watch, no xchg, whoever asked for it
XchgFails_always ==
  /\ At("inotify") \/ At("create") \/ (At("add") /\ ~file)
  /\ Return
  /\ xchg' = "null"
  /\ addFailed' = ~Opening
  /\ UNCHANGED <<battery, answer, polled, kernel, bmeServer, lost, stale, reopenFailed>>

\* bme_xchg_open yields NULL: ufds[0] stays what it was.  While it replaces a
\* watch the failure only means that there is none; nobody tries again.
XchgFails ==
  /\ At("inotify") \/ At("create") \/ (At("add") /\ ~file)
  /\ Return
  /\ IF Opening
     THEN /\ xchg' = "null"
          /\ reopenFailed' = (reopenFailed \/ pollErrors > 0)
          /\ UNCHANGED addFailed
     ELSE /\ addFailed' = TRUE
          /\ UNCHANGED <<xchg, reopenFailed>>
  /\ UNCHANGED <<battery, answer, polled, kernel, bmeServer, lost, stale>>

\* open with O_CREAT
CreateFile == /\ At("create") /\ Proceed
              /\ file' = TRUE
              /\ UNCHANGED <<battery, answer, xchg, polled, kernel, serving, hung,
                             statistics, serverMoves, past>>

\* a new xchg has a descriptor of its own, without events
AddWatch == /\ At("add") /\ Proceed
            /\ file
            /\ watch' = "file"
            /\ xchg' = "open" /\ polled' = TRUE
            /\ inotify' = IF Opening THEN <<>> ELSE inotify
            /\ addFailed' = FALSE /\ lost' = FALSE
            /\ UNCHANGED <<battery, answer, bmeServer, stale, reopenFailed>>

\* a watch that is there no more cannot be removed, one that is says so
RemoveWatch == /\ At("rm") /\ Proceed
               /\ watch' = "none"
               /\ inotify' = IF watch = "none" THEN inotify
                             ELSE Append(inotify, "IGNORED")
               /\ UNCHANGED <<battery, answer, xchg, polled, bmeServer, past>>

\* readBatteryValues: bme_open and bme_stat_get, and then the properties.  No
\* call has a timeout: a server that accepts and does not answer holds the
\* thread.
Query == /\ At("query") /\ Proceed
         /\ serving /\ ~hung
         /\ \E a \in Answers : bme_stat_get(a)
         /\ answer' = statistics
         /\ stale' = FALSE
         /\ UNCHANGED <<battery, xchg, polled, kernel, bmeServer, lost, addFailed,
                        reopenFailed>>

ShowBattery == /\ At("show") /\ Proceed
               /\ battery' = batteryOf(answer)
               /\ UNCHANGED <<answer, xchg, polled, kernel, bmeServer, past>>

\* the properties stay as they are
QueryFails ==
  /\ At("query") /\ Return
  /\ \/ ~serving /\ stale' = TRUE
     \/ ~hung /\ \E a \in Answers : /\ ~bme_stat_get(a)
                                    /\ stale' = (stale \/ ~WellFormed(a))
  /\ UNCHANGED <<battery, answer, xchg, polled, kernel, bmeServer, lost, addFailed,
                 reopenFailed>>

----------------------------------------------------------------------------
(* The listener.                                                           *)

StartListening ==
  /\ listener = "none" /\ exit_handler /\ job = <<>>
  /\ listener' = "running"
  /\ UNCHANGED <<battery, answer, exit_handler, xchg, polled, job, life, pollErrors,
                 kernel, bmeServer, past>>

Polling == listener = "running" /\ job = <<>>

\* mutant: a listener that has lost its file does not look at its eventfd
PollExit_watching ==
  /\ Polling /\ life = "stopping" /\ watch = "file"
  /\ listener' = "ended"
  /\ UNCHANGED <<battery, answer, exit_handler, xchg, polled, job, life, pollErrors,
                 kernel, bmeServer, past>>

\* the exit event comes first
PollExit == /\ Polling /\ life = "stopping"
            /\ listener' = "ended"
            /\ UNCHANGED <<battery, answer, exit_handler, xchg, polled, job, life, pollErrors,
                           kernel, bmeServer, past>>

\* mutant: only the first write is looked at
onBMEEvent_deaf(ev) ==
  IF ev = "DELETE_SELF" THEN replace_watch ELSE <<>>

onBMEEvent(ev) == CASE ev = "DELETE_SELF" -> replace_watch
                    [] ev = "IGNORED"     -> <<>>
                    [] ev = "CLOSE_WRITE" -> <<"query", "show">>

\* the event is read from xchg's descriptor; without one that is a crash
PollEvent ==
  /\ Polling /\ life # "stopping"
  /\ polled /\ inotify # <<>>
  /\ IF xchg = "open"
     THEN /\ job' = onBMEEvent(Head(inotify))
          /\ inotify' = Tail(inotify)
          /\ UNCHANGED listener
     ELSE /\ listener' = "crashed"
          /\ UNCHANGED <<job, inotify>>
  /\ UNCHANGED <<battery, answer, exit_handler, xchg, polled, life, pollErrors, watch,
                 bmeServer, past>>

\* poll is interrupted: sleep, and start all over
PollFails == /\ Polling
             /\ pollErrors < MaxPollErrors /\ pollErrors' = pollErrors + 1
             /\ job' = initialize_bme
             /\ UNCHANGED <<battery, answer, exit_handler, xchg, polled, listener, life,
                            kernel, bmeServer, past>>

----------------------------------------------------------------------------
(* The destructor.                                                         *)

\* any time after the constructor has returned
Destruct == /\ life = "up"
            /\ listener = (IF exit_handler THEN "running" ELSE "none")
            /\ life' = "stopping"
            /\ UNCHANGED <<battery, answer, exit_handler, xchg, polled, job, listener,
                           pollErrors, kernel, bmeServer, past>>

JoinListener == /\ life = "stopping" /\ listener = "ended"
                /\ listener' = "joined"
                /\ UNCHANGED <<battery, answer, exit_handler, xchg, polled, job, life,
                               pollErrors, kernel, bmeServer, past>>

\* xchg is closed unless it is null; without an eventfd it is what the memory
\* held
CloseXchg == /\ life = "stopping" /\ listener \in {"joined", "none"}
             /\ life' = "over" /\ xchg' = "null"
             /\ listener' \in {listener} \cup IF xchg = "wild" THEN {"crashed"} ELSE {}
             /\ watch' = "none" /\ inotify' = <<>>
             /\ UNCHANGED <<battery, answer, exit_handler, polled, job, pollErrors,
                            bmeServer, past>>

----------------------------------------------------------------------------
(* The server and its file.                                                *)

ServerMove == /\ serverMoves < MaxServerMoves
              /\ serverMoves' = serverMoves + 1
              /\ UNCHANGED <<batteryNs, addFailed, reopenFailed>>

\* inotify merges an event with an equal one before it
WriteFile ==
  /\ file' = TRUE
  /\ inotify' = IF ~(watch = "file" /\ file) THEN inotify
                ELSE IF inotify # <<>> /\ inotify[Len(inotify)] = "CLOSE_WRITE"
                THEN inotify ELSE Append(inotify, "CLOSE_WRITE")
  /\ stale' = (stale \/ lost)
  /\ UNCHANGED <<watch, lost>>

NewStatistics == /\ ServerMove
                 /\ serving /\ ~hung
                 /\ statistics' \in Statistics \ {statistics}
                 /\ WriteFile
                 /\ UNCHANGED <<serving, hung>>

StartServer == /\ ServerMove
               /\ ~serving /\ serving' = TRUE
               /\ statistics' \in Statistics
               /\ WriteFile
               /\ UNCHANGED hung

StopServer == /\ ServerMove
              /\ serving /\ serving' = FALSE /\ hung' = FALSE
              /\ UNCHANGED <<kernel, file, statistics, lost, stale>>

\* it accepts connections and does not answer, or answers again
Hang == /\ ServerMove
        /\ serving /\ hung' = ~hung
        /\ UNCHANGED <<kernel, file, serving, statistics, lost, stale>>

\* the file is moved away, or deleted while somebody has it open
LoseName == /\ ServerMove
            /\ file /\ file' = FALSE
            /\ watch' = IF watch = "file" THEN "other" ELSE watch
            /\ lost' = (lost \/ watch = "file")
            /\ UNCHANGED <<inotify, serving, hung, statistics, stale>>

\* the kernel deletes a file that has lost its name, and the watch with it
LoseFile == /\ ServerMove
            /\ watch = "other" /\ watch' = "none"
            /\ inotify' = inotify \o <<"DELETE_SELF", "IGNORED">>
            /\ UNCHANGED <<file, serving, hung, statistics, lost, stale>>

----------------------------------------------------------------------------

BmeInit == /\ battery = batteryInfo /\ answer \in Statistics
           /\ exit_handler \in BOOLEAN
           /\ xchg = "wild" /\ polled = FALSE
           /\ job = IF exit_handler THEN initialize_bme ELSE <<>>
           /\ listener = "none" /\ life = "up" /\ pollErrors = 0
           /\ watch = "none" /\ inotify = <<>>
           /\ file \in BOOLEAN /\ serving \in BOOLEAN /\ hung = FALSE
           /\ statistics \in Statistics /\ serverMoves = 0
           /\ lost = FALSE /\ stale = FALSE /\ addFailed = FALSE /\ reopenFailed = FALSE

Work == \/ InotifyInit \/ XchgFails \/ CreateFile \/ AddWatch \/ RemoveWatch
        \/ Query \/ ShowBattery \/ QueryFails
Listener == StartListening \/ PollExit \/ PollEvent
Destructor == JoinListener \/ CloseXchg
Server == \/ NewStatistics \/ StartServer \/ StopServer \/ Hang
          \/ LoseName \/ LoseFile

BmeNext == Work \/ Listener \/ PollFails \/ Destruct \/ Destructor \/ Server

BmeFairness == WF_bmeVars(Work) /\ WF_bmeVars(Listener) /\ WF_bmeVars(Destructor)

BmeSpec == BmeInit /\ [][BmeNext]_bmeVars /\ BmeFairness

----------------------------------------------------------------------------
(* Properties.                                                             *)

Idle == listener = "running" /\ job = <<>> /\ xchg = "open" /\ inotify = <<>>

\* When the listener waits, the properties are those of the server's last
\* statistics, unless it wrote to a file that was not watched or the last
\* query failed: then they stay old until it writes again (150-171).
BmeShown == Idle /\ ~stale => battery = batteryOf(statistics)

\* A waiting listener has a watch, on the file of that name or on one that
\* was moved away, unless adding it failed: the events that announce a
\* deletion, and those of the watch that went with it, do not cost the new one
\* (161-169, bmeipc.c 308-335).
WatchKept == Idle /\ watch = "none" => addFailed

\* The listener reads through a null xchg only after poll failed and the file
\* could not be watched again (99-101, bmeipc.c 482), and the destructor
\* closes a wild one only when there was no eventfd (75, 91).
BmeCrashExplained ==
  listener = "crashed" => reopenFailed \/ ~exit_handler

\* The destructor returns, unless the server holds the listener (86-94).
BmeStops == <>[](life = "stopping" => listener = "crashed" \/ (serving /\ hung))

\* A server that rests is shown, if it answers and its writes are heard.
BmeEventuallyShown ==
  <>[]( \/ battery = batteryOf(statistics)
       \/ stale \/ hung \/ xchg # "open" \/ life # "up" )
============================================================================
