------------------------------ MODULE Startup ------------------------------
(***************************************************************************)
(* The start of the application and its rollback (app_core_sequence.c,     *)
(* app_core.c), with the two components that take and release several      *)
(* resources each: the mounts (storage_mount_core.c) and the access point  *)
(* (wifi_ap_state.c).  While the main task starts, the event task handles  *)
(* what the Wi-Fi driver reports, and the console, which runs already, may *)
(* join a station network at the same time as the main task does           *)
(* (wifi_ap.c, wifi_ap_station.c, serial_console.c).                       *)
(*                                                                         *)
(* DeviceActions models the controls and the HTTP server in detail; here   *)
(* they are one resource each.                                             *)
(***************************************************************************)
EXTENDS Naturals, Sequences, FiniteSets

CONSTANTS
    Networks, NoNetwork,   \* station networks
    BootNetwork,           \* the one in the settings record, or NoNetwork
    ConsoleNetworks,       \* arguments of wifi-connect
    MaxAttempts,           \* WIFI_STATION_MAX_ATTEMPTS
    MaxClients,            \* WIFI_AP_MAX_CLIENTS
    MaxCommands,           \* bound: how often wifi-connect is typed
    MaxEvents,             \* bound: how many reports of the driver wait
    FaultBudget            \* bound: how many calls fail

ASSUME StartupAssumption ==
    /\ NoNetwork \notin Networks /\ BootNetwork \in Networks \cup {NoNetwork}
    /\ ConsoleNetworks \subseteq Networks
    /\ {MaxAttempts, MaxClients, MaxEvents} \subseteq Nat \ {0}

-----------------------------------------------------------------------------
(* The stages, and what each one holds once it is started.                  *)

\* app_core_sequence_start() with start_normal_mode() or start_setup_mode(), and
\* start_network().
NormalMode == <<"nvs", "settings", "read", "storage", "auth", "usb", "executor", "controls",
                "wifi", "http">>
SetupMode  == <<"nvs", "settings", "read", "storage", "auth", "bootstrap", "code",
                "wifi", "http">>
Stages(setUp) == IF setUp THEN NormalMode ELSE SetupMode

\* MUTANT of Teardown: what was started first goes first.
TeardownForwards ==
    <<"code", "nvs", "settings", "storage", "auth", "usb", "executor", "controls", "wifi", "http">>

\* cleanup_after_failure()
Teardown ==
    <<"code", "http", "wifi", "controls", "executor", "usb", "auth", "storage", "settings", "nvs">>

WifiParts == {"netif", "driver", "handler", "radio"}
PartsOf(stage) ==
    CASE stage = "storage" -> {"web", "data"}
      [] stage = "wifi"    -> WifiParts
      [] stage \in {"read", "bootstrap"} -> {}    \* settings_read(), bootstrap_derive()
      [] OTHER             -> {stage}

\* wifi_ap_engine_start()
WifiSteps == <<"init", "loop", "netif", "driver", "handler", "mode", "config", "radio">>

VARIABLES
    provisioned, \* what the settings record says
    main,        \* the main task: what it does, and how far it is
    held,        \* the parts that are really held
    owned,       \* app_core_owned_t
    status,      \* wifi_ap_status_t
    events,      \* reports of the driver that wait for the event task
    handling,    \* the event task: the report it handles, the status it has read
    air,         \* the radio is on
    clients,     \* clients associated with the access point
    link,        \* the station: the network it is associated with or tries
    sem, gotIp,  \* sta_outcome_semaphore, sta_got_ip
    join,        \* wifi_ap_connect_station() of the main task and of the console
    saved,       \* the station network that the console wrote to the settings
    commands, faults,
    refused      \* history: parts that the rollback has called the release of in vain
apVars      == <<status, events, handling, air, clients>>
stationVars == <<link, sem, gotIp, join, saved, commands>>
vars == <<provisioned, main, held, owned, faults, refused, apVars, stationVars>>

Joiners == {"boot", "console"}
NoJoin  == [pc |-> "idle", ssid |-> NoNetwork, attempt |-> 0, alone |-> TRUE, leased |-> FALSE]
Free    == [network |-> NoNetwork, up |-> FALSE]

Init ==
    /\ provisioned \in BOOLEAN /\ main = [phase |-> "start", at |-> 1]
    /\ held = {} /\ owned = {} /\ refused = {} /\ faults = FaultBudget
    /\ status = [state |-> "stopped", clients |-> 0, error |-> FALSE]
    /\ events = <<>> /\ handling = <<>> /\ air = FALSE /\ clients = 0
    /\ link = Free /\ sem = FALSE /\ gotIp = FALSE
    /\ join = [j \in Joiners |-> NoJoin] /\ saved = NoNetwork /\ commands = 0

\* n calls fail.
Failing(n) == n <= faults /\ faults' = faults - n

-----------------------------------------------------------------------------
(* The main task starts one stage after the other.                          *)

Stage == Stages(provisioned)[main.at]
Forward == [phase |-> "start", at |-> main.at + 1]
Back  == [phase |-> "rollback", at |-> 1]

\* A stage of at most one part: it takes it, or fails and has cleaned up after itself.  Only
\* the HTTP server may keep something of a failed start (web_server_owns_resources()).
StartStage ==
    /\ main.phase = "start" /\ main.at <= Len(Stages(provisioned))
    /\ Stage \notin {"storage", "wifi"}
    /\ \/ /\ held' = held \cup PartsOf(Stage) /\ owned' = owned \cup {Stage} /\ main' = Forward
          /\ UNCHANGED faults
       \/ /\ Failing(1) /\ main' = Back /\ UNCHANGED owned
          /\ held' \in {held, held \cup ({Stage} \cap {"http"})}
    /\ UNCHANGED <<provisioned, refused, apVars, stationVars>>

\* storage_mount_core_mount(): what a failure finds mounted is unmounted again, as far
\* as that succeeds.
MountStorage ==
    /\ main.phase = "start" /\ main.at <= Len(Stages(provisioned)) /\ Stage = "storage"
    /\ \/ /\ held' = held \cup {"web", "data"} /\ owned' = owned \cup {"storage"}
          /\ main' = Forward /\ UNCHANGED faults
       \/ \E mounted \in {{}, {"web"}, {"web", "data"}} : \E stuck \in SUBSET mounted :
             /\ Failing(1 + Cardinality(stuck))
             /\ held' = held \cup stuck /\ main' = Back /\ UNCHANGED owned
    /\ UNCHANGED <<provisioned, refused, apVars, stationVars>>

\* set_indicator(DEVICE_INDICATOR_READY), which cannot fail
Started ==
    /\ main.phase = "start" /\ main.at > Len(Stages(provisioned))
    /\ main' = [main EXCEPT !.phase = "running"]
    /\ UNCHANGED <<provisioned, held, owned, faults, refused, apVars, stationVars>>

-----------------------------------------------------------------------------
(* The access point.                                                        *)

Status(state, error) == [state |-> state, clients |-> 0, error |-> error]

\* The driver reports something.
Post(event) == events' = Append(events, event)

\* wifi_ap_engine_start(): it starts from a stopped access point only.
WifiBegin ==
    /\ main.phase = "start" /\ main.at <= Len(Stages(provisioned)) /\ Stage = "wifi"
    /\ IF status.state = "stopped" /\ held \cap WifiParts = {}
       THEN main' = [phase |-> "wifi", at |-> 1] /\ status' = Status("starting", FALSE)
       ELSE main' = Back /\ UNCHANGED status
    /\ UNCHANGED <<provisioned, held, owned, faults, refused, events, handling, air,
                   clients, stationVars>>

\* The next call of it.  The radio counts as held before it is started.
WifiStep ==
    /\ main.phase = "wifi"
    /\ LET step == WifiSteps[main.at]
       IN  \/ /\ held' = held \cup ({step} \cap WifiParts) /\ UNCHANGED faults
              /\ IF step = "radio"
                 THEN main' = [main EXCEPT !.phase = "join"] /\ air' = TRUE /\ Post("started")
                 ELSE main' = [main EXCEPT !.at = @ + 1] /\ UNCHANGED <<air, events>>
           \/ /\ Failing(1) /\ held' = held \cup ({step} \cap {"radio"})
              /\ main' = [main EXCEPT !.phase = "fail_start"] /\ UNCHANGED <<air,
                                                                             events>>
    /\ UNCHANGED <<provisioned, owned, refused, status, handling, clients, stationVars>>

\* cleanup_resources(): each part is released unless its own step fails.
Released(stuck) == WifiParts \ stuck

\* Stopping the radio ends every association, also the station's; to unregister the
\* handler waits until the event task has left it.  Only destroying the network interface
\* cannot fail.
CleanUp(stuck) ==
    /\ stuck \subseteq (held \cap {"radio", "handler", "driver"}) /\ Failing(Cardinality(stuck))
    /\ "handler" \in (held \cap Released(stuck)) => handling = <<>>
    /\ held' = held \ Released(stuck)
    /\ IF air /\ "radio" \in Released(stuck)
       THEN Post("stopped") /\ air' = FALSE /\ clients' = 0 /\ link' = Free
       ELSE UNCHANGED <<events, air, clients, link>>

\* fail_start() cleans up ...
FailStart ==
    /\ main.phase = "fail_start" /\ main' = [main EXCEPT !.phase = "failed_start"]
    /\ \E stuck \in SUBSET WifiParts : CleanUp(stuck)
    /\ UNCHANGED <<provisioned, owned, refused, status, handling, sem, gotIp, join,
                   saved, commands>>

\* ... and says so.
FailedStart ==
    /\ main.phase = "failed_start" /\ main' = Back /\ status' = Status("error", TRUE)
    /\ UNCHANGED <<provisioned, held, owned, faults, refused, events, handling, air,
                   clients, stationVars>>

\* wifi_ap_engine_handle_event(): what an event makes of the status it was read with.
After(s, event) ==
    LET on == s.state \in {"starting", "ready"}
    IN  CASE event = "started" /\ s.state = "starting" -> [s EXCEPT !.state = "ready", !.error = FALSE]
          [] event = "stopped" -> [s EXCEPT !.state = "stopped", !.clients = 0]
          [] event = "joined" /\ on /\ s.clients < MaxClients -> [s EXCEPT !.clients = @ + 1]
          [] event = "left" /\ on /\ s.clients > 0 -> [s EXCEPT !.clients = @ - 1]
          [] OTHER -> s

\* The event task takes a report: wifi_event() reads the status, station_event() keeps
\* what happened and gives the semaphore.
TakeEvent ==
    /\ handling = <<>> /\ events # <<>> /\ events' = Tail(events)
    /\ LET event == Head(events)
       IN  IF event \in {"lost", "ip"}
           THEN /\ sem' = TRUE /\ gotIp' = (gotIp \/ event = "ip") /\ UNCHANGED handling
           ELSE /\ handling' = IF "handler" \in held THEN <<event, status>> ELSE <<>>
                /\ UNCHANGED <<sem, gotIp>>
    /\ UNCHANGED <<provisioned, main, held, owned, faults, refused, status, air,
                   clients, link, join, saved, commands>>

\* wifi_event() writes the status back.
WriteStatus ==
    /\ handling # <<>> /\ handling' = <<>> /\ status' = After(handling[2], handling[1])
    /\ UNCHANGED <<provisioned, main, held, owned, faults, refused, events, air,
                   clients, stationVars>>

\* Clients come and go, until the radio is to be stopped.
Client ==
    /\ air /\ main.phase # "stop_wifi" /\ Len(events) < MaxEvents
    /\ \/ clients < MaxClients /\ clients' = clients + 1 /\ Post("joined")
       \/ clients > 0 /\ clients' = clients - 1 /\ Post("left")
    /\ UNCHANGED <<provisioned, main, held, owned, faults, refused, status, handling,
                   air, stationVars>>

-----------------------------------------------------------------------------
(* The station joins a network: the main task while it boots, and the       *)
(* console for wifi-connect.  They share the semaphore and the flag.        *)

Enter(j, pc) == join' = [join EXCEPT ![j].pc = pc]
Return(j)    == join' = [join EXCEPT ![j] = NoJoin]

\* wifi_ap_connect_station(), wifi_ap_station_connect(), once the station interface and
\* the semaphore are there; a call that cannot make them changes nothing.
Begin(j, ssid) ==
    LET others == {k \in Joiners \ {j} : join[k].pc # "idle"}
    IN  join' = [k \in Joiners |->
                    IF k = j THEN [pc |-> "disconnect", ssid |-> ssid, attempt |-> 1,
                                   alone |-> others = {}, leased |-> FALSE]
                    ELSE [join[k] EXCEPT !.alone = @ /\ k \notin others]]

\* Another attempt, or none is left.
AttemptFails(j) ==
    IF join[j].attempt < MaxAttempts
    THEN join' = [join EXCEPT ![j].pc = "disconnect", ![j].attempt = @ + 1, ![j].leased = FALSE]
    ELSE Enter(j, "failed")

\* attempt_station_connect_once() drops whatever association there is ...
Disconnect(j) ==
    /\ join[j].pc = "disconnect" /\ Enter(j, "drain") /\ link' = Free
    /\ IF link # Free THEN Post("lost") ELSE UNCHANGED events
    /\ UNCHANGED <<provisioned, main, held, owned, faults, refused, status, handling,
                   air, clients, sem, gotIp, saved, commands>>

\* MUTANT of Forget: the flag of the attempt before is kept.
ForgetOutcomeOnly == sem' = FALSE /\ UNCHANGED gotIp

\* ... forgets its outcome ...
Forget == sem' = FALSE /\ gotIp' = FALSE

\* ... after 100 ms, which the report of the disconnection is taken to need ...
Drain(j) ==
    /\ join[j].pc = "drain" /\ \A i \in DOMAIN events : events[i] \notin {"lost", "ip"}
    /\ Forget /\ Enter(j, "connect")
    /\ UNCHANGED <<provisioned, main, held, owned, faults, refused, apVars, link, saved,
                   commands>>

\* ... and connects, which needs a radio that is on and no association ...
Connect(j) ==
    /\ join[j].pc = "connect"
    /\ \/ /\ air /\ link = Free /\ Enter(j, "wait")
          /\ link' = [network |-> join[j].ssid, up |-> FALSE] /\ UNCHANGED faults
       \/ /\ IF air /\ link = Free THEN Failing(1) ELSE UNCHANGED faults
          /\ AttemptFails(j) /\ UNCHANGED link
    /\ UNCHANGED <<provisioned, main, held, owned, refused, apVars, sem, gotIp, saved,
                   commands>>

\* MUTANT of GivesUp: the attempt waits for an outcome without end.
NeverGivesUp == FALSE

\* The time is up before there is an outcome.
GivesUp == ~sem

\* ... and waits for the outcome.
Wait(j) ==
    /\ join[j].pc = "wait"
    /\ \/ /\ sem /\ sem' = FALSE /\ IF gotIp THEN Enter(j, "joined") ELSE AttemptFails(j)
       \/ GivesUp /\ AttemptFails(j) /\ UNCHANGED sem
    /\ UNCHANGED <<provisioned, main, held, owned, faults, refused, apVars, link, gotIp,
                   saved, commands>>

JoinStep(j) == Disconnect(j) \/ Drain(j) \/ Connect(j) \/ Wait(j)

\* adapter_wifi_start(): whether the station joins does not matter to it, nor whether
\* its interface and semaphore could be made (ensure_station_netif()).
BootJoin ==
    /\ main.phase = "join"
    /\ \/ /\ BootNetwork # NoNetwork /\ join["boot"].pc = "idle" /\ Begin("boot", BootNetwork)
          /\ UNCHANGED <<main, owned, faults>>
       \/ /\ IF BootNetwork = NoNetwork \/ join["boot"].pc \in {"joined", "failed"}
             THEN UNCHANGED faults
             ELSE join["boot"].pc = "idle" /\ Failing(1)
          /\ Return("boot") /\ owned' = owned \cup {"wifi"}
          /\ main' = [phase |-> "start", at |-> Len(Stages(provisioned))]
    /\ UNCHANGED <<provisioned, held, refused, apVars, link, sem, gotIp, saved, commands>>

\* command_wifi_connect(): a network that was joined is saved.
WifiConnect(ssid) ==
    /\ join["console"].pc = "idle" /\ commands < MaxCommands /\ commands' = commands + 1
    /\ Begin("console", ssid)
    /\ UNCHANGED <<provisioned, main, held, owned, faults, refused, apVars, link, sem,
                   gotIp, saved>>
SaveNetwork ==
    /\ join["console"].pc \in {"joined", "failed"} /\ Return("console")
    /\ \/ /\ join["console"].pc = "joined" /\ "settings" \in held
          /\ saved' = join["console"].ssid /\ UNCHANGED faults
       \/ /\ UNCHANGED saved
          /\ IF join["console"].pc = "joined" /\ "settings" \in held THEN Failing(1)
             ELSE UNCHANGED faults
    /\ UNCHANGED <<provisioned, main, held, owned, refused, apVars, link, sem, gotIp,
                   commands>>

\* The network answers, refuses, or goes away.
Associate ==
    /\ link # Free /\ ~link.up /\ link' = [link EXCEPT !.up = TRUE] /\ Post("ip")
    /\ join' = [j \in Joiners |-> [join[j] EXCEPT !.leased =
                   @ \/ (join[j].pc = "wait" /\ join[j].ssid = link.network)]]
    /\ UNCHANGED <<provisioned, main, held, owned, faults, refused, status, handling,
                   air, clients, sem, gotIp, saved, commands>>
Lose ==
    /\ link # Free /\ link' = Free /\ Post("lost")
    /\ UNCHANGED <<provisioned, main, held, owned, faults, refused, status, handling,
                   air, clients, sem, gotIp, join, saved, commands>>

-----------------------------------------------------------------------------
(* The rollback: every stage that may hold something is torn down once, and *)
(* what fails does not keep the rest from it.                               *)

\* MUTANT of ShouldRun: only what was started is torn down.
ShouldRunOwned(stage) == stage \in owned

\* The flag, or what the component itself says.
ShouldRun(stage) ==
    \/ stage \in owned
    \/ stage \in {"http", "wifi", "storage"} /\ PartsOf(stage) \cap held # {}

\* teardown_stage() of every stage but the Wi-Fi.  Clearing the setup code cannot fail.
TearDown ==
    /\ main.phase = "rollback" /\ main.at <= Len(Teardown) /\ Teardown[main.at] # "wifi"
    /\ main' = [main EXCEPT !.at = @ + 1]
    /\ LET stage == Teardown[main.at]
       IN  IF ShouldRun(stage)
           THEN \E stuck \in SUBSET (PartsOf(stage) \cap (held \ {"code"})) :
                   /\ Failing(Cardinality(stuck))
                   /\ held' = held \ (PartsOf(stage) \ stuck)
                   /\ owned' = IF stuck = {} THEN owned \ {stage} ELSE owned
                   /\ refused' = refused \cup stuck
           ELSE UNCHANGED <<held, owned, faults, refused>>
    /\ UNCHANGED <<provisioned, apVars, stationVars>>

\* wifi_ap_engine_stop() is called ...
StopWifi ==
    /\ main.phase = "rollback" /\ main.at <= Len(Teardown) /\ Teardown[main.at] = "wifi"
    /\ main' = IF ShouldRun("wifi") /\ ~(status.state = "stopped" /\ held \cap WifiParts = {})
               THEN [main EXCEPT !.phase = "stop_wifi"] ELSE [main EXCEPT !.at = @ + 1]
    /\ UNCHANGED <<provisioned, held, owned, faults, refused, apVars, stationVars>>

\* ... cleans up ...
StopCleansUp ==
    /\ main.phase = "stop_wifi"
    /\ \E stuck \in SUBSET WifiParts :
          /\ CleanUp(stuck) /\ refused' = refused \cup stuck
          /\ owned' = IF stuck = {} THEN owned \ {"wifi"} ELSE owned
    /\ main' = [main EXCEPT !.phase = "stopped_wifi"]
    /\ UNCHANGED <<provisioned, status, handling, sem, gotIp, join, saved, commands>>

\* MUTANT of StopStatus: the access point counts as stopped whatever is left of it.
StopStatusAlways == Status("stopped", FALSE)

\* ... and publishes what came of it.
StopStatus ==
    IF held \cap WifiParts = {} THEN Status("stopped", FALSE) ELSE Status("error", TRUE)

WifiStopped ==
    /\ main.phase = "stopped_wifi" /\ status' = StopStatus
    /\ main' = [phase |-> "rollback", at |-> main.at + 1]
    /\ UNCHANGED <<provisioned, held, owned, faults, refused, events, handling, air,
                   clients, stationVars>>

\* finish_failure()
Failed ==
    /\ main.phase = "rollback" /\ main.at > Len(Teardown)
    /\ main' = [main EXCEPT !.phase = "failed"]
    /\ UNCHANGED <<provisioned, held, owned, faults, refused, apVars, stationVars>>

-----------------------------------------------------------------------------
MainTask  == \/ StartStage \/ MountStorage \/ Started \/ WifiBegin \/ WifiStep \/ FailStart
             \/ FailedStart \/ BootJoin \/ TearDown \/ StopWifi \/ StopCleansUp \/ WifiStopped
             \/ Failed
EventTask == TakeEvent \/ WriteStatus
Console   == (\E ssid \in ConsoleNetworks : WifiConnect(ssid)) \/ SaveNetwork
Driver    == Client \/ Associate \/ Lose

Next == MainTask \/ EventTask \/ Console \/ Driver \/ (\E j \in Joiners : JoinStep(j))

\* The tasks run; the driver and whoever is at the console owe nothing.
Fairness == WF_vars(MainTask) /\ WF_vars(EventTask) /\ WF_vars(JoinStep("boot"))
Spec == Init /\ [][Next]_vars /\ Fairness

-----------------------------------------------------------------------------
(* Properties.                                                              *)

\* After a start that failed, each part that is still held has refused its own release in
\* the rollback: neither is a stage forgotten that had failed half-way, as the mounts or
\* the access point may, nor does one that cannot be stopped keep another part from it
\* (cleanup_after_failure(), cleanup_resources()).
NothingIsForgotten == main.phase = "failed" => held \subseteq refused

\* Nothing is released while the rollback has yet to stop something that was started
\* after it, and may use it (the order of cleanup_after_failure()).  The setup code is only
\* a string and goes first.
UsersGoFirst ==
    [][main.phase \in {"rollback", "stop_wifi"} =>
         LET order == Stages(provisioned)
         IN  \A i, k \in DOMAIN order :
               i < k /\ PartsOf(order[i]) \cap (held \ (held' \cup {"code"})) # {} =>
                  PartsOf(order[k]) \cap held' \subseteq refused]_vars

\* What diagnostics say of the access point is true, though the event task writes back a
\* status it has read before (wifi_ap_engine_handle_event()): it is ready only with the
\* radio on, its clients are counted, up to the limit, and after a rollback it is in
\* error as long as parts of it are held.  A handler that could not be unregistered may
\* write anything.
ApStatusIsTrue ==
    /\ status.state = "ready" /\ main.phase \in {"start", "running", "failed"}
       /\ "handler" \notin refused => air
    /\ main.phase = "running" /\ events = <<>> /\ handling = <<>> => status.clients = clients
    /\ main.phase = "failed" /\ held \cap WifiParts # {} /\ "handler" \notin refused =>
          status.state = "error"

\* "CONNECTED: the most recent attempt obtained a DHCP lease" (wifi_ap.h): a join that no
\* other one has overlapped succeeds only with a lease from the network it asked for, not
\* with the late outcome of an attempt before (attempt_station_connect_once()).
SoleJoinMeansLease ==
    \A j \in Joiners : join[j].pc = "joined" /\ join[j].alone => join[j].leased

\* The start ends, whatever the station network does and whoever else joins one: every
\* wait for it has a timeout and the attempts are counted (wifi_ap_station_connect()).
StartEnds == <>(main.phase \in {"running", "failed"})

\* "wifi-connect ... MUST persist the explicitly supplied station network ... only after
\* association succeeds" (SPEC_V2.md).  Violated: the console runs before the boot joins
\* its network, the two share one semaphore and one flag, and the console may take the
\* lease of the other for its own.
SavedWasJoined == [][saved' # saved => join["console"].leased]_vars
=============================================================================
