--------------------------- MODULE DeviceActions ---------------------------
(***************************************************************************)
(* The device actions (restart, reset-settings, factory-reset) and the     *)
(* physical confirmation in front of them, from the request to the reboot: *)
(* web_server_lifecycle.c (the guard and the start of the server),         *)
(* web_server_async.c (the worker that waits in place of the HTTP task),   *)
(* device_controls.c and device_controls_logic.c (the confirmation         *)
(* semaphore, the controls task and their lifecycle) and                   *)
(* device_controls_reset.c.  RequestPolicy says which request is admitted  *)
(* and what is answered.                                                   *)
(*                                                                         *)
(*   main      app_core: starts the controls and the server, and takes     *)
(*             them down again when a later step of the start fails.       *)
(*   httpd     the HTTP server task: guards, dispatches, and runs a device *)
(*             action itself when the confirmation is disabled.            *)
(*   worker    runs confirmation-gated calls, one at a time.               *)
(*   controls  the controls task: drives the LED until it is stopped.      *)
(*   console   the `confirm' command of the serial console.                *)
(*   timer     the restart 500 ms after it was scheduled.                  *)
(*                                                                         *)
(* A send that awaits a confirmation takes the `confirm' command first     *)
(* (serial_console_route_confirmation()): that one is in MacroExecutor,    *)
(* here no send awaits.  change-password goes the same way as a device     *)
(* action and is in CredentialStore.  The settings record, the blobs and   *)
(* the reset marker are one value each, but a write of them may fail in    *)
(* its commit and be durable all the same; CredentialStore and             *)
(* RepositoryStore have their contents.                                    *)
(***************************************************************************)
EXTENDS RequestPolicy, Integers, FiniteSets

CONSTANTS
    Requests,            \* the requests a client may send
    Sessions,            \* the sessions clients hold when the run begins
    Policies,            \* the values require_physical_confirmation may have
    LateSession,         \* the session a login during the run creates
    StartMayFail,        \* a late step of the start may fail, and is undone
    MaxRequests,         \* bound: requests
    MaxConfirms,         \* bound: `confirm' commands
    MaxFaults            \* bound: failing operations

ASSUME SwitchAssumption == Policies \subseteq BOOLEAN /\ StartMayFail \in BOOLEAN
ASSUME RequestAssumption == \A r \in Requests : r.path \in DeviceActions
ASSUME SessionAssumption == LateSession \notin Sessions
ASSUME BoundAssumption == MaxRequests \in Nat /\ MaxConfirms \in Nat /\ MaxFaults \in Nat

Ids      == 1 .. MaxRequests
Sentinel == 0

StartPcs == {"controls", "task_create", "task_started", "wifi", "http", "async_start",
             "register", "register_rest"}
StopPcs  == {"async_stop", "async_wait", "httpd_stop", "controls_stop", "controls_wait",
             "controls_cleanup"}
ActionPcs == {"policy", "wait_entry", "waiting", "body", "apply", "invalidate", "erase",
              "delete", "schedule", "clear", "answer"}
HttpdPcs  == {"idle", "guard", "claim", "read_body", "enqueue"} \cup ActionPcs
WorkerPcs == {"none", "receive", "complete", "release", "stopping", "gone"} \cup ActionPcs
Failures  == {"gpio_configuration", "indicator", "generic", "task_start", "task_stop",
              "cleanup"}
Signals   == {"none", "empty", "full"}   \* a binary semaphore, or no semaphore

VARIABLES
    policy,      \* require_physical_confirmation, fixed when the server starts
    controls,    \* device_controls_engine_t: flags and owned resources
    stopFlag,    \* controls_stop_requested
    health,      \* the failures of device_controls_health_t
    indicator,   \* indicator_state
    confirmation,\* confirmation_semaphore
    stopped,     \* controls_stopped
    task,        \* the controls task
    main,        \* what app_core does next
    attempts,    \* calls of stop_server_adapter() so far
    server,      \* the httpd handle: "down", "up"
    async,       \* web_server_async.c: queue, async_stopped, in_flight
    pc, id,      \* what httpd and worker do next, and for which request
    outcome,     \* the reset outcome the acting task has collected
    console,     \* signal_confirmation() between its checks and the give
    restart,     \* the restart timer
    latch,       \* reset_settings_restart_required
    store,       \* settings, blobs and the factory reset marker, durable
    sessions,    \* the session table
    power,       \* "on" until the chip restarts
    request, status, \* of each id: the request and the status answered
    faults,      \* failures so far
    \* history, read by no action:
    gives,       \* confirmations given
    givenTo,     \* the request that was waiting when the signal was given
    confirmedBy, \* of each id: the givenTo of the signal it took
    guardedAt,   \* of each id: how many actions had taken effect at its guard
    acted,       \* the ids whose action has begun to take effect, in order
    touched,     \* the ids that changed anything durable, reported or not
    lost         \* ids whose queue was deleted with them in it

controlVars == <<controls, stopFlag, health, indicator, confirmation, stopped, task>>
serverVars  == <<main, attempts, server, async>>
callVars    == <<pc, id, outcome, request, status>>
effectVars  == <<restart, latch, store, sessions, power>>
historyVars == <<gives, givenTo, confirmedBy, guardedAt, acted, touched, lost>>
vars == <<policy, controlVars, serverVars, callVars, effectVars, console, faults,
          historyVars>>

Coherent == [applied |-> FALSE, invalidated |-> FALSE, primary |-> "NONE"]
NoAsync  == [queue |-> <<>>, exists |-> FALSE, stopped |-> "none", inFlight |-> FALSE]

Init ==
    /\ policy \in Policies
    /\ controls = [initialized |-> FALSE, stopConfirmed |-> FALSE, running |-> FALSE,
                   pin |-> FALSE, signals |-> FALSE]
    /\ stopFlag = FALSE /\ health = {} /\ indicator = "booting"
    /\ confirmation = "none" /\ stopped = "none" /\ task = "none"
    /\ main = "controls" /\ attempts = 0 /\ server = "down" /\ async = NoAsync
    /\ pc = [httpd |-> "idle", worker |-> "none"] /\ id = [httpd |-> 0, worker |-> 0]
    /\ outcome = Coherent /\ console = FALSE
    /\ restart = FALSE /\ latch = FALSE
    /\ store = [settings |-> "custom", blobs |-> TRUE, pending |-> FALSE]
    /\ sessions = Sessions /\ power = "on"
    /\ request = <<>> /\ status = [i \in Ids |-> 0] /\ faults = 0
    /\ gives = 0 /\ givenTo = 0 /\ confirmedBy = [i \in Ids |-> -1]
    /\ guardedAt = [i \in Ids |-> 0] /\ acted = <<>> /\ touched = {} /\ lost = {}

Fault == faults < MaxFaults /\ faults' = faults + 1
Works == UNCHANGED faults

\* Everything stops with the chip.
On == power = "on"

-----------------------------------------------------------------------------
(* Controls: initialisation, the task, and shutdown.                        *)

\* cleanup_resources() and finalize_deinit(): the pin, then the semaphores.  A
\* pin that cannot be reset stays owned, and the engine initialized.
CleanUp(failed) ==
    \E pinKept \in BOOLEAN :
        /\ IF pinKept THEN Fault ELSE Works
        /\ confirmation' = "none" /\ stopped' = "none"
        /\ controls' = [initialized |-> pinKept, stopConfirmed |-> TRUE, running |-> FALSE,
                        pin |-> pinKept, signals |-> FALSE]
        /\ stopFlag' = (pinKept /\ stopFlag)
        /\ indicator' = IF pinKept THEN indicator ELSE "booting"
        /\ health' = health \cup failed \cup (IF pinKept THEN {"generic", "cleanup"} ELSE {})

\* device_controls_init() up to the task: the engine, the pin, the safe level,
\* the two signals.  A failure cleans up what there is.
ControlsInit ==
    /\ On /\ main = "controls"
    /\ controls' = [initialized |-> TRUE, stopConfirmed |-> TRUE, running |-> FALSE,
                    pin |-> TRUE, signals |-> TRUE]
    /\ confirmation' = "empty" /\ stopped' = "empty" /\ health' = {} /\ indicator' = "booting"
    /\ main' = "task_create"
    /\ UNCHANGED <<policy, stopFlag, task, attempts, server, async, callVars,
                   effectVars, console, faults, historyVars>>

ControlsInitFails ==
    /\ On /\ main = "controls" /\ faults < MaxFaults
    /\ \E failure \in {"gpio_configuration", "indicator", "generic"} : CleanUp({failure})
    /\ main' = "failed"
    /\ UNCHANGED <<policy, task, attempts, server, async, callVars, effectVars, console,
                   historyVars>>

\* xTaskCreate(): the task runs before it is recorded as started.
TaskCreate ==
    /\ On /\ main = "task_create"
    /\ \/ task' = "polling" /\ main' = "task_started" /\ Works
          /\ UNCHANGED <<controls, stopFlag, health, indicator, confirmation, stopped>>
       \/ faults < MaxFaults /\ CleanUp({"task_start"}) /\ main' = "failed" /\ UNCHANGED task
    /\ UNCHANGED <<policy, attempts, server, async, callVars, effectVars, console,
                   historyVars>>

\* device_controls_engine_task_started()
TaskStarted ==
    /\ On /\ main = "task_started"
    /\ controls' = [controls EXCEPT !.stopConfirmed = FALSE, !.running = TRUE]
    /\ main' = "wifi"
    /\ UNCHANGED <<policy, stopFlag, health, indicator, confirmation, stopped, task,
                   attempts, server, async, callVars, effectVars, console, faults,
                   historyVars>>

\* device_controls_engine_poll(): a stop request ends the loop in stop_task(); a
\* failed write of the LED is recorded and the loop goes on.
TaskPoll ==
    /\ On /\ task = "polling"
    /\ \/ /\ stopFlag /\ task' = "leaving" /\ Works
          /\ controls' = [controls EXCEPT !.running = FALSE]
          /\ UNCHANGED <<health, indicator>>
       \/ /\ ~stopFlag /\ "indicator" \notin health /\ Fault
          /\ health' = health \cup {"indicator"} /\ indicator' = "fatal"
          /\ UNCHANGED <<task, controls>>
    /\ UNCHANGED <<policy, stopFlag, confirmation, stopped, serverVars, callVars,
                   effectVars, console, historyVars>>

\* stop_task(): the last thing the task does is to give `controls_stopped'.
TaskLeave ==
    /\ On /\ task = "leaving" /\ task' = "gone"
    /\ IF stopped = "none"
       THEN health' = health \cup {"task_stop", "cleanup"} /\ UNCHANGED stopped
       ELSE stopped' = "full" /\ UNCHANGED health
    /\ UNCHANGED <<policy, controls, stopFlag, indicator, confirmation, serverVars,
                   callVars, effectVars, console, faults, historyVars>>

\* device_controls_engine_deinit(): ask the task to stop ...
ControlsStop ==
    /\ On /\ main = "controls_stop" /\ stopFlag' = TRUE /\ main' = "controls_wait"
    /\ UNCHANGED <<policy, controls, health, indicator, confirmation, stopped, task,
                   attempts, server, async, callVars, effectVars, console, faults,
                   historyVars>>

\* ... and wait for it.  The wait is 100 polls long: it runs out only when the
\* task is starved, and then everything the task may still use is kept.
ControlsWait ==
    /\ On /\ main = "controls_wait"
    /\ \/ /\ stopped = "full" /\ stopped' = "empty" /\ main' = "controls_cleanup" /\ Works
          /\ controls' = [controls EXCEPT !.stopConfirmed = TRUE, !.running = FALSE]
          /\ UNCHANGED <<health, indicator>>
       \/ /\ stopped # "full" /\ Fault /\ main' = "failed"
          /\ health' = health \cup {"task_stop", "cleanup"} /\ indicator' = "fatal"
          /\ UNCHANGED <<controls, stopped>>
    /\ UNCHANGED <<policy, stopFlag, confirmation, task, attempts, server, async,
                   callVars, effectVars, console, historyVars>>

ControlsCleanup ==
    /\ On /\ main = "controls_cleanup" /\ CleanUp({}) /\ main' = "failed"
    /\ UNCHANGED <<policy, task, attempts, server, async, callVars, effectVars, console,
                   historyVars>>

-----------------------------------------------------------------------------
(* The start of the server, and how it is undone.                           *)

StartStep(from, to) == main = from /\ main' = to /\ Works

\* A failed step of the start: what it left behind decides where to begin.
StartFails(from, to) == StartMayFail /\ main = from /\ main' = to /\ Fault

WifiStart ==
    /\ On /\ (StartStep("wifi", "http") \/ StartFails("wifi", "controls_stop"))
    /\ UNCHANGED <<policy, controlVars, attempts, server, async, callVars, effectVars,
                   console, historyVars>>

HttpdStart ==
    /\ On
    /\ \/ StartStep("http", "async_start") /\ server' = "up"
       \/ StartFails("http", "controls_stop") /\ UNCHANGED server
    /\ UNCHANGED <<policy, controlVars, attempts, async, callVars, effectVars, console,
                   historyVars>>

\* web_server_async_start(); when it fails httpd is stopped again, and if that
\* fails too the handle is kept for cleanup_after_failure().
AsyncStart ==
    /\ On
    /\ \/ /\ StartStep("async_start", "register")
          /\ async' = [NoAsync EXCEPT !.exists = TRUE, !.stopped = "empty"]
          /\ pc' = [pc EXCEPT !.worker = "receive"] /\ UNCHANGED server
       \/ /\ \E kept \in BOOLEAN :
                /\ StartFails("async_start", IF kept THEN "async_stop" ELSE "controls_stop")
                /\ server' = IF kept THEN "up" ELSE "down"
          /\ UNCHANGED <<async, pc>>
    /\ attempts' = IF main' = "async_stop" THEN 1 ELSE attempts
    /\ UNCHANGED <<policy, controlVars, id, outcome, request, status, effectVars,
                   console, historyVars>>

\* web_adapter_lifecycle_start(): the routes, up to the one the device actions
\* come in by, and the ones after it.  From the first on, requests are served.
Register ==
    /\ On
    /\ \/ StartStep("register", "register_rest") \/ StartFails("register", "async_stop")
       \/ StartStep("register_rest", "ready") \/ StartFails("register_rest", "async_stop")
    /\ indicator' = IF main' = "ready" THEN "ready" ELSE indicator
    /\ UNCHANGED <<policy, controls, stopFlag, health, confirmation, stopped, task,
                   attempts, server, async, callVars, effectVars, console, historyVars>>

\* stop_server_adapter() gave up.  The first call is the one of
\* web_adapter_lifecycle_start(), the second that of cleanup_after_failure().
StopFailed == /\ attempts' = attempts + 1
              /\ main' = IF attempts = 0 THEN "async_stop" ELSE "controls_stop"

\* Both waits of web_server_async_stop() outlast the confirmation timeout, so
\* they run out only over a worker that is busy with something else.
WorkerBusy == pc.worker \in (ActionPcs \cup {"complete", "release"}) \ {"wait_entry", "waiting"}

\* MUTANT of AsyncStop: the stop does not go through the queue.
AsyncStopAtOnce ==
    /\ On /\ main = "async_stop" /\ Works
    /\ main' = "httpd_stop" /\ async' = NoAsync
    /\ UNCHANGED <<policy, controlVars, attempts, server, callVars, effectVars, console,
                   historyVars>>

\* web_server_async_stop(): the stop sentinel goes into the queue ...
AsyncStop ==
    /\ On /\ main = "async_stop"
    /\ \/ ~async.exists /\ main' = "httpd_stop" /\ Works /\ UNCHANGED <<async,
                                                                        attempts>>
       \/ /\ async.exists /\ async.queue = <<>> /\ Works
          /\ async' = [async EXCEPT !.queue = <<Sentinel>>]
          /\ main' = "async_wait" /\ UNCHANGED attempts
       \/ /\ async.exists /\ async.queue # <<>> /\ WorkerBusy /\ Fault
          /\ StopFailed /\ UNCHANGED async
    /\ UNCHANGED <<policy, controlVars, server, callVars, effectVars, console,
                   historyVars>>

\* ... and the worker answers it; then the queue is deleted, whatever is in it.
AsyncWait ==
    /\ On /\ main = "async_wait"
    /\ \/ /\ async.stopped = "full" /\ async' = NoAsync /\ main' = "httpd_stop" /\ Works
          /\ lost' = lost \cup ({async.queue[i] : i \in DOMAIN async.queue} \ {Sentinel})
          /\ UNCHANGED attempts
       \/ /\ async.stopped # "full" /\ WorkerBusy /\ Fault
          /\ StopFailed /\ UNCHANGED <<async, lost>>
    /\ UNCHANGED <<policy, controlVars, server, callVars, effectVars, console, gives,
                   givenTo, confirmedBy, guardedAt, acted, touched>>

\* httpd_stop() lets the handler that runs come to its end.
HttpdStop ==
    /\ On /\ main = "httpd_stop" /\ pc.httpd = "idle"
    /\ \/ server' = "down" /\ main' = "controls_stop" /\ Works /\ UNCHANGED attempts
       \/ Fault /\ StopFailed /\ UNCHANGED server
    /\ UNCHANGED <<policy, controlVars, async, callVars, effectVars, console,
                   historyVars>>

-----------------------------------------------------------------------------
(* The HTTP task: reset_guarded_request(), api_handler(),                   *)
(* web_server_async_dispatch().                                             *)

Serving == server = "up" /\ main \in {"register_rest", "ready"} \cup StopPcs

Step(t, next) == pc' = [pc EXCEPT ![t] = next]
Answer(t, code) == status' = [status EXCEPT ![id[t]] = code]

\* Errors the HTTP task answers itself, which end the handler.
Refuse(code) == Step("httpd", "idle") /\ Answer("httpd", code)

Arrive ==
    /\ On /\ Serving /\ pc.httpd = "idle" /\ Len(request) < MaxRequests
    /\ \E r \in Requests : request' = Append(request, r)
    /\ id' = [id EXCEPT !.httpd = Len(request) + 1] /\ Step("httpd", "guard")
    /\ UNCHANGED <<policy, controlVars, serverVars, outcome, status, effectVars,
                   console, faults, historyVars>>

\* MUTANT of Guard: the latch of a reset-settings is not looked at.
GuardMarkerOnly ==
    /\ On /\ pc.httpd = "guard"
    /\ IF store.pending THEN Refuse(503)
       ELSE /\ Step("httpd", IF RequiresWorker(request[id.httpd], policy)
                             THEN "claim" ELSE "policy")
            /\ UNCHANGED status
    /\ Works
    /\ guardedAt' = [guardedAt EXCEPT ![id.httpd] = Len(acted)]
    /\ UNCHANGED <<policy, controlVars, serverVars, id, outcome, request, effectVars,
                   console, gives, givenTo, confirmedBy, acted, touched, lost>>

\* reset_guarded_request(), then api_handler() decides who runs the call.
Guard ==
    /\ On /\ pc.httpd = "guard"
    /\ \/ (latch \/ store.pending) /\ Refuse(503) /\ Works
       \/ Fault /\ ~latch /\ Refuse(503)
       \/ /\ ~latch /\ ~store.pending /\ Works /\ UNCHANGED status
          /\ Step("httpd", IF RequiresWorker(request[id.httpd], policy)
                           THEN "claim" ELSE "policy")
    /\ guardedAt' = [guardedAt EXCEPT ![id.httpd] = Len(acted)]
    /\ UNCHANGED <<policy, controlVars, serverVars, id, outcome, request, effectVars,
                   console, gives, givenTo, confirmedBy, acted, touched, lost>>

\* MUTANT of Claim: a worker that is not there makes the call run here.
ClaimOrRunInline ==
    /\ On /\ pc.httpd = "claim"
    /\ \/ ~async.exists /\ Step("httpd", "policy") /\ UNCHANGED <<async, status>>
       \/ async.exists /\ async.inFlight /\ Refuse(409) /\ UNCHANGED async
       \/ /\ async.exists /\ ~async.inFlight /\ async' = [async EXCEPT !.inFlight = TRUE]
          /\ Step("httpd", "read_body") /\ UNCHANGED status
    /\ UNCHANGED <<policy, controlVars, main, attempts, server, id, outcome, request,
                   effectVars, console, faults, historyVars>>

\* web_server_async_dispatch(): no worker, or the one claim is taken ...
Claim ==
    /\ On /\ pc.httpd = "claim"
    /\ \/ ~async.exists /\ Refuse(503) /\ UNCHANGED async
       \/ async.exists /\ async.inFlight /\ Refuse(409) /\ UNCHANGED async
       \/ /\ async.exists /\ ~async.inFlight /\ async' = [async EXCEPT !.inFlight = TRUE]
          /\ Step("httpd", "read_body") /\ UNCHANGED status
    /\ UNCHANGED <<policy, controlVars, main, attempts, server, id, outcome, request,
                   effectVars, console, faults, historyVars>>

\* ... the body, the item and the asynchronous request ...
ReadBody ==
    /\ On /\ pc.httpd = "read_body"
    /\ \/ Step("httpd", "enqueue") /\ Works /\ UNCHANGED <<async, status>>
       \/ /\ Fault /\ async' = [async EXCEPT !.inFlight = FALSE]
          /\ \E code \in {503, 422, 500} : Refuse(code)
    /\ UNCHANGED <<policy, controlVars, main, attempts, server, id, outcome, request,
                   effectVars, console, historyVars>>

\* ... and the queue, without waiting: a full one is answered and completed here.
Enqueue ==
    /\ On /\ pc.httpd = "enqueue"
    /\ \/ /\ async.exists /\ async.queue = <<>> /\ Step("httpd", "idle")
          /\ async' = [async EXCEPT !.queue = <<id.httpd>>] /\ UNCHANGED <<status,
                                                                           lost>>
       \/ /\ async.exists /\ async.queue # <<>> /\ Refuse(503)
          /\ async' = [async EXCEPT !.inFlight = FALSE] /\ UNCHANGED lost
       \/ /\ ~async.exists /\ Step("httpd", "idle")    \* deleted since the claim
          /\ lost' = lost \cup {id.httpd} /\ UNCHANGED <<async, status>>
    /\ UNCHANGED <<policy, controlVars, main, attempts, server, id, outcome, request,
                   effectVars, console, faults, gives, givenTo, confirmedBy, guardedAt,
                   acted, touched>>

-----------------------------------------------------------------------------
(* The worker: async_worker().                                              *)

WorkerReceive ==
    /\ On /\ pc.worker = "receive" /\ async.queue # <<>>
    /\ async' = [async EXCEPT !.queue = <<>>]
    /\ IF Head(async.queue) = Sentinel
       THEN Step("worker", "stopping") /\ UNCHANGED id
       ELSE Step("worker", "policy") /\ id' = [id EXCEPT !.worker = Head(async.queue)]
    /\ UNCHANGED <<policy, controlVars, main, attempts, server, outcome, request,
                   status, effectVars, console, faults, historyVars>>

\* httpd_req_async_handler_complete(), then release_in_flight().
WorkerComplete ==
    /\ On /\ pc.worker \in {"complete", "release"}
    /\ IF pc.worker = "complete" THEN Step("worker", "release") /\ UNCHANGED async
       ELSE Step("worker", "receive") /\ async' = [async EXCEPT !.inFlight = FALSE]
    /\ UNCHANGED <<policy, controlVars, main, attempts, server, id, outcome, request,
                   status, effectVars, console, faults, historyVars>>

WorkerStop ==
    /\ On /\ pc.worker = "stopping" /\ Step("worker", "gone")
    /\ async' = [async EXCEPT !.stopped = "full"]
    /\ UNCHANGED <<policy, controlVars, main, attempts, server, id, outcome, request,
                   status, effectVars, console, faults, historyVars>>

-----------------------------------------------------------------------------
(* The call itself: web_api_handle_call_with_body(), on either task.        *)

Tasks   == {"httpd", "worker"}
Call(t) == request[id[t]]
Finish(t, code) == Answer(t, code) /\ Step(t, IF t = "httpd" THEN "idle" ELSE "complete")

\* Refused, or on to the confirmation where the route asks for one.
Policy(t) ==
    /\ On /\ pc[t] = "policy"
    /\ LET code == AdmissionStatus(Call(t), sessions)
       IN  IF code # 0 THEN Finish(t, code)
           ELSE /\ Step(t, IF ConfirmationRequired(Call(t).path, policy)
                            THEN "wait_entry" ELSE "body")
                /\ UNCHANGED status
    /\ UNCHANGED <<policy, controlVars, serverVars, id, outcome, request, effectVars,
                   console, faults, historyVars>>

Waiters == {id[t] : t \in {u \in Tasks : pc[u] = "waiting"}}

\* device_controls_wait_for_confirmation(): the semaphore and the task must be
\* there when the wait begins; what was given before is taken at once.
WaitEntry(t) ==
    /\ On /\ pc[t] = "wait_entry"
    /\ IF confirmation = "none" \/ ~controls.running \/ stopFlag
       THEN Finish(t, PolicyStatus("PHYSICAL_CONFIRMATION"))
       ELSE Step(t, "waiting") /\ UNCHANGED status
    /\ UNCHANGED <<policy, controlVars, serverVars, id, outcome, request, effectVars,
                   console, faults, historyVars>>

\* MUTANT of WaitTake: the signal is left for the next request.
WaitPeek(t) ==
    /\ On /\ pc[t] = "waiting" /\ confirmation = "full" /\ Step(t, "body")
    /\ confirmedBy' = [confirmedBy EXCEPT ![id[t]] = givenTo]
    /\ UNCHANGED <<policy, controls, stopFlag, health, indicator, confirmation, stopped,
                   task, serverVars, id, outcome, request, status, effectVars, console,
                   faults, gives, givenTo, guardedAt, acted, touched, lost>>

WaitTake(t) ==
    /\ On /\ pc[t] = "waiting" /\ confirmation = "full" /\ Step(t, "body")
    /\ confirmation' = "empty"
    /\ confirmedBy' = [confirmedBy EXCEPT ![id[t]] = givenTo]
    /\ UNCHANGED <<policy, controls, stopFlag, health, indicator, stopped, task,
                   serverVars, id, outcome, request, status, effectVars, console,
                   faults, gives, givenTo, guardedAt, acted, touched, lost>>

\* MUTANT of WaitTimeout: the wait ends only with the task (portMAX_DELAY).
WaitUntilStopped(t) ==
    /\ On /\ pc[t] = "waiting" /\ confirmation # "full" /\ stopFlag
    /\ Finish(t, PolicyStatus("PHYSICAL_CONFIRMATION"))
    /\ UNCHANGED <<policy, controlVars, serverVars, id, outcome, request, effectVars,
                   console, faults, historyVars>>

WaitTimeout(t) ==
    /\ On /\ pc[t] = "waiting" /\ confirmation # "full"
    /\ Finish(t, PolicyStatus("PHYSICAL_CONFIRMATION"))
    /\ UNCHANGED <<policy, controlVars, serverVars, id, outcome, request, effectVars,
                   console, faults, historyVars>>

\* web_device_*_handle(): the body, and for the factory reset the record and
\* the password, before anything is done.  An erased record verifies none.
Body(t) ==
    /\ On /\ pc[t] = "body"
    /\ LET factory == Call(t).path = "device_factory_reset"
           code    == IF factory /\ store.settings = "erased" THEN 422
                      ELSE BodyStatus(Call(t).path, Call(t).body)
       IN \/ code # 0 /\ Finish(t, code) /\ Works
          \/ code = 0 /\ factory /\ Fault /\ Finish(t, 503)
          \/ /\ code = 0 /\ Works /\ UNCHANGED status
             /\ Step(t, IF Call(t).path = "device_restart" THEN "schedule" ELSE "apply")
    /\ outcome' = Coherent
    /\ UNCHANGED <<policy, controlVars, serverVars, id, request, effectVars, console,
                   historyVars>>

-----------------------------------------------------------------------------
(* The effects: device_controls_reset.c over the adapters of                *)
(* device_controls.c.                                                       *)

Begin(t) == acted' = Append(acted, id[t])
First(error) == IF outcome.primary = "NONE" THEN error ELSE outcome.primary

\* How a write that changed nothing fails: the errors of map_nvs_error(), and a
\* handle that is not open.
WriteErrors == {"STORAGE_FULL", "STORAGE_UNAVAILABLE", "INVALID_ARGUMENT"}

\* A write whose commit failed: what is durable now nobody knows.
MayCommit(t, written) ==
    /\ store' \in {store, written}
    /\ touched' = IF store' = store THEN touched ELSE touched \cup {id[t]}

\* The first write was reported to have failed: nothing else is done.
ResetRefused(t, error) ==
    Finish(t, ResetSettingsStatus([applied |-> FALSE, invalidated |-> FALSE, owned |-> FALSE,
                                   restart |-> "NONE", primary |-> error]))
FactoryRefused(t, error) ==
    Finish(t, FactoryResetStatus([durablyAccepted |-> FALSE, recoveryRequired |-> FALSE,
                                  primary |-> error]))

\* The settings of a reset-settings, with the latch that closes the API.  Every
\* error ends the reset there: an erased record is refused, a write that fails
\* changes nothing (replace_record_atomic()), and a commit that failed and cannot
\* be read back leaves either record (reconcile_failed_commit()).
ApplyReset(t) ==
    /\ On /\ pc[t] = "apply" /\ Call(t).path = "device_reset_settings"
    /\ \/ /\ store.settings # "erased" /\ Works
          /\ store' = [store EXCEPT !.settings = "default"] /\ latch' = TRUE
          /\ outcome' = [outcome EXCEPT !.applied = TRUE] /\ Step(t, "invalidate")
          /\ Begin(t) /\ touched' = touched \cup {id[t]} /\ UNCHANGED status
       \/ /\ IF store.settings = "erased" THEN Works ELSE Fault
          /\ \E error \in IF store.settings = "erased" THEN {"INVALID_ARGUMENT"}
                          ELSE WriteErrors : ResetRefused(t, error)
          /\ UNCHANGED <<store, latch, outcome, acted, touched>>
       \/ /\ store.settings # "erased" /\ Fault /\ ResetRefused(t, "COMMIT_UNCERTAIN")
          /\ MayCommit(t, [store EXCEPT !.settings = "default"])
          /\ UNCHANGED <<latch, outcome, acted>>
    /\ UNCHANGED <<policy, controlVars, serverVars, id, request, restart, sessions,
                   power, console, gives, givenTo, confirmedBy, guardedAt, lost>>

\* The marker of a factory reset.  Its value may be set and the commit fail
\* (adapter_write_value()): refused, while the marker may be there.
MarkPending(t) ==
    /\ On /\ pc[t] = "apply" /\ Call(t).path = "device_factory_reset"
    /\ \/ /\ store' = [store EXCEPT !.pending = TRUE] /\ Step(t, "erase") /\ Works
          /\ Begin(t) /\ touched' = touched \cup {id[t]} /\ UNCHANGED status
       \/ /\ Fault /\ FactoryRefused(t, "STORAGE_FULL") /\ UNCHANGED <<store, acted, touched>>
       \/ /\ Fault /\ FactoryRefused(t, "STORAGE_UNAVAILABLE") /\ UNCHANGED acted
          /\ MayCommit(t, [store EXCEPT !.pending = TRUE])
    /\ UNCHANGED <<policy, controlVars, serverVars, id, outcome, request, restart,
                   latch, sessions, power, console, gives, givenTo, confirmedBy,
                   guardedAt, lost>>

\* A failed erase skips everything up to the restart; it may have been durable.
Erase(t) ==
    /\ On /\ pc[t] = "erase"
    /\ \/ /\ store' = [store EXCEPT !.settings = "erased"] /\ Step(t, "invalidate")
          /\ Works /\ UNCHANGED outcome
       \/ /\ Fault /\ outcome' = [outcome EXCEPT !.primary = First("COMMIT_UNCERTAIN")]
          /\ store' \in {store, [store EXCEPT !.settings = "erased"]} /\ Step(t, "schedule")
    /\ UNCHANGED <<policy, controlVars, serverVars, id, request, status, restart, latch,
                   sessions, power, console, historyVars>>

\* auth_session_logout_all()
Invalidate(t) ==
    /\ On /\ pc[t] = "invalidate"
    /\ \/ /\ sessions' = {} /\ Works
          /\ outcome' = [outcome EXCEPT !.invalidated = TRUE]
       \/ /\ Fault /\ UNCHANGED sessions
          /\ outcome' = [outcome EXCEPT !.primary = First("INTERNAL")]
    /\ Step(t, IF Call(t).path = "device_factory_reset" THEN "delete" ELSE "schedule")
    /\ UNCHANGED <<policy, controlVars, serverVars, id, request, status, restart, latch,
                   store, power, console, historyVars>>

\* storage_blob_delete_all(), and after it, whatever came of it, the temporary
\* files (storage_blob_recover_startup()): either may fail.
DeleteBlobs(t) ==
    /\ On /\ pc[t] = "delete" /\ Step(t, "schedule")
    /\ \/ store' = [store EXCEPT !.blobs = FALSE] /\ Works /\ UNCHANGED outcome
       \/ /\ Fault /\ outcome' = [outcome EXCEPT !.primary = First("IO")]
          /\ store' \in {store, [store EXCEPT !.blobs = FALSE]}
    /\ UNCHANGED <<policy, controlVars, serverVars, id, request, status, restart, latch,
                   sessions, power, console, historyVars>>

\* What is answered once the restart has been asked for with this error.
ScheduledStatus(t, error) ==
    CASE Call(t).path = "device_restart" -> RestartStatus(error)
      [] Call(t).path = "device_reset_settings" ->
            ResetSettingsStatus([applied |-> outcome.applied,
                                 invalidated |-> outcome.invalidated,
                                 owned |-> error = "NONE",
                                 primary |-> outcome.primary, restart |-> error])
      [] OTHER -> FactoryResetStatus([durablyAccepted |-> TRUE,
                                      recoveryRequired |-> First(error) # "NONE",
                                      primary |-> First(error)])

\* MUTANT of Schedule: the marker is cleared although the reset had an error.
ScheduleThenClear(t) ==
    /\ On /\ pc[t] = "schedule" /\ restart' = TRUE /\ Works
    /\ acted' = IF Call(t).path = "device_restart" THEN Append(acted, id[t]) ELSE acted
    /\ IF Call(t).path = "device_factory_reset"
       THEN Step(t, "clear") /\ UNCHANGED status
       ELSE Finish(t, ScheduledStatus(t, "NONE"))
    /\ UNCHANGED <<policy, controlVars, serverVars, id, outcome, request, latch, store,
                   sessions, power, console, gives, givenTo, confirmedBy, guardedAt,
                   touched, lost>>

\* adapter_reset_schedule_restart(): a timer, or where there is none an
\* immediate restart, which may yet return.  Only one task ever schedules: the
\* worker where the confirmation is enabled, else the HTTP task.
Schedule(t) ==
    /\ On /\ pc[t] = "schedule"
    /\ acted' = IF Call(t).path = "device_restart" THEN Append(acted, id[t]) ELSE acted
    /\ \/ /\ restart' = TRUE /\ Works /\ UNCHANGED power
          /\ IF Call(t).path = "device_factory_reset" /\ outcome.primary = "NONE"
             THEN Step(t, "clear") /\ UNCHANGED status
             ELSE Finish(t, ScheduledStatus(t, "NONE"))
       \/ /\ ~restart /\ Fault /\ power' = "restarted" /\ UNCHANGED <<restart, pc,
                                                                      status>>
       \/ /\ ~restart /\ Fault /\ Finish(t, ScheduledStatus(t, "INTERNAL"))
          /\ UNCHANGED <<restart, power>>
    /\ UNCHANGED <<policy, controlVars, serverVars, id, outcome, request, latch, store,
                   sessions, console, gives, givenTo, confirmedBy, guardedAt, touched,
                   lost>>

\* The marker goes last, with the restart owned.  It may be gone after a clear
\* that failed (adapter_erase_value()).
ClearPending(t) ==
    /\ On /\ pc[t] = "clear"
    /\ \/ /\ store' = [store EXCEPT !.pending = FALSE] /\ Works
          /\ Finish(t, ScheduledStatus(t, "NONE"))
       \/ /\ Fault /\ Finish(t, ScheduledStatus(t, "STORAGE_UNAVAILABLE"))
          /\ store' \in {store, [store EXCEPT !.pending = FALSE]}
    /\ UNCHANGED <<policy, controlVars, serverVars, id, outcome, request, restart,
                   latch, sessions, power, console, historyVars>>

-----------------------------------------------------------------------------
(* The console, the timer, and the other requests that matter here.         *)

\* device_controls_signal_confirmation() checks ...
ConsoleConfirm ==
    /\ On /\ ~console /\ gives < MaxConfirms
    /\ confirmation # "none" /\ controls.running /\ ~stopFlag
    /\ console' = TRUE
    /\ UNCHANGED <<policy, controlVars, serverVars, callVars, effectVars, faults,
                   historyVars>>

\* ... and gives.  A signal that nobody has taken yet absorbs the next one; one
\* that was deleted after the checks has no effect here.
ConsoleGive ==
    /\ On /\ console /\ console' = FALSE
    /\ IF confirmation = "empty"
       THEN /\ confirmation' = "full" /\ gives' = gives + 1
            /\ givenTo' = IF Waiters = {} THEN 0 ELSE CHOOSE i \in Waiters : TRUE
       ELSE UNCHANGED <<confirmation, gives, givenTo>>
    /\ UNCHANGED <<policy, controls, stopFlag, health, indicator, stopped, task,
                   serverVars, callVars, effectVars, faults, confirmedBy, guardedAt,
                   acted, touched, lost>>

\* restart_timer_callback()
TimerFires ==
    /\ On /\ restart /\ power' = "restarted"
    /\ UNCHANGED <<policy, controlVars, serverVars, callVars, restart, latch, store,
                   sessions, console, faults, historyVars>>

\* A login or a logout, handled by the HTTP task behind the same guard.  The
\* guard, the hash and the new session are steps of CredentialStore; here the
\* session of a login is one of after the run began, whenever it comes.
LoginOrLogout ==
    /\ On /\ Serving /\ pc.httpd = "idle" /\ ~latch /\ ~store.pending
    /\ \/ sessions' = sessions \cup {LateSession}
       \/ \E s \in sessions : sessions' = sessions \ {s}
    /\ UNCHANGED <<policy, controlVars, serverVars, callVars, restart, latch, store,
                   power, console, faults, historyVars>>

-----------------------------------------------------------------------------
Start  == ControlsInit \/ ControlsInitFails \/ TaskCreate \/ TaskStarted \/ WifiStart
          \/ HttpdStart \/ AsyncStart \/ Register
Undo   == AsyncStop \/ AsyncWait \/ HttpdStop \/ ControlsStop \/ ControlsWait
          \/ ControlsCleanup
Httpd  == Guard \/ Claim \/ ReadBody \/ Enqueue
Worker == WorkerReceive \/ WorkerComplete \/ WorkerStop
Handle(t) == Policy(t) \/ WaitEntry(t) \/ WaitTake(t) \/ WaitTimeout(t) \/ Body(t)
             \/ ApplyReset(t) \/ MarkPending(t) \/ Erase(t) \/ Invalidate(t)
             \/ DeleteBlobs(t) \/ Schedule(t) \/ ClearPending(t)
Console == ConsoleConfirm \/ ConsoleGive

Next == \/ Start \/ Undo \/ TaskPoll \/ TaskLeave \/ Arrive \/ Httpd \/ Worker
        \/ (\E t \in Tasks : Handle(t)) \/ Console \/ TimerFires \/ LoginOrLogout

Spec == Init /\ [][Next]_vars

\* The scheduler gives every task its turn; a confirmation wait times out, and
\* an armed timer fires.  Clients and the person at the console owe nothing.
Fairness == /\ WF_vars(Start \/ Undo)
            /\ WF_vars((TaskPoll /\ stopFlag) \/ TaskLeave)
            /\ WF_vars(Httpd \/ Handle("httpd"))
            /\ WF_vars(Worker \/ Handle("worker"))
            /\ WF_vars(TimerFires)
FairSpec == Spec /\ Fairness

-----------------------------------------------------------------------------
(* Properties.                                                              *)

\* Every variable has the kind of value the C declarations give it, and the
\* engine of the controls never claims signals it does not have.
TypeOK ==
    /\ controls \in [initialized : BOOLEAN, stopConfirmed : BOOLEAN, running : BOOLEAN,
                   pin : BOOLEAN, signals : BOOLEAN]
    /\ stopFlag \in BOOLEAN /\ health \subseteq Failures
    /\ indicator \in {"booting", "ready", "fatal"}
    /\ confirmation \in Signals /\ stopped \in Signals
    /\ task \in {"none", "polling", "leaving", "gone"}
    /\ main \in StartPcs \cup StopPcs \cup {"ready", "failed"}
    /\ server \in {"down", "up"} /\ Len(async.queue) <= 1
    /\ pc.httpd \in HttpdPcs /\ pc.worker \in WorkerPcs
    /\ controls.signals = (confirmation # "none") /\ controls.signals = (stopped # "none")

\* Nothing a task can still touch has been taken away: the confirmation signal
\* while a request waits on it, `controls_stopped' and the LED pin while the
\* controls task runs, the queue while the worker may come back to it.
\* device_controls_deinit() and web_server_async_stop() free what they own while
\* httpd and the worker may still be running (web_server_async.c:145-172).
LiveResources ==
    /\ Waiters # {} => confirmation # "none"
    /\ task \in {"polling", "leaving"} => stopped # "none" /\ controls.pin
    /\ pc.worker \notin {"none", "gone"} => async.exists

\* With the confirmation enabled no more actions take effect than `confirm'
\* commands were given, and each has taken a signal of its own; without it the
\* signal is never used.  (`confirmation_semaphore' is binary, web_request_policy.c
\* evaluates the confirmation last.)
OneConfirmationEach ==
    policy => /\ Len(acted) <= gives
              /\ \A i \in DOMAIN acted : confirmedBy[acted[i]] # -1

\* The HTTP task never waits for a confirmation and never runs a gated call: the
\* worker that is missing is answered 503, not replaced (web_server_async.c:178-185).
HttpdNeverWaits == policy => pc.httpd \in HttpdPcs \ (ActionPcs \ {"policy"})

\* What is answered is what happened.  202 means that the restart is owned and the
\* reset committed; 409 from a call that changed something, that a reset-settings
\* is committed and has closed the API without a restart.  Any other answer means
\* that no reset has begun, and only a 503 leaves open whether its first
\* write became durable (a commit that failed, device_settings.c:101-124,
\* factory_reset_state.c:44-54); after 422, 500 or 507 nothing was changed.
AnswerTellsTheTruth ==
    \A i \in 1 .. Len(request) :
        /\ status[i] = 202 =>
              /\ restart \/ i \in touched
              /\ request[i].path = "device_restart" => restart
              /\ request[i].path = "device_reset_settings" => restart /\ i \in touched
              /\ request[i].path = "device_factory_reset" =>
                    i \in touched /\ (store.pending \/ (restart /\ store.settings = "erased"))
        /\ status[i] = 409 /\ i \in touched =>
              request[i].path = "device_reset_settings" /\ latch
        /\ status[i] \notin {0, 202, 409} /\ i \in touched =>
              status[i] = 503 /\ \A k \in DOMAIN acted : acted[k] # i

\* Once a reset has taken effect no other request with a session from before it
\* does: the latch, the marker or the empty session table stops it.  One that was
\* through the guard before the reset only gets by if some step of that reset
\* failed as well (web_server_lifecycle.c:20-43, device_controls_reset.c:31-67).
OldSessionsPowerless ==
    \A i, j \in DOMAIN acted :
        i < j /\ request[acted[i]].path # "device_restart"
              => \/ request[acted[j]].cookie \notin Sessions
                 \/ guardedAt[acted[j]] < i /\ faults > 0

\* A request that has arrived is answered, unless the chip restarts first or the
\* start of the server is being undone.  (A moment without an unanswered request
\* always comes again; an answer is never withdrawn and requests are finite, so
\* every one of them is answered.)
RequestsAreAnswered ==
    []<>(\/ power # "on" \/ main \in StopPcs \cup {"failed"}
         \/ \A i \in 1 .. Len(request) : status[i] # 0)

=============================================================================
