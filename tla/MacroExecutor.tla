--------------------------- MODULE MacroExecutor ---------------------------
(***************************************************************************)
(* The macro executor: firmware/components/macro_executor/                 *)
(* macro_executor_engine.c with the worker loop of macro_executor.c and the *)
(* three clients of the engine.                                            *)
(*                                                                         *)
(*   worker   the FreeRTOS task executor_task(): receives a request,       *)
(*            waits for a confirmation when the send needs one, types the  *)
(*            plan, releases all keys, publishes a terminal status.        *)
(*   httpd    the single HTTP server task: POST, GET and cancel of a send  *)
(*            (web_send.c).                                                *)
(*   console  the serial console task: "confirm" and "cancel".             *)
(*                                                                         *)
(* Every section the code runs under the engine's mutex is one action;     *)
(* whatever the code does outside the mutex (the atomic latch, usb calls,  *)
(* the queue, plan_free) is an action of its own, so that the tasks        *)
(* interleave exactly where the code lets them.                            *)
(*                                                                         *)
(* Time is abstract: `expired' says that the deadline the worker armed     *)
(* last has passed, and a delay is a number of cancellation slices.        *)
(* A mutex or queue operation may report failure at most MaxFaults times;  *)
(* MaxFaults = 0 is the production adapter, whose mutex waits forever.     *)
(***************************************************************************)
EXTENDS Naturals, Sequences, FiniteSets

CONSTANTS
    Ids,          \* send ids; app_uuid_generate() never repeats one
    NoId,         \* no send
    PlanOf,       \* the compiled plan of each send: a sequence of actions
    KeySlices,    \* slices of the key-press dwell (keyPressMs)
    InterSlices,  \* slices of the pause after a key (interKeyMs)
    DelaySlices,  \* slices of a delay action
    MaxFaults     \* how many mutex/queue operations may report failure

ASSUME IdsAssumption   == NoId \notin Ids
ASSUME PlanAssumption  == PlanOf \in [Ids -> Seq({"key", "delay"})]
ASSUME PlanNonEmpty    == \A id \in Ids : PlanOf[id] # <<>>
ASSUME SliceAssumption == /\ KeySlices \in Nat
                          /\ InterSlices \in Nat
                          /\ DelaySlices \in Nat
ASSUME FaultAssumption == MaxFaults \in Nat

Terminals == {"completed", "cancelled", "failed", "timed_out"}
States    == {"idle", "awaiting", "running"} \cup Terminals
\* Error codes, as far as the control flow tells them apart: "usb" stands for
\* APP_ERROR_USB_NOT_READY and APP_ERROR_IO.
Errors    == {"none", "internal", "cancelled", "timeout", "usb"}

\* Program counters.  A name says what the task does next.
ActionPcs  == {"publish", "check", "press", "slice", "release"}
ConfirmPcs == {"await_cancel", "await_confirm", "publish_running"}
FinishPcs  == {"finish_release", "finish_publish", "finish_reset"}
WorkerPcs  == {"receive", "publish_first", "free", "latch"}
                  \cup ConfirmPcs \cup ActionPcs \cup FinishPcs
SubmitPcs  == {"read_latch", "read_usb", "claim", "send", "undo_release",
               "undo_publish", "undo_reset", "undo_latch", "drop"}
HttpdPcs   == {"idle", "cancel_status", "cancel_latch", "cancel_lock",
               "get_lock", "reply"} \cup SubmitPcs
ConsolePcs == {"idle", "cancel", "confirm"}
Replies    == {"none", "accepted", "busy", "rejected", "never_sent",
               "cancel_never_sent", "cancel_accepted", "cancel_error", "get_ok", "get_internal"}

VARIABLES
    usbReady,     \* usb_keyboard_get_state() is USB_KEYBOARD_READY
    held,         \* the host sees a key down
    faults,       \* mutex/queue failures still to come
    busy, cancelReq, confirmReq, status,  \* engine fields under the mutex
    unavailable, releaseFault,            \* engine fields that are atomics
    queue,        \* request_queue
    wpc, wid, widx, wrem, wret, wres, wrel, wfail,  \* the worker's locals
    expired,      \* the deadline armed last has passed
    hpc, hid, hres, hfail, hfault,        \* the HTTP task's locals
    kpc,          \* the console task
    plan,         \* the heap block of each send's plan
    needs,        \* require_confirmation of each request
    \* history, read by no action:
    accepted,     \* sends answered with 202
    owner,        \* the send that claimed busy last
    confirmed,    \* sends whose displayed prompt was confirmed
    cancelled,    \* sends a cancel was recorded for
    waitCancelled,\* ... while they were awaiting confirmation
    typed,        \* key actions pressed, per send
    late,         \* key actions pressed after a recorded cancel
    outcome,      \* the terminal state published for each send
    afterLatch    \* sends accepted while the engine was unavailable

engineVars  == <<busy, cancelReq, confirmReq>>
latchVars   == <<unavailable, releaseFault>>
sendVars    == <<wid, widx, wrel, wfail>>
workerVars  == <<wpc, wrem, wret, wres, expired, sendVars>>
httpdVars   == <<hpc, hid, hres, hfail, hfault>>
planVars    == <<plan, needs>>
cancelVars  == <<confirmed, cancelled, waitCancelled>>
historyVars == <<accepted, owner, typed, late, outcome, afterLatch>>
sharedVars  == <<usbReady, held, queue, engineVars, latchVars>>
restVars    == <<kpc, planVars, cancelVars, historyVars>>
vars == <<faults, status, sharedVars, workerVars, httpdVars, restVars>>

KeyCount(id) == Cardinality({i \in DOMAIN PlanOf[id] : PlanOf[id][i] = "key"})

\* macro_execution_status_t: the fields a client's behaviour depends on.
StatusType == [state : States, id : Ids \cup {NoId}, release_error : BOOLEAN]

Init ==
    /\ usbReady \in BOOLEAN
    /\ held = FALSE /\ faults = MaxFaults
    /\ busy = FALSE /\ cancelReq = FALSE /\ confirmReq = FALSE
    /\ status = [state |-> "idle", id |-> NoId, release_error |-> FALSE]
    /\ unavailable = FALSE /\ releaseFault = FALSE
    /\ queue = <<>>
    /\ wpc = "receive" /\ wid = NoId /\ widx = 1 /\ wrem = 0
    /\ wret = "none" /\ wres = "none" /\ wrel = FALSE /\ wfail = FALSE
    /\ expired = FALSE
    /\ hpc = "idle" /\ hid = NoId /\ hres = "none" /\ hfail = FALSE
    /\ hfault = FALSE
    /\ kpc = "idle"
    /\ plan = [id \in Ids |-> "none"] /\ needs = [id \in Ids |-> FALSE]
    /\ accepted = {} /\ owner = NoId /\ confirmed = {} /\ cancelled = {}
    /\ waitCancelled = {}
    /\ typed = [id \in Ids |-> 0] /\ late = [id \in Ids |-> 0]
    /\ outcome = [id \in Ids |-> "none"] /\ afterLatch = {}

-----------------------------------------------------------------------------
(* The mutex, the plan block and the USB driver.                            *)
(* Operators marked MUTANT are broken variants that no action uses: each    *)
(* shows that a property can fail, see the mutants in PROJECT.json.         *)

LockOutcomes == {"ok", "nolock", "nounlock"}

\* lock_engine()/unlock_engine(): "nolock" skips the section, "nounlock" runs
\* it and then reports failure.
LockStep(lk) ==
    /\ lk # "ok" => faults > 0
    /\ faults' = IF lk = "ok" THEN faults ELSE faults - 1

\* publish_status().
PublishStatus(lk, st) ==
    /\ LockStep(lk)
    /\ status' = IF lk = "nolock" THEN status ELSE st

\* MUTANT of ResetTerminalFlags: busy is forgotten.
ResetCancelOnly(lk) ==
    /\ LockStep(lk)
    /\ cancelReq' = FALSE /\ confirmReq' = FALSE /\ UNCHANGED busy

\* reset_terminal_flags().
ResetTerminalFlags(lk) ==
    /\ LockStep(lk)
    /\ IF lk = "nolock"
         THEN UNCHANGED engineVars
         ELSE busy' = FALSE /\ cancelReq' = FALSE /\ confirmReq' = FALSE

\* plan_free() of a block; freeing a block twice is what must never happen.
PlanFree(id) ==
    plan' = [plan EXCEPT ![id] = IF @ = "live" THEN "freed" ELSE "double"]

\* usb_keyboard_press()/usb_keyboard_release_all(): what the call may return.
UsbResults == IF usbReady THEN {"none", "timeout", "usb"} ELSE {"usb"}

\* MUTANT of ReleaseAll: the failure is recorded, the engine is not latched.
ReleaseAllUnlatched(r) ==
    /\ held' = IF r = "none" THEN FALSE ELSE held
    /\ UNCHANGED unavailable
    /\ releaseFault' = (releaseFault \/ r # "none")

\* usb_release_all() followed by record_release_failure(): the first failure
\* is kept, and the engine is latched unavailable.
ReleaseAll(r) ==
    /\ held' = IF r = "none" THEN FALSE ELSE held
    /\ unavailable' = (unavailable \/ r # "none")
    /\ releaseFault' = (releaseFault \/ r # "none")

\* The execution_state_t of a terminal error code.
Terminal(res) == CASE res = "none"      -> "completed"
                   [] res = "cancelled" -> "cancelled"
                   [] res = "timeout"   -> "timed_out"
                   [] OTHER             -> "failed"

\* engine_unavailable().
EngineUnavailable == unavailable

\* MUTANT of ReadCancellation: only the wait for a confirmation sees a cancel.
ReadCancellationWaiting == cancelReq /\ wpc \in ConfirmPcs

\* The flag read_cancellation() returns.
ReadCancellation == cancelReq

\* MUTANT of DeadlineExpired: the deadline never fires.
DeadlineIgnored == FALSE

\* deadline_expired() of the deadline armed last.
DeadlineExpired == expired

\* The loop condition of cancellable_delay().
DelayDone == wrem = 0

\* MUTANT of PlanDone: the last action is skipped.
PlanDoneEarly == widx >= Len(PlanOf[wid])

\* The loop condition of macro_executor_engine_execute().
PlanDone == widx > Len(PlanOf[wid])

\* MUTANT of FinishFailed: a lost terminal status goes unnoticed.
ResetFailed(lk) == lk # "ok"

\* finish_execution(): the terminal status or the flags could not be written.
FinishFailed(lk) == wfail \/ lk # "ok"

\* MUTANT of Claimable: the busy flag is not looked at.
ClaimableAlways == TRUE

\* macro_executor_engine_submit() may claim the engine.
Claimable == ~busy

\* macro_executor_engine_confirm() finds a prompt to confirm.
CanConfirm == busy /\ status.state = "awaiting"

-----------------------------------------------------------------------------
(* The worker *)

\* xQueueReceive() of executor_task(); the locals of
\* macro_executor_engine_execute() have their first values.
WorkerReceive ==
    /\ wpc = "receive" /\ queue # <<>>
    /\ wid' = Head(queue) /\ queue' = Tail(queue)
    /\ wpc' = "publish_first"
    /\ UNCHANGED <<usbReady, held, faults, status, engineVars, latchVars, widx, wrel,
                   wfail, wrem, wret, wres, expired, httpdVars, restVars>>

\* macro_executor_engine_execute() returns and its locals are gone.
WorkerReturn ==
    /\ wpc' = "receive" /\ wid' = NoId /\ widx' = 1 /\ wrem' = 0
    /\ wret' = "none" /\ wres' = "none" /\ wrel' = FALSE /\ wfail' = FALSE
    /\ expired' = FALSE

Showing(st) == [state |-> st, id |-> wid, release_error |-> wrel]

\* The first publish_step(): awaiting confirmation, or running at once.
WorkerPublishFirst ==
    /\ wpc = "publish_first"
    /\ \E lk \in LockOutcomes :
         /\ PublishStatus(lk, Showing(IF needs[wid] THEN "awaiting"
                                                    ELSE "running"))
         /\ wpc' = IF lk # "ok" THEN "free"
                   ELSE IF needs[wid] THEN "await_cancel" ELSE "publish"
         /\ wres' = IF lk = "ok" THEN "none" ELSE "internal"
    /\ expired' = FALSE
    /\ UNCHANGED <<sharedVars, sendVars, wrem, wret, httpdVars, restVars>>

\* await_confirmation(): the cancellation is read first.
WorkerAwaitCancel ==
    /\ wpc = "await_cancel"
    /\ \E lk \in LockOutcomes :
         /\ LockStep(lk)
         /\ wres' = IF lk # "ok" THEN "internal"
                    ELSE IF ReadCancellation THEN "cancelled" ELSE "none"
         /\ wpc' = IF wres' = "none" THEN "await_confirm" ELSE "free"
    /\ UNCHANGED <<status, sharedVars, sendVars, wrem, wret, expired, httpdVars,
                   restVars>>

\* await_confirmation(): then the confirmation, then the 60 s deadline; a
\* slice of waiting leads back to the cancellation.
WorkerAwaitConfirm ==
    /\ wpc = "await_confirm"
    /\ \E lk \in LockOutcomes :
         /\ LockStep(lk)
         /\ \/ /\ lk # "ok"
               /\ wres' = "internal" /\ wpc' = "free"
            \/ /\ lk = "ok" /\ confirmReq
               /\ wres' = "none" /\ wpc' = "publish_running"
            \/ /\ lk = "ok" /\ ~confirmReq /\ DeadlineExpired
               /\ wres' = "timeout" /\ wpc' = "free"
            \/ /\ lk = "ok" /\ ~confirmReq /\ ~DeadlineExpired
               /\ wres' = "none" /\ wpc' = "await_cancel"
    /\ UNCHANGED <<status, sharedVars, sendVars, wrem, wret, expired, httpdVars,
                   restVars>>

\* run_confirmation_phase(): publish RUNNING; the execution deadline is armed.
WorkerPublishRunning ==
    /\ wpc = "publish_running"
    /\ \E lk \in LockOutcomes :
         /\ PublishStatus(lk, Showing("running"))
         /\ wpc' = IF lk = "ok" THEN "publish" ELSE "free"
         /\ wres' = IF lk = "ok" THEN "none" ELSE "internal"
    /\ expired' = FALSE
    /\ UNCHANGED <<sharedVars, sendVars, wrem, wret, httpdVars, restVars>>

\* The head of the action loop: publish the index, or leave the loop.
WorkerPublishIndex ==
    /\ wpc = "publish"
    /\ IF PlanDone
         THEN wpc' = "free" /\ UNCHANGED <<status, faults, wres>>
         ELSE \E lk \in LockOutcomes :
                /\ PublishStatus(lk, Showing("running"))
                /\ wpc' = IF lk = "ok" THEN "check" ELSE "free"
                /\ wres' = IF lk = "ok" THEN "none" ELSE "internal"
    /\ UNCHANGED <<sharedVars, sendVars, wrem, wret, expired, httpdVars, restVars>>

\* read_cancellation() and the watchdog before an action, then its start.
WorkerCheck ==
    /\ wpc = "check"
    /\ \E lk \in LockOutcomes :
         /\ LockStep(lk)
         /\ wres' = IF lk # "ok" THEN "internal"
                    ELSE IF ReadCancellation THEN "cancelled"
                    ELSE IF DeadlineExpired THEN "timeout" ELSE "none"
         /\ wpc' = IF wres' # "none" THEN "free"
                   ELSE IF PlanOf[wid][widx] = "key" THEN "press" ELSE "slice"
    /\ wrem' = DelaySlices /\ wret' = "next"
    /\ UNCHANGED <<status, sharedVars, sendVars, expired, httpdVars, restVars>>

\* usb_press() of execute_action().
WorkerPress ==
    /\ wpc = "press"
    /\ \E r \in UsbResults :
         /\ wres' = r
         /\ wpc' = IF r = "none" THEN "slice" ELSE "release"
         /\ held' = IF r = "none" THEN TRUE ELSE held
         /\ typed' = IF r = "none" THEN [typed EXCEPT ![wid] = @ + 1] ELSE typed
         /\ late' = IF r = "none" /\ wid \in cancelled
                      THEN [late EXCEPT ![wid] = @ + 1] ELSE late
    /\ wrem' = KeySlices /\ wret' = "release"
    /\ UNCHANGED <<usbReady, faults, status, queue, engineVars, latchVars, sendVars,
                   expired, httpdVars, kpc, planVars, cancelVars, accepted, owner,
                   outcome, afterLatch>>

\* Where cancellable_delay() returns to with result res.
DelayReturn(res) ==
    /\ wres' = res
    /\ IF wret = "release"
         THEN wpc' = "release" /\ UNCHANGED widx
         ELSE /\ wpc' = IF res = "none" THEN "publish" ELSE "free"
              /\ widx' = IF res = "none" THEN widx + 1 ELSE widx

\* One turn of cancellable_delay(): read the cancellation, check the watchdog,
\* wait one slice.
WorkerSlice ==
    /\ wpc = "slice"
    /\ IF DelayDone
         THEN DelayReturn("none") /\ UNCHANGED <<faults, wrem>>
         ELSE \E lk \in LockOutcomes :
                /\ LockStep(lk)
                /\ \/ /\ lk # "ok"
                      /\ DelayReturn("internal") /\ UNCHANGED wrem
                   \/ /\ lk = "ok" /\ ReadCancellation
                      /\ DelayReturn("cancelled") /\ UNCHANGED wrem
                   \/ /\ lk = "ok" /\ ~ReadCancellation /\ DeadlineExpired
                      /\ DelayReturn("timeout") /\ UNCHANGED wrem
                   \/ /\ lk = "ok" /\ ~ReadCancellation /\ ~DeadlineExpired
                      /\ wrem' = wrem - 1 /\ UNCHANGED <<wpc, wres, widx>>
    /\ UNCHANGED <<status, sharedVars, wid, wrel, wfail, wret, expired, httpdVars,
                   restVars>>

\* usb_release_all() of execute_action(), reached whatever the press and the
\* dwell returned.
WorkerRelease ==
    /\ wpc = "release"
    /\ \E r \in UsbResults :
         /\ ReleaseAll(r)
         /\ wrel' = (wrel \/ r # "none")
         /\ wres' = IF wres = "none" THEN r ELSE wres
         /\ wpc' = IF wres' = "none" THEN "slice" ELSE "free"
    /\ wrem' = InterSlices /\ wret' = "next"
    /\ UNCHANGED <<usbReady, faults, status, queue, engineVars, wid, widx, wfail,
                   expired, httpdVars, restVars>>

\* plan_free() at the end of every path of macro_executor_engine_execute(); the
\* locals of the action loop and the deadline have been read for the last time.
WorkerFree ==
    /\ wpc = "free"
    /\ PlanFree(wid)
    /\ wpc' = "finish_release"
    /\ widx' = 1 /\ wrem' = 0 /\ wret' = "none" /\ expired' = FALSE
    /\ UNCHANGED <<faults, status, sharedVars, wid, wrel, wfail, wres, httpdVars, kpc,
                   needs, cancelVars, historyVars>>

\* finish_execution(): the last release-all.
WorkerFinishRelease ==
    /\ wpc = "finish_release"
    /\ \E r \in UsbResults :
         /\ ReleaseAll(r)
         /\ wrel' = (wrel \/ r # "none")
    /\ wpc' = "finish_publish"
    /\ UNCHANGED <<usbReady, faults, status, queue, engineVars, wid, widx, wfail,
                   wrem, wret, wres, expired, httpdVars, restVars>>

\* finish_execution(): the terminal status.
WorkerFinishPublish ==
    /\ wpc = "finish_publish"
    /\ \E lk \in LockOutcomes :
         /\ PublishStatus(lk, [state |-> Terminal(wres), id |-> wid,
                               release_error |-> wrel])
         /\ wfail' = (lk # "ok")
         /\ outcome' = IF lk = "nolock" THEN outcome
                       ELSE [outcome EXCEPT ![wid] = Terminal(wres)]
    /\ wpc' = "finish_reset"
    /\ UNCHANGED <<sharedVars, wid, widx, wrel, wrem, wret, wres, expired, httpdVars,
                   kpc, planVars, cancelVars, accepted, owner, typed, late,
                   afterLatch>>

\* finish_execution(): the busy flag, after the terminal status.
WorkerFinishReset ==
    /\ wpc = "finish_reset"
    /\ \E lk \in LockOutcomes :
         /\ ResetTerminalFlags(lk)
         /\ IF FinishFailed(lk)
              THEN /\ wpc' = "latch"
                   /\ UNCHANGED <<wid, widx, wrem, wret, wres, wrel, wfail,
                                  expired>>
              ELSE WorkerReturn
    /\ UNCHANGED <<usbReady, held, status, queue, latchVars, httpdVars, restVars>>

\* finish_execution(): latch_engine_unavailable() after a failed publish/reset.
WorkerLatch ==
    /\ wpc = "latch"
    /\ unavailable' = TRUE
    /\ WorkerReturn
    /\ UNCHANGED <<usbReady, held, faults, status, queue, engineVars, releaseFault,
                   httpdVars, restVars>>

Worker ==
    \/ WorkerReceive \/ WorkerPublishFirst
    \/ WorkerAwaitCancel \/ WorkerAwaitConfirm \/ WorkerPublishRunning
    \/ WorkerPublishIndex \/ WorkerCheck \/ WorkerPress \/ WorkerSlice
    \/ WorkerRelease \/ WorkerFree
    \/ WorkerFinishRelease \/ WorkerFinishPublish \/ WorkerFinishReset
    \/ WorkerLatch

\* The tick counter reaches the deadline the worker armed last; whether it does
\* before the deadline is armed or after it was read for the last time makes no
\* difference.
DeadlinePasses ==
    /\ wpc \in ConfirmPcs \cup ActionPcs /\ ~expired
    /\ expired' = TRUE
    /\ UNCHANGED <<faults, status, sharedVars, wpc, sendVars, wrem, wret, wres,
                   httpdVars, restVars>>

-----------------------------------------------------------------------------
(* POST /api/v2/send on the HTTP task *)

\* web_send_create_handle() up to the submit call: the plan is compiled, the
\* confirmation policy read, an id drawn.  When one of the last two fails the
\* plan is freed and the request answered with an error.
SendCreate(id) ==
    /\ hpc = "idle" /\ plan[id] = "none"
    /\ \/ /\ plan' = [plan EXCEPT ![id] = "live"]
          /\ \E c \in BOOLEAN : needs' = [needs EXCEPT ![id] = c]
          /\ hpc' = "read_latch" /\ hid' = id /\ UNCHANGED hres
       \/ /\ plan' = [plan EXCEPT ![id] = "freed"]
          /\ hpc' = "reply" /\ hres' = "rejected" /\ UNCHANGED <<needs, hid>>
    /\ UNCHANGED <<faults, status, sharedVars, workerVars, hfail, hfault, kpc,
                   cancelVars, historyVars>>

\* macro_executor_engine_submit(): the latch, read without the mutex.
SubmitReadLatch ==
    /\ hpc = "read_latch"
    /\ hpc' = IF EngineUnavailable THEN "drop" ELSE "read_usb"
    /\ hres' = IF EngineUnavailable THEN "rejected" ELSE hres
    /\ UNCHANGED <<faults, status, sharedVars, workerVars, hid, hfail, hfault,
                   restVars>>

\* macro_executor_engine_submit(): usb_ready().
SubmitReadUsb ==
    /\ hpc = "read_usb"
    /\ hpc' = IF usbReady THEN "claim" ELSE "drop"
    /\ hres' = IF usbReady THEN hres ELSE "rejected"
    /\ UNCHANGED <<faults, status, sharedVars, workerVars, hid, hfail, hfault,
                   restVars>>

\* macro_executor_engine_submit(): claim the engine under the mutex.
SubmitClaim ==
    /\ hpc = "claim"
    /\ \E lk \in LockOutcomes :
         /\ LockStep(lk)
         /\ \/ /\ lk = "nolock"
               /\ hpc' = "drop" /\ hres' = "rejected"
               /\ UNCHANGED <<engineVars, owner>>
            \/ /\ lk # "nolock" /\ ~Claimable
               /\ hpc' = "drop"
               /\ hres' = IF lk = "ok" THEN "busy" ELSE "rejected"
               /\ UNCHANGED <<engineVars, owner>>
            \/ /\ lk # "nolock" /\ Claimable
               /\ busy' = TRUE /\ cancelReq' = FALSE /\ confirmReq' = FALSE
               /\ owner' = hid
               /\ hpc' = IF lk = "ok" THEN "send" ELSE "undo_release"
               /\ UNCHANGED hres
    /\ UNCHANGED <<usbReady, held, status, queue, latchVars, workerVars, hid, hfail,
                   hfault, kpc, planVars, cancelVars, accepted, typed, late, outcome,
                   afterLatch>>

\* macro_executor_engine_submit(): queue_send(), which owns the plan after.
SubmitSend ==
    /\ hpc = "send"
    /\ \/ /\ queue' = Append(queue, hid)
          /\ hpc' = "reply" /\ hres' = "accepted"
          /\ accepted' = accepted \cup {hid}
          /\ afterLatch' = IF unavailable THEN afterLatch \cup {hid}
                                          ELSE afterLatch
          /\ UNCHANGED faults
       \/ /\ faults > 0 /\ faults' = faults - 1
          /\ hpc' = "undo_release"
          /\ UNCHANGED <<queue, hres, accepted, afterLatch>>
    /\ UNCHANGED <<usbReady, held, status, engineVars, latchVars, workerVars, hid,
                   hfail, hfault, kpc, planVars, cancelVars, owner, typed, late,
                   outcome>>

\* MUTANT of UndoRelease: the plan is freed although the caller frees it.
UndoReleaseAndFree ==
    /\ hpc = "undo_release"
    /\ \E r \in UsbResults : ReleaseAll(r) /\ hfault' = (r # "none")
    /\ PlanFree(hid)
    /\ hpc' = "undo_publish" /\ hres' = "rejected"
    /\ UNCHANGED <<usbReady, faults, status, queue, engineVars, workerVars, hid,
                   hfail, kpc, needs, cancelVars, historyVars>>

\* finish_submission_failure(): the defensive release-all.
UndoRelease ==
    /\ hpc = "undo_release"
    /\ \E r \in UsbResults : ReleaseAll(r) /\ hfault' = (r # "none")
    /\ hpc' = "undo_publish" /\ hres' = "rejected"
    /\ UNCHANGED <<usbReady, faults, status, queue, engineVars, workerVars, hid,
                   hfail, restVars>>

\* finish_submission_failure(): the failed status.
UndoPublish ==
    /\ hpc = "undo_publish"
    /\ \E lk \in LockOutcomes :
         /\ PublishStatus(lk, [state |-> "failed", id |-> hid,
                               release_error |-> hfault])
         /\ hfail' = (lk # "ok")
    /\ hpc' = "undo_reset"
    /\ UNCHANGED <<sharedVars, workerVars, hid, hres, hfault, restVars>>

\* finish_submission_failure(): the flags.
UndoReset ==
    /\ hpc = "undo_reset"
    /\ \E lk \in LockOutcomes :
         /\ ResetTerminalFlags(lk)
         /\ hpc' = IF hfail \/ lk # "ok" THEN "undo_latch" ELSE "drop"
    /\ UNCHANGED <<usbReady, held, status, queue, latchVars, workerVars, hid, hres,
                   hfail, hfault, restVars>>

\* finish_submission_failure(): the latch.
UndoLatch ==
    /\ hpc = "undo_latch"
    /\ unavailable' = TRUE /\ hpc' = "drop"
    /\ UNCHANGED <<usbReady, held, faults, status, queue, engineVars, releaseFault,
                   workerVars, hid, hres, hfail, hfault, restVars>>

\* web_send_create_handle(): a rejected submit leaves the plan to the caller.
SendDrop ==
    /\ hpc = "drop"
    /\ PlanFree(hid)
    /\ hpc' = "reply"
    /\ UNCHANGED <<faults, status, sharedVars, workerVars, hid, hres, hfail, hfault,
                   kpc, needs, cancelVars, historyVars>>

-----------------------------------------------------------------------------
(* Cancel and confirm *)

\* The mutex section of macro_executor_engine_cancel().
CancelSection(lk) ==
    /\ LockStep(lk)
    /\ IF lk # "nolock" /\ busy /\ ~cancelReq
         THEN /\ cancelReq' = TRUE
              /\ cancelled' = cancelled \cup {owner}
              /\ waitCancelled' = IF status.state = "awaiting"
                                    THEN waitCancelled \cup {owner}
                                    ELSE waitCancelled
         ELSE UNCHANGED <<cancelReq, cancelled, waitCancelled>>
    /\ UNCHANGED <<busy, confirmReq, confirmed>>

\* web_send_cancel_handle(): macro_executor_engine_get_status(), then the
\* engine's cancel unless nothing was ever sent.
HttpCancelStart ==
    /\ hpc = "idle" /\ hpc' = "cancel_status"
    /\ UNCHANGED <<faults, status, sharedVars, workerVars, hid, hres, hfail, hfault,
                   restVars>>

HttpCancelStatus ==
    /\ hpc = "cancel_status"
    /\ \E lk \in LockOutcomes :
         /\ LockStep(lk)
         /\ IF lk = "ok" /\ status.state = "idle"
              THEN hpc' = "reply" /\ hres' = "cancel_never_sent"
              ELSE hpc' = "cancel_latch" /\ UNCHANGED hres
    /\ UNCHANGED <<status, sharedVars, workerVars, hid, hfail, hfault, restVars>>

HttpCancelLatch ==
    /\ hpc = "cancel_latch"
    /\ hpc' = IF EngineUnavailable THEN "reply" ELSE "cancel_lock"
    /\ hres' = IF EngineUnavailable THEN "cancel_error" ELSE hres
    /\ UNCHANGED <<faults, status, sharedVars, workerVars, hid, hfail, hfault,
                   restVars>>

HttpCancelLock ==
    /\ hpc = "cancel_lock"
    /\ \E lk \in LockOutcomes :
         /\ CancelSection(lk)
         /\ hres' = IF lk = "ok" THEN "cancel_accepted" ELSE "cancel_error"
    /\ hpc' = "reply"
    /\ UNCHANGED <<usbReady, held, status, queue, latchVars, workerVars, hid, hfail,
                   hfault, kpc, planVars, historyVars>>

\* web_send_get_handle() and macro_executor_engine_get_status(): the release
\* fault is read first, the status and the latch later under the mutex.
HttpGetStart ==
    /\ hpc = "idle" /\ hpc' = "get_lock" /\ hfault' = releaseFault
    /\ UNCHANGED <<faults, status, sharedVars, workerVars, hid, hres, hfail,
                   restVars>>

HttpGetLock ==
    /\ hpc = "get_lock"
    /\ \E lk \in LockOutcomes :
         /\ LockStep(lk)
         /\ hres' =
              IF lk = "ok" /\ status.state = "idle" THEN "never_sent"
              ELSE IF /\ unavailable
                      /\ (lk # "nolock" => ~status.release_error)
                      /\ ~hfault
                THEN "get_internal" ELSE "get_ok"
    /\ hpc' = "reply" /\ hfault' = FALSE
    /\ UNCHANGED <<status, sharedVars, workerVars, hid, hfail, restVars>>

\* The HTTP task sends the response and takes the next request.
HttpReply ==
    /\ hpc = "reply"
    /\ hpc' = "idle" /\ hid' = NoId /\ hres' = "none" /\ hfail' = FALSE
    /\ hfault' = FALSE
    /\ UNCHANGED <<faults, status, sharedVars, workerVars, restVars>>

\* The console commands "cancel" and "confirm": the latch, then the section.
ConsoleStart(cmd) ==
    /\ kpc = "idle" /\ ~EngineUnavailable
    /\ kpc' = cmd
    /\ UNCHANGED <<faults, status, sharedVars, workerVars, httpdVars, planVars,
                   cancelVars, historyVars>>

ConsoleCancel ==
    /\ kpc = "cancel" /\ kpc' = "idle"
    /\ \E lk \in LockOutcomes : CancelSection(lk)
    /\ UNCHANGED <<usbReady, held, status, queue, latchVars, workerVars, httpdVars,
                   planVars, historyVars>>

\* macro_executor_engine_confirm(): only for a send that is shown as awaiting.
\* The history variable records whom the prompt on display belongs to.
ConsoleConfirm ==
    /\ kpc = "confirm" /\ kpc' = "idle"
    /\ \E lk \in LockOutcomes :
         /\ LockStep(lk)
         /\ IF lk # "nolock" /\ CanConfirm
              THEN /\ confirmReq' = TRUE
                   /\ confirmed' = confirmed \cup {status.id}
              ELSE UNCHANGED <<confirmReq, confirmed>>
    /\ UNCHANGED <<usbReady, held, status, queue, busy, cancelReq, latchVars,
                   workerVars, httpdVars, planVars, cancelled, waitCancelled,
                   historyVars>>

-----------------------------------------------------------------------------
(* The USB host, as the driver's callbacks report it (external) *)

UsbReady ==
    /\ ~usbReady /\ usbReady' = TRUE
    /\ UNCHANGED <<held, faults, status, queue, engineVars, latchVars, workerVars,
                   httpdVars, restVars>>

\* Suspend leaves the host's view of the keys alone; a detached keyboard holds
\* no key.
UsbLost ==
    /\ usbReady' = FALSE
    /\ held' \in {held, FALSE}
    /\ UNCHANGED <<faults, status, queue, engineVars, latchVars, workerVars,
                   httpdVars, restVars>>

-----------------------------------------------------------------------------
Submit ==
    \/ SubmitReadLatch \/ SubmitReadUsb \/ SubmitClaim \/ SubmitSend
    \/ UndoRelease \/ UndoPublish \/ UndoReset \/ UndoLatch \/ SendDrop

HttpCall == \/ HttpCancelStatus \/ HttpCancelLatch \/ HttpCancelLock
            \/ HttpGetLock \/ HttpReply

Next ==
    \/ Worker
    \/ DeadlinePasses
    \/ \E id \in Ids : SendCreate(id)
    \/ Submit
    \/ HttpCancelStart \/ HttpGetStart \/ HttpCall
    \/ \E cmd \in {"cancel", "confirm"} : ConsoleStart(cmd)
    \/ ConsoleCancel \/ ConsoleConfirm
    \/ UsbReady \/ UsbLost

\* The scheduler runs every task that can run, and the clock advances.
Fairness == /\ WF_vars(Worker) /\ WF_vars(DeadlinePasses)
            /\ WF_vars(Submit) /\ WF_vars(HttpCall)

Spec == Init /\ [][Next]_vars

FairSpec == Spec /\ Fairness
-----------------------------------------------------------------------------
(* Properties *)

\* The types, grouped the way the tasks own the variables.
TypeEngine ==
    /\ usbReady \in BOOLEAN /\ held \in BOOLEAN
    /\ faults \in 0 .. MaxFaults
    /\ busy \in BOOLEAN /\ cancelReq \in BOOLEAN /\ confirmReq \in BOOLEAN
    /\ unavailable \in BOOLEAN /\ releaseFault \in BOOLEAN

TypeStatus == status \in StatusType

TypeWorker ==
    /\ wpc \in WorkerPcs /\ wid \in Ids \cup {NoId}
    /\ wpc # "receive" => wid \in Ids
    /\ widx \in Nat \ {0} /\ wrem \in Nat
    /\ wret \in {"none", "next", "release"} /\ wres \in Errors
    /\ wrel \in BOOLEAN /\ wfail \in BOOLEAN /\ expired \in BOOLEAN

TypeHttpd ==
    /\ hpc \in HttpdPcs /\ hid \in Ids \cup {NoId}
    /\ hpc \in SubmitPcs => hid \in Ids
    /\ hres \in Replies /\ hfail \in BOOLEAN /\ hfault \in BOOLEAN

TypeShared ==
    /\ queue \in Seq(Ids) /\ kpc \in ConsolePcs
    /\ plan \in [Ids -> {"none", "live", "freed", "double"}]
    /\ needs \in [Ids -> BOOLEAN]

TypeHistory ==
    /\ accepted \subseteq Ids /\ owner \in Ids \cup {NoId}
    /\ confirmed \subseteq Ids \cup {NoId}
    /\ cancelled \subseteq Ids \cup {NoId}
    /\ waitCancelled \subseteq Ids \cup {NoId}
    /\ typed \in [Ids -> Nat] /\ late \in [Ids -> Nat]
    /\ outcome \in [Ids -> {"none"} \cup Terminals]
    /\ afterLatch \subseteq Ids

\* Every variable keeps the type the code declares for it.
TypeOK == /\ TypeEngine /\ TypeStatus /\ TypeWorker /\ TypeHttpd
          /\ TypeShared /\ TypeHistory

\* Who holds the claim on the engine (the send that set busy).
HttpdClaims  == hpc \in {"send", "undo_release", "undo_publish", "undo_reset"}
QueueClaims  == queue # <<>>
WorkerClaims == wpc \notin {"receive", "latch"}

\* One send at a time: the submitting request, the queue and the worker never
\* hold the engine together, the queue never holds two requests, and whoever
\* holds it has busy set -- even when the mutex reports failures.
OneSendAtATime ==
    /\ ~(HttpdClaims /\ QueueClaims)
    /\ ~(HttpdClaims /\ WorkerClaims)
    /\ ~(QueueClaims /\ WorkerClaims)
    /\ Len(queue) <= 1
    /\ HttpdClaims \/ QueueClaims \/ WorkerClaims => busy

\* Who must free the plan of a send: the submitting request, the queued
\* message or the worker.
HttpdOwns(id)  == hpc \in SubmitPcs /\ hid = id
QueueOwns(id)  == \E i \in DOMAIN queue : queue[i] = id
WorkerOwns(id) == /\ wpc \in {"publish_first", "free"} \cup ConfirmPcs
                                \cup ActionPcs
                  /\ wid = id

\* The compiled plan is freed exactly once: it is allocated precisely while
\* one of its three owners holds it, so no path of web_send.c or of the engine
\* leaks it, frees it twice or reads it after it was freed.
PlanOwnership ==
    \A id \in Ids :
        /\ plan[id] # "double"
        /\ plan[id] = "live" <=> HttpdOwns(id) \/ QueueOwns(id) \/ WorkerOwns(id)
        /\ ~(HttpdOwns(id) /\ QueueOwns(id))
        /\ ~(HttpdOwns(id) /\ WorkerOwns(id))
        /\ ~(QueueOwns(id) /\ WorkerOwns(id))

\* No key stays down unnoticed: the host sees a key down only between a press
\* and its release, or after a release-all failed -- and then the fault is
\* recorded and the engine is unavailable.
NoStuckKey ==
    held => \/ wpc = "release" \/ (wpc = "slice" /\ wret = "release")
            \/ releaseFault /\ unavailable

\* A recorded cancel stops the send before its second next key: the worker
\* may be past its check for one key action, never for two.
CancelStopsTyping == \A id \in Ids : late[id] <= 1

\* A cancel recorded while the send awaits confirmation types nothing at all,
\* even when the confirmation arrives in the same polling slice.
CancelWhileAwaitingTypesNothing ==
    faults = MaxFaults => \A id \in Ids \cap waitCancelled : typed[id] = 0

\* Fail closed (FIX1 12.3): once the worker is back at its queue, a send whose
\* terminal status was lost, or a busy flag nobody will clear, has made the
\* engine unavailable.
FailClosed ==
    wpc = "receive" /\ ~QueueClaims =>
        /\ \A id \in accepted : outcome[id] = "none" => unavailable
        /\ busy /\ ~HttpdClaims /\ hpc # "undo_latch" => unavailable

\* COMPLETED is published only for a send whose every key action was pressed
\* exactly once, in spite of USB errors, cancels and deadlines.
CompletedMeansTyped ==
    \A id \in Ids : /\ outcome[id] = "completed" => typed[id] = KeyCount(id)
                    /\ typed[id] <= KeyCount(id)

\* The unsynchronised read of the latch lets at most the one submit that read
\* it before the failure slip through (proved, not a run).
LatchAdmitsAtMostOne == \A i, j \in afterLatch : i = j

\* Nothing but a failed mutex or queue operation excuses an engine that never ends a
\* send or never becomes idle again, and then it is unavailable for good.
FailedClosed == faults < MaxFaults /\ unavailable

\* Every accepted send ends: the confirmation deadline, the watchdog and the
\* bounded USB calls leave the worker no way to wait for ever.
AcceptedSendEnds ==
    \A id \in Ids : (id \in accepted) ~> (outcome[id] # "none" \/ FailedClosed)

\* After every send the engine accepts work again: busy is always cleared.
EngineBecomesIdle == busy ~> (~busy \/ FailedClosed)
=============================================================================
