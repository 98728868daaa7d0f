------------------------ MODULE DeviceActionsProofs ------------------------
(***************************************************************************)
(* Proofs about DeviceActions, for every number of requests, confirmations *)
(* and failures: its type correctness, the two properties that hold the    *)
(* confirmation up, what an answer means, what an old session can do, and  *)
(* what is still there when a task comes to use it.                        *)
(*                                                                         *)
(*   HttpdInv   While the confirmation is enabled the HTTP task keeps a    *)
(*              device action only when web_api_request_requires_worker()  *)
(*              refused it to the worker; the pipeline then refuses such a *)
(*              request before it comes to a confirmation.  The two look   *)
(*              at the request at different times and in different files.  *)
(*   CountInv   A signal is in exactly one place: given and not yet taken, *)
(*              taken by a call that has not acted yet (Armed), or spent   *)
(*              on an action.                                              *)
(*   SerialInv, One call acts at a time: without the confirmation it is    *)
(*   ClaimInv   the HTTP task's, with it the one claim of the worker.      *)
(*   IdInv      A call that runs has not been answered, and nobody else    *)
(*              has it.                                                    *)
(*   StageInv   What has happened by each step of an action.               *)
(*   ActedTouched  A reset that was counted as begun was written.          *)
(*   SessionInv Where a request stands towards the resets that have begun: *)
(*              what its guard saw of them, and what its admission did.    *)
(*   LiveInv    Who still runs at each step of the start and its undoing.  *)
(***************************************************************************)
EXTENDS DeviceActions, SequenceTheorems, TLAPS

\* What is only a shorter way to write a step of a reset is read through everywhere.
USE DEF WriteErrors, MayCommit, ResetRefused, FactoryRefused

\* The parts of TypeOK, by the actions that disturb them.
ControlType ==
    /\ controls \in [initialized : BOOLEAN, stopConfirmed : BOOLEAN, running : BOOLEAN,
                   pin : BOOLEAN, signals : BOOLEAN]
    /\ stopFlag \in BOOLEAN /\ health \subseteq Failures
    /\ indicator \in {"booting", "ready", "fatal"}
    /\ confirmation \in Signals /\ stopped \in Signals
    /\ task \in {"none", "polling", "leaving", "gone"}
    /\ controls.signals <=> confirmation # "none"
    /\ controls.signals <=> stopped # "none"

ServerType ==
    /\ main \in StartPcs \cup StopPcs \cup {"ready", "failed"} /\ server \in {"down", "up"}

\* The queue holds the sentinel or one of the n requests that arrived.
Queues(n) == {<<>>} \cup {<<i>> : i \in 0 .. n}

AsyncType ==
    async \in [queue : Queues(Len(request)), exists : BOOLEAN, stopped : Signals,
               inFlight : BOOLEAN]

\* What httpd and the worker do, and for which of the requests that arrived.
CallType ==
    /\ pc \in [Tasks -> HttpdPcs \cup WorkerPcs]
    /\ pc["httpd"] \in HttpdPcs /\ pc["worker"] \in WorkerPcs
    /\ id \in [Tasks -> Nat]
    /\ request \in Seq(Requests) /\ Len(request) <= MaxRequests
    /\ pc["httpd"] # "idle" => id["httpd"] \in 1 .. Len(request)
    /\ pc["worker"] \in ActionPcs => id["worker"] \in 1 .. Len(request)

HistoryType ==
    /\ acted \in Seq(Nat) /\ gives \in Nat /\ givenTo \in Nat
    /\ confirmedBy \in [Ids -> Int]

Typed == ControlType /\ ServerType /\ AsyncType /\ CallType /\ HistoryType

\* What HttpdNeverWaits needs of the request the HTTP task keeps.
HttpdInv ==
    policy => /\ pc["httpd"] \in HttpdPcs \ (ActionPcs \ {"policy"})
              /\ pc["httpd"] = "policy" => ~RequiresWorker(request[id["httpd"]], policy)

\* The worker has taken a signal and its action has not begun.
Armed == /\ power = "on"
         /\ \/ pc["worker"] \in {"body", "apply"}
            \/ pc["worker"] = "schedule" /\ Call("worker").path = "device_restart"

InHand == (IF confirmation = "full" THEN 1 ELSE 0) + (IF Armed THEN 1 ELSE 0)

Confirmed == ActionPcs \ {"policy", "wait_entry", "waiting"}

CountInv ==
    policy => /\ Len(acted) + InHand <= gives
              /\ pc["worker"] \in Confirmed => confirmedBy[id["worker"]] # -1
              /\ pc["worker"] \in {"erase", "invalidate", "delete"}
                    => Call("worker").path # "device_restart"
              /\ \A i \in DOMAIN acted : acted[i] \in Ids /\ confirmedBy[acted[i]] # -1

IInv == Typed /\ HttpdInv /\ CountInv

-----------------------------------------------------------------------------
(* Type correctness                                                         *)

LEMMA CleanUpType ==
    ASSUME ControlType, NEW failed \in SUBSET Failures, CleanUp(failed)
    PROVE  /\ controls' \in [initialized : BOOLEAN, stopConfirmed : BOOLEAN, running : BOOLEAN,
                             pin : BOOLEAN, signals : BOOLEAN]
           /\ stopFlag' \in BOOLEAN /\ health' \subseteq Failures
           /\ indicator' \in {"booting", "ready", "fatal"}
           /\ confirmation' = "none" /\ stopped' = "none" /\ ~controls'.signals
  <1>1. PICK pinKept \in BOOLEAN :
          /\ confirmation' = "none" /\ stopped' = "none"
          /\ controls' = [initialized |-> pinKept, stopConfirmed |-> TRUE, running |-> FALSE,
                          pin |-> pinKept, signals |-> FALSE]
          /\ stopFlag' = (pinKept /\ stopFlag)
          /\ indicator' = IF pinKept THEN indicator ELSE "booting"
          /\ health' = health \cup failed
                          \cup (IF pinKept THEN {"generic", "cleanup"} ELSE {})
    BY DEF CleanUp
  <1>2. CASE pinKept
    BY <1>1, <1>2 DEF ControlType, Failures
  <1>3. CASE ~pinKept
    BY <1>1, <1>3 DEF ControlType, Failures
  <1> QED
    BY <1>2, <1>3

LEMMA QueueType ==
    ASSUME NEW n \in Nat
    PROVE  /\ <<>> \in Queues(n)
           /\ \A i \in 0 .. n : <<i>> \in Queues(n)
           /\ Queues(n) \subseteq Queues(n + 1)
           /\ \A q \in Queues(n) : q # <<>> => Head(q) \in 0 .. n
           /\ \A q \in Queues(n) : Len(q) <= 1
  <1>1. Queues(n) \subseteq Queues(n + 1)
    BY DEF Queues
  <1>2. /\ <<>> \in Queues(n)
        /\ \A i \in 0 .. n : <<i>> \in Queues(n)
    BY DEF Queues
  <1>3. ASSUME NEW q \in Queues(n)
        PROVE  Len(q) <= 1 /\ (q # <<>> => Head(q) \in 0 .. n)
    <2>1. CASE q = <<>>
      BY <2>1
    <2>2. ASSUME NEW i \in 0 .. n, q = <<i>> PROVE Len(q) = 1 /\ Head(q) = i
      BY <2>2
    <2> QED
      BY <1>3, <2>1, <2>2 DEF Queues
  <1> QED
    BY <1>1, <1>2, <1>3

LEMMA ControlStep == ControlType /\ [Next]_vars => ControlType'
  <1> SUFFICES ASSUME ControlType, [Next]_vars PROVE ControlType'
    OBVIOUS
  <1>1. CASE WifiStart \/ HttpdStart \/ AsyncStart \/ AsyncStop \/ AsyncWait
    BY <1>1 DEF WifiStart, HttpdStart, AsyncStart, AsyncStop, AsyncWait,
       ControlType, Signals, Failures, controlVars
  <1>2. CASE HttpdStop \/ Arrive \/ Guard \/ Claim \/ ReadBody
    BY <1>2 DEF HttpdStop, Arrive, Guard, Claim, ReadBody, ControlType, Signals,
       Failures, controlVars
  <1>3. CASE Enqueue \/ WorkerReceive \/ WorkerComplete \/ WorkerStop
             \/ ConsoleConfirm
    BY <1>3 DEF Enqueue, WorkerReceive, WorkerComplete, WorkerStop, ConsoleConfirm,
       ControlType, Signals, Failures, controlVars
  <1>4. CASE TimerFires \/ LoginOrLogout
    BY <1>4, ZenonT(30) DEF TimerFires, LoginOrLogout, ControlType, Signals, Failures, controlVars
  <1>5. ASSUME NEW t \in Tasks,
               Policy(t) \/ WaitEntry(t) \/ WaitTimeout(t) \/ Body(t) \/ ApplyReset(t)
        PROVE  ControlType'
    BY <1>5 DEF Policy, WaitEntry, WaitTimeout, Body, ApplyReset, ControlType,
       Signals, Failures, controlVars
  <1>6. ASSUME NEW t \in Tasks,
               MarkPending(t) \/ Erase(t) \/ Invalidate(t) \/ DeleteBlobs(t)
               \/ Schedule(t)
        PROVE  ControlType'
    BY <1>6 DEF MarkPending, Erase, Invalidate, DeleteBlobs, Schedule, ControlType,
       Signals, Failures, controlVars
  <1>7. ASSUME NEW t \in Tasks, ClearPending(t) PROVE ControlType'
    BY <1>7 DEF ClearPending, ControlType, Signals, Failures, controlVars
  <1>8. CASE ControlsInit
    BY <1>8 DEF ControlsInit, ControlType, Signals, Failures
  <1>9. CASE ControlsInitFails
    BY <1>9, CleanUpType DEF ControlsInitFails, ControlType, Signals, Failures
  <1>10. CASE TaskCreate
    BY <1>10, CleanUpType DEF TaskCreate, ControlType, Signals, Failures
  <1>11. CASE TaskStarted
    BY <1>11 DEF TaskStarted, ControlType, Signals, Failures
  <1>12. CASE TaskPoll
    BY <1>12 DEF TaskPoll, ControlType, Signals, Failures
  <1>13. CASE TaskLeave
    BY <1>13 DEF TaskLeave, ControlType, Signals, Failures
  <1>14. CASE ControlsStop
    BY <1>14 DEF ControlsStop, ControlType, Signals, Failures
  <1>15. CASE ControlsWait
    BY <1>15 DEF ControlsWait, ControlType, Signals, Failures
  <1>16. CASE ControlsCleanup
    BY <1>16, CleanUpType DEF ControlsCleanup, ControlType, Signals, Failures
  <1>17. CASE Register
    BY <1>17 DEF Register, ControlType, Signals, Failures
  <1>18. ASSUME NEW t \in Tasks, WaitTake(t) PROVE ControlType'
    BY <1>18 DEF WaitTake, ControlType, Signals, Failures
  <1>19. CASE ConsoleGive
    BY <1>19 DEF ConsoleGive, ControlType, Signals, Failures
  <1>20. CASE UNCHANGED vars
    BY <1>20 DEF vars, ControlType, Signals, Failures, controlVars
  <1> QED
    BY <1>1, <1>2, <1>3, <1>4, <1>5, <1>6, <1>7, <1>8, <1>9, <1>10, <1>11, <1>12,
       <1>13, <1>14, <1>15, <1>16, <1>17, <1>18, <1>19, <1>20 DEF Next, Start, Undo,
       Httpd, Worker, Handle, Console

LEMMA ServerStep == ServerType /\ [Next]_vars => ServerType'
  <1> SUFFICES ASSUME ServerType, [Next]_vars PROVE ServerType'
    OBVIOUS
  <1>1. CASE ControlsInit \/ ControlsInitFails \/ TaskCreate \/ TaskStarted
             \/ ControlsStop
    BY <1>1 DEF ControlsInit, ControlsInitFails, TaskCreate, TaskStarted,
       ControlsStop, ServerType, StartPcs, StopPcs, serverVars
  <1>2. CASE ControlsWait \/ ControlsCleanup \/ TaskPoll \/ TaskLeave \/ Arrive
    BY <1>2 DEF ControlsWait, ControlsCleanup, TaskPoll, TaskLeave, Arrive,
       ServerType, StartPcs, StopPcs, serverVars
  <1>3. CASE Guard \/ Claim \/ ReadBody \/ Enqueue \/ WorkerReceive
    BY <1>3 DEF Guard, Claim, ReadBody, Enqueue, WorkerReceive, ServerType,
       StartPcs, StopPcs, serverVars
  <1>4. CASE WorkerComplete \/ WorkerStop \/ ConsoleConfirm \/ ConsoleGive
             \/ TimerFires
    BY <1>4 DEF WorkerComplete, WorkerStop, ConsoleConfirm, ConsoleGive, TimerFires,
       ServerType, StartPcs, StopPcs, serverVars
  <1>5. CASE LoginOrLogout
    BY <1>5 DEF LoginOrLogout, ServerType, StartPcs, StopPcs, serverVars
  <1>6. ASSUME NEW t \in Tasks,
               Policy(t) \/ WaitEntry(t) \/ WaitTake(t) \/ WaitTimeout(t) \/ Body(t)
        PROVE  ServerType'
    BY <1>6 DEF Policy, WaitEntry, WaitTake, WaitTimeout, Body, ServerType,
       StartPcs, StopPcs, serverVars
  <1>7. ASSUME NEW t \in Tasks,
               ApplyReset(t) \/ MarkPending(t) \/ Erase(t) \/ Invalidate(t)
               \/ DeleteBlobs(t)
        PROVE  ServerType'
    BY <1>7 DEF ApplyReset, MarkPending, Erase, Invalidate, DeleteBlobs, ServerType,
       StartPcs, StopPcs, serverVars
  <1>8. ASSUME NEW t \in Tasks, Schedule(t) \/ ClearPending(t) PROVE ServerType'
    BY <1>8 DEF Schedule, ClearPending, ServerType, StartPcs, StopPcs, serverVars
  <1>9. CASE AsyncStart
    BY <1>9
    DEF AsyncStart, ServerType, StartPcs, StopPcs, StartStep, StartFails, StopFailed
  <1>10. CASE AsyncStop
    BY <1>10
    DEF AsyncStop, ServerType, StartPcs, StopPcs, StartStep, StartFails, StopFailed
  <1>11. CASE AsyncWait
    BY <1>11
    DEF AsyncWait, ServerType, StartPcs, StopPcs, StartStep, StartFails, StopFailed
  <1>12. CASE HttpdStop
    BY <1>12
    DEF HttpdStop, ServerType, StartPcs, StopPcs, StartStep, StartFails, StopFailed
  <1>13. CASE HttpdStart
    BY <1>13
    DEF HttpdStart, ServerType, StartPcs, StopPcs, StartStep, StartFails, StopFailed
  <1>14. CASE WifiStart
    BY <1>14
    DEF WifiStart, ServerType, StartPcs, StopPcs, StartStep, StartFails, StopFailed
  <1>15. CASE Register
    BY <1>15
    DEF Register, ServerType, StartPcs, StopPcs, StartStep, StartFails, StopFailed
  <1>16. CASE UNCHANGED vars
    BY <1>16 DEF vars, ServerType, StartPcs, StopPcs, serverVars
  <1> QED
    BY <1>1, <1>2, <1>3, <1>4, <1>5, <1>6, <1>7, <1>8, <1>9, <1>10, <1>11, <1>12,
       <1>13, <1>14, <1>15, <1>16 DEF Next, Start, Undo, Httpd, Worker, Handle,
       Console

LEMMA AsyncStep == AsyncType /\ CallType /\ [Next]_vars => AsyncType'
  <1> SUFFICES ASSUME AsyncType, CallType, [Next]_vars PROVE AsyncType'
    OBVIOUS
  <1>0. Len(request) \in Nat
    BY DEF CallType
  <1>q. async.queue \in Queues(Len(request))
    BY DEF AsyncType
  <1>1. CASE ControlsInit \/ ControlsInitFails \/ TaskCreate \/ TaskStarted
             \/ WifiStart
    BY <1>1 DEF ControlsInit, ControlsInitFails, TaskCreate, TaskStarted, WifiStart,
       AsyncType, Signals, serverVars, callVars
  <1>2. CASE HttpdStart \/ Register \/ HttpdStop \/ ControlsStop \/ ControlsWait
    BY <1>2 DEF HttpdStart, Register, HttpdStop, ControlsStop, ControlsWait,
       AsyncType, Signals, serverVars, callVars
  <1>3. CASE ControlsCleanup \/ TaskPoll \/ TaskLeave \/ Guard \/ ConsoleConfirm
    BY <1>3 DEF ControlsCleanup, TaskPoll, TaskLeave, Guard, ConsoleConfirm,
       AsyncType, Signals, serverVars, callVars
  <1>4. CASE ConsoleGive \/ TimerFires \/ LoginOrLogout
    BY <1>4 DEF ConsoleGive, TimerFires, LoginOrLogout, AsyncType, Signals,
       serverVars, callVars
  <1>5. ASSUME NEW t \in Tasks,
               Policy(t) \/ WaitEntry(t) \/ WaitTake(t) \/ WaitTimeout(t) \/ Body(t)
        PROVE  AsyncType'
    BY <1>5 DEF Policy, WaitEntry, WaitTake, WaitTimeout, Body, AsyncType, Signals,
       serverVars, callVars
  <1>6. ASSUME NEW t \in Tasks,
               ApplyReset(t) \/ MarkPending(t) \/ Erase(t) \/ Invalidate(t)
               \/ DeleteBlobs(t)
        PROVE  AsyncType'
    BY <1>6 DEF ApplyReset, MarkPending, Erase, Invalidate, DeleteBlobs, AsyncType,
       Signals, serverVars, callVars
  <1>7. ASSUME NEW t \in Tasks, Schedule(t) \/ ClearPending(t) PROVE AsyncType'
    BY <1>7 DEF Schedule, ClearPending, AsyncType, Signals, serverVars, callVars
  <1>8. CASE AsyncStart
    BY <1>8, <1>0, QueueType DEF AsyncStart, AsyncType, Signals, NoAsync, Sentinel,
       serverVars, callVars, Step, Refuse, Answer
  <1>9. CASE AsyncStop
    BY <1>9, <1>0, QueueType DEF AsyncStop, AsyncType, Signals, NoAsync, Sentinel,
       serverVars, callVars, Step, Refuse, Answer
  <1>10. CASE AsyncWait
    <2>1. async' = async \/ async' = NoAsync
      BY <1>10 DEF AsyncWait
    <2>2. request' = request
      BY <1>10 DEF AsyncWait, callVars
    <2>3. NoAsync \in [queue : Queues(Len(request)), exists : BOOLEAN, stopped : Signals,
                      inFlight : BOOLEAN]
      BY <1>0, QueueType DEF NoAsync, Signals
    <2> QED
      BY <2>1, <2>2, <2>3 DEF AsyncType
  <1>11. CASE Arrive
    <2>1. PICK r \in Requests : request' = Append(request, r)
      BY <1>11 DEF Arrive
    <2>2. Len(request') = Len(request) + 1 /\ UNCHANGED async
      BY <1>11, <2>1, AppendProperties DEF Arrive, CallType, serverVars
    <2> QED
      BY <1>0, <2>2, QueueType DEF AsyncType
  <1>12. CASE Claim
    BY <1>12, <1>0, QueueType DEF Claim, AsyncType, Signals, NoAsync, Sentinel,
       serverVars, callVars, Step, Refuse, Answer
  <1>13. CASE ReadBody
    <2>1. async' = async \/ async' = [async EXCEPT !.inFlight = FALSE]
      BY <1>13 DEF ReadBody
    <2>2. request' = request
      BY <1>13 DEF ReadBody
    <2> QED
      BY <1>0, <2>1, <2>2, QueueType DEF AsyncType, Signals
  <1>14. CASE Enqueue
    <2>1. id["httpd"] \in 0 .. Len(request) /\ request' = request
      BY <1>14, <1>0 DEF Enqueue, CallType
    <2>2. <<id["httpd"]>> \in Queues(Len(request))
      BY <1>0, <2>1, QueueType
    <2> QED
      BY <1>14, <2>1, <2>2 DEF Enqueue, AsyncType
  <1>15. CASE WorkerReceive
    BY <1>15, <1>0, QueueType DEF WorkerReceive, AsyncType, Signals, NoAsync,
       Sentinel, serverVars, callVars, Step, Refuse, Answer
  <1>16. CASE WorkerComplete
    BY <1>16, <1>0, QueueType DEF WorkerComplete, AsyncType, Signals, NoAsync,
       Sentinel, serverVars, callVars, Step, Refuse, Answer
  <1>17. CASE WorkerStop
    BY <1>17, <1>0, QueueType DEF WorkerStop, AsyncType, Signals, NoAsync, Sentinel,
       serverVars, callVars, Step, Refuse, Answer
  <1>18. CASE UNCHANGED vars
    BY <1>18 DEF vars, AsyncType, Signals, serverVars, callVars
  <1> QED
    BY <1>1, <1>2, <1>3, <1>4, <1>5, <1>6, <1>7, <1>8, <1>9, <1>10, <1>11, <1>12,
       <1>13, <1>14, <1>15, <1>16, <1>17, <1>18 DEF Next, Start, Undo, Httpd,
       Worker, Handle, Console

LEMMA CallStep == AsyncType /\ CallType /\ [Next]_vars => CallType'
  <1> SUFFICES ASSUME AsyncType, CallType, [Next]_vars PROVE CallType'
    OBVIOUS
  <1>0. Len(request) \in Nat /\ Queues(Len(request)) # {}
    BY QueueType, SMTT(30) DEF CallType
  <1>1. CASE ControlsInit \/ ControlsInitFails \/ TaskCreate \/ TaskStarted
             \/ WifiStart
    BY <1>1 DEF ControlsInit, ControlsInitFails, TaskCreate, TaskStarted, WifiStart,
       CallType, callVars
  <1>2. CASE HttpdStart \/ Register \/ AsyncStop \/ AsyncWait \/ HttpdStop
    BY <1>2
    DEF HttpdStart, Register, AsyncStop, AsyncWait, HttpdStop, CallType, callVars
  <1>3. CASE ControlsStop \/ ControlsWait \/ ControlsCleanup \/ TaskPoll \/ TaskLeave
    BY <1>3 DEF ControlsStop, ControlsWait, ControlsCleanup, TaskPoll, TaskLeave,
       CallType, callVars
  <1>4. CASE ConsoleConfirm \/ ConsoleGive \/ TimerFires \/ LoginOrLogout
    BY <1>4
    DEF ConsoleConfirm, ConsoleGive, TimerFires, LoginOrLogout, CallType, callVars
  <1>5. CASE AsyncStart
    BY <1>5 DEF AsyncStart, CallType, Tasks, HttpdPcs, WorkerPcs, ActionPcs, Step,
       Refuse, Finish
  <1>6. CASE Arrive
    <2>1. PICK r \in Requests : request' = Append(request, r)
      BY <1>6 DEF Arrive
    <2>2. /\ request' \in Seq(Requests) /\ Len(request') = Len(request) + 1
          /\ Len(request') <= MaxRequests
      BY <1>6, <1>0, <2>1, BoundAssumption, AppendProperties DEF Arrive, CallType
    <2> QED
      BY <1>6, <1>0, <2>2
      DEF Arrive, CallType, Tasks, HttpdPcs, WorkerPcs, ActionPcs, Step
  <1>7. CASE Guard
    BY <1>7
    DEF Guard, CallType, Tasks, HttpdPcs, WorkerPcs, ActionPcs, Step, Refuse, Finish
  <1>8. CASE Claim
    BY <1>8
    DEF Claim, CallType, Tasks, HttpdPcs, WorkerPcs, ActionPcs, Step, Refuse, Finish
  <1>9. CASE ReadBody
    BY <1>9 DEF ReadBody, CallType, Tasks, HttpdPcs, WorkerPcs, ActionPcs, Step,
       Refuse, Finish
  <1>10. CASE Enqueue
    BY <1>10 DEF Enqueue, CallType, Tasks, HttpdPcs, WorkerPcs, ActionPcs, Step,
       Refuse, Finish
  <1>11. CASE WorkerReceive
    <2>1. Head(async.queue) \in 0 .. Len(request)
      BY <1>11, <1>0, QueueType DEF WorkerReceive, AsyncType
    <2> QED
      BY <1>11, <1>0, <2>1
      DEF WorkerReceive, CallType, Tasks, HttpdPcs, WorkerPcs, ActionPcs, Step, Sentinel
  <1>12. CASE WorkerComplete
    BY <1>12 DEF WorkerComplete, CallType, Tasks, HttpdPcs, WorkerPcs, ActionPcs,
       Step, Refuse, Finish
  <1>13. CASE WorkerStop
    BY <1>13 DEF WorkerStop, CallType, Tasks, HttpdPcs, WorkerPcs, ActionPcs, Step,
       Refuse, Finish
  <1>14. ASSUME NEW t \in Tasks, Policy(t) PROVE CallType'
    BY <1>14
    DEF Policy, CallType, Tasks, HttpdPcs, WorkerPcs, ActionPcs, Step, Refuse, Finish
  <1>15. ASSUME NEW t \in Tasks, WaitEntry(t) PROVE CallType'
    BY <1>15 DEF WaitEntry, CallType, Tasks, HttpdPcs, WorkerPcs, ActionPcs, Step,
       Refuse, Finish
  <1>16. ASSUME NEW t \in Tasks, WaitTake(t) PROVE CallType'
    BY <1>16 DEF WaitTake, CallType, Tasks, HttpdPcs, WorkerPcs, ActionPcs, Step,
       Refuse, Finish
  <1>17. ASSUME NEW t \in Tasks, WaitTimeout(t) PROVE CallType'
    BY <1>17 DEF WaitTimeout, CallType, Tasks, HttpdPcs, WorkerPcs, ActionPcs, Step,
       Refuse, Finish
  <1>18. ASSUME NEW t \in Tasks, Body(t) PROVE CallType'
    BY <1>18
    DEF Body, CallType, Tasks, HttpdPcs, WorkerPcs, ActionPcs, Step, Refuse, Finish
  <1>19. ASSUME NEW t \in Tasks, ApplyReset(t) PROVE CallType'
    <2>1. UNCHANGED <<id, request>> /\ pc[t] \in ActionPcs
      BY <1>19 DEF ApplyReset, ActionPcs
    <2>2. Step(t, "invalidate") \/ \E code : Finish(t, code)
      BY <1>19 DEF ApplyReset
    <2> QED
      BY <2>1, <2>2 DEF CallType, Tasks, HttpdPcs, WorkerPcs, ActionPcs, Step, Finish
  <1>20. ASSUME NEW t \in Tasks, MarkPending(t) PROVE CallType'
    BY <1>20 DEF MarkPending, CallType, Tasks, HttpdPcs, WorkerPcs, ActionPcs, Step,
       Refuse, Finish
  <1>21. ASSUME NEW t \in Tasks, Erase(t) PROVE CallType'
    BY <1>21
    DEF Erase, CallType, Tasks, HttpdPcs, WorkerPcs, ActionPcs, Step, Refuse, Finish
  <1>22. ASSUME NEW t \in Tasks, Invalidate(t) PROVE CallType'
    BY <1>22 DEF Invalidate, CallType, Tasks, HttpdPcs, WorkerPcs, ActionPcs, Step,
       Refuse, Finish
  <1>23. ASSUME NEW t \in Tasks, DeleteBlobs(t) PROVE CallType'
    BY <1>23 DEF DeleteBlobs, CallType, Tasks, HttpdPcs, WorkerPcs, ActionPcs, Step,
       Refuse, Finish
  <1>24. ASSUME NEW t \in Tasks, Schedule(t) PROVE CallType'
    BY <1>24 DEF Schedule, CallType, Tasks, HttpdPcs, WorkerPcs, ActionPcs, Step,
       Refuse, Finish
  <1>25. ASSUME NEW t \in Tasks, ClearPending(t) PROVE CallType'
    BY <1>25 DEF ClearPending, CallType, Tasks, HttpdPcs, WorkerPcs, ActionPcs,
       Step, Refuse, Finish
  <1>26. CASE UNCHANGED vars
    BY <1>26 DEF vars, CallType, callVars
  <1> QED
    BY <1>1, <1>2, <1>3, <1>4, <1>5, <1>6, <1>7, <1>8, <1>9, <1>10, <1>11, <1>12,
       <1>13, <1>14, <1>15, <1>16, <1>17, <1>18, <1>19, <1>20, <1>21, <1>22, <1>23,
       <1>24, <1>25, <1>26 DEF Next, Start, Undo, Httpd, Worker, Handle, Console

LEMMA HistoryStep == CallType /\ HistoryType /\ [Next]_vars => HistoryType'
  <1> SUFFICES ASSUME CallType, HistoryType, [Next]_vars PROVE HistoryType'
    OBVIOUS
  <1>1. CASE ControlsInit \/ ControlsInitFails \/ TaskCreate \/ TaskStarted
             \/ WifiStart
    BY <1>1 DEF ControlsInit, ControlsInitFails, TaskCreate, TaskStarted, WifiStart,
       HistoryType, historyVars
  <1>2. CASE HttpdStart \/ AsyncStart \/ Register \/ AsyncStop \/ AsyncWait
    BY <1>2 DEF HttpdStart, AsyncStart, Register, AsyncStop, AsyncWait, HistoryType,
       historyVars
  <1>3. CASE HttpdStop \/ ControlsStop \/ ControlsWait \/ ControlsCleanup \/ TaskPoll
    BY <1>3 DEF HttpdStop, ControlsStop, ControlsWait, ControlsCleanup, TaskPoll,
       HistoryType, historyVars
  <1>4. CASE TaskLeave \/ Arrive \/ Guard \/ Claim \/ ReadBody
    BY <1>4 DEF TaskLeave, Arrive, Guard, Claim, ReadBody, HistoryType, historyVars
  <1>5. CASE Enqueue \/ WorkerReceive \/ WorkerComplete \/ WorkerStop
             \/ ConsoleConfirm
    BY <1>5 DEF Enqueue, WorkerReceive, WorkerComplete, WorkerStop, ConsoleConfirm,
       HistoryType, historyVars
  <1>6. CASE TimerFires \/ LoginOrLogout
    BY <1>6 DEF TimerFires, LoginOrLogout, HistoryType, historyVars
  <1>7. ASSUME NEW t \in Tasks,
               Policy(t) \/ WaitEntry(t) \/ WaitTimeout(t) \/ Body(t) \/ Erase(t)
        PROVE  HistoryType'
    BY <1>7 DEF Policy, WaitEntry, WaitTimeout, Body, Erase, HistoryType, historyVars
  <1>8. ASSUME NEW t \in Tasks,
               Invalidate(t) \/ DeleteBlobs(t) \/ ClearPending(t)
        PROVE  HistoryType'
    BY <1>8 DEF Invalidate, DeleteBlobs, ClearPending, HistoryType, historyVars
  <1>9. ASSUME NEW t \in Tasks, WaitTake(t) PROVE HistoryType'
    <2>1. givenTo \in Int
      BY DEF HistoryType
    <2>2. confirmedBy' \in [Ids -> Int]
      BY <1>9, <2>1 DEF WaitTake, HistoryType
    <2> QED
      BY <1>9, <2>2 DEF WaitTake, HistoryType
  <1>10. ASSUME NEW t \in Tasks, ApplyReset(t) PROVE HistoryType'
    <2>1. Append(acted, id[t]) \in Seq(Nat)
      BY AppendProperties DEF HistoryType, CallType
    <2> QED
      BY <1>10, <2>1 DEF ApplyReset, HistoryType, Begin
  <1>11. ASSUME NEW t \in Tasks, MarkPending(t) PROVE HistoryType'
    <2>1. Append(acted, id[t]) \in Seq(Nat)
      BY AppendProperties DEF HistoryType, CallType
    <2> QED
      BY <1>11, <2>1 DEF MarkPending, HistoryType, Begin
  <1>12. ASSUME NEW t \in Tasks, Schedule(t) PROVE HistoryType'
    <2>1. Append(acted, id[t]) \in Seq(Nat)
      BY AppendProperties DEF HistoryType, CallType
    <2> QED
      BY <1>12, <2>1 DEF Schedule, HistoryType, Begin
  <1>13. CASE ConsoleGive
    <2>1. \A i \in Waiters : i \in Nat
      BY DEF CallType, Waiters
    <2>2. Waiters # {} => (CHOOSE i \in Waiters : TRUE) \in Waiters
      OBVIOUS
    <2>3. givenTo' \in {givenTo, 0} \/ givenTo' \in Waiters
      BY <1>13, <2>2 DEF ConsoleGive
    <2>4. givenTo \in Nat
      BY DEF HistoryType
    <2>5. givenTo' \in Nat
      <3>1. CASE givenTo' \in {givenTo, 0}
        BY <2>4, <3>1
      <3>2. CASE givenTo' \in Waiters
        BY <2>1, <3>2
      <3> QED
        BY <2>3, <3>1, <3>2
    <2> QED
      BY <1>13, <2>5 DEF ConsoleGive, HistoryType
  <1>14. CASE UNCHANGED vars
    BY <1>14 DEF vars, HistoryType, historyVars
  <1> QED
    BY <1>1, <1>2, <1>3, <1>4, <1>5, <1>6, <1>7, <1>8, <1>9, <1>10, <1>11, <1>12,
       <1>13, <1>14 DEF Next, Start, Undo, Httpd, Worker, Handle, Console

LEMMA InitTyped == Init => Typed
  <1> SUFFICES ASSUME Init PROVE Typed
    OBVIOUS
  <1>1. ControlType
    BY DEF Init, ControlType, Signals, Failures
  <1>2. ServerType
    BY DEF Init, ServerType, StartPcs
  <1>3. CallType
    BY BoundAssumption DEF Init, CallType, Tasks, HttpdPcs, WorkerPcs, ActionPcs
  <1>4. AsyncType
    <2>1. async.queue \in Queues(0) /\ Len(request) = 0
      BY QueueType DEF Init, NoAsync
    <2> QED
      BY <2>1 DEF Init, AsyncType, NoAsync, Signals
  <1>5. HistoryType
    BY DEF Init, HistoryType
  <1> QED
    BY <1>1, <1>2, <1>3, <1>4, <1>5 DEF Typed

LEMMA NextTyped == Typed /\ [Next]_vars => Typed'
  BY ControlStep, ServerStep, AsyncStep, CallStep, HistoryStep DEF Typed

\* Every variable keeps the kind of value the C declarations give it, and the
\* engine of the controls never claims signals it does not have, whatever
\* fails in its initialisation and its shutdown (device_controls_logic.c).
THEOREM TypeCorrect == Spec => []TypeOK
  <1>1. Typed => TypeOK
    <2> SUFFICES ASSUME Typed PROVE TypeOK
      OBVIOUS
    <2>1. Len(async.queue) <= 1
      <3>1. Len(request) \in Nat /\ async.queue \in Queues(Len(request))
        BY DEF Typed, CallType, AsyncType
      <3> QED
        BY <3>1, QueueType
    <2>2. controls.signals = (confirmation # "none") /\ controls.signals = (stopped # "none")
      BY DEF Typed, ControlType
    <2> QED
      BY <2>1, <2>2 DEF Typed, TypeOK, ControlType, ServerType, CallType
  <1> QED
    BY <1>1, InitTyped, NextTyped, PTL DEF Spec

-----------------------------------------------------------------------------
(* The HTTP task                                                            *)

LEMMA RequestKept ==
    ASSUME CallType, [Next]_vars, NEW i \in 1 .. Len(request)
    PROVE  request'[i] = request[i]
  <1>1. request' = request \/ \E r \in Requests : request' = Append(request, r)
    BY DEF Next, Start, Undo, Httpd, Worker, Handle, Console, vars, callVars,
       ControlsInit, ControlsInitFails, TaskCreate, TaskStarted, WifiStart, HttpdStart,
       AsyncStart, Register, AsyncStop, AsyncWait, HttpdStop, ControlsStop, ControlsWait,
       ControlsCleanup, TaskPoll, TaskLeave, Arrive, Guard, Claim, ReadBody, Enqueue,
       WorkerReceive, WorkerComplete, WorkerStop, ConsoleConfirm, ConsoleGive, TimerFires,
       LoginOrLogout, Policy, WaitEntry, WaitTake, WaitTimeout, Body, ApplyReset,
       MarkPending, Erase, Invalidate, DeleteBlobs, Schedule, ClearPending
  <1> QED
    BY <1>1, AppendProperties, SMTT(30) DEF CallType

\* A device action the worker is not asked for is not a POST, and is refused by
\* prepare_api_call() before the policy is evaluated.
LEMMA RefusedWithoutWorker ==
    ASSUME policy, NEW r \in Requests, ~RequiresWorker(r, policy)
    PROVE  AdmissionStatus(r, sessions) # 0
  <1>1. r.path \in DeviceActions /\ r.path \in Routes
    BY RequestAssumption DEF Routes
  <1>2. ParsePath(r.path).error = "NONE" /\ ParsePath(r.path).route = r.path
    BY <1>1 DEF ParsePath, DeviceActions
  <1>3. r.method \notin AllowedMethods(r.path)
    BY <1>1, <1>2 DEF RequiresWorker, ConfirmationRequired
  <1>4. PrepareStatus(r) # 0
    BY <1>2, <1>3 DEF PrepareStatus
  <1> QED
    BY <1>4 DEF AdmissionStatus

LEMMA HttpdMoves ==
    ASSUME HttpdInv, CallType, UNCHANGED policy,
           \E next \in HttpdPcs \ ActionPcs : Step("httpd", next)
    PROVE  HttpdInv'
  BY DEF HttpdInv, CallType, Step, Tasks, ActionPcs

LEMMA OthersMove ==
    ASSUME HttpdInv, CallType, UNCHANGED <<policy, id, request>>, NEW t \in Tasks,
           ~policy \/ t = "worker",
           \A u \in Tasks : u # t => pc'[u] = pc[u]
    PROVE  HttpdInv'
  BY DEF HttpdInv, Tasks

LEMMA HttpdPolicy == HttpdInv /\ CallType /\ Policy("httpd") => HttpdInv'
  <1> SUFFICES ASSUME HttpdInv, CallType, Policy("httpd"), policy PROVE HttpdInv'
    BY DEF Policy, HttpdInv
  <1>1. pc["httpd"] = "policy" /\ id["httpd"] \in 1 .. Len(request) /\ policy' = policy
    BY DEF Policy, CallType
  <1>2. request[id["httpd"]] \in Requests
    BY <1>1 DEF CallType
  <1>3. AdmissionStatus(Call("httpd"), sessions) # 0
    BY <1>1, <1>2, RefusedWithoutWorker DEF HttpdInv, Call
  <1>4. pc' = [pc EXCEPT !["httpd"] = "idle"]
    BY <1>3 DEF Policy, Finish, Step
  <1> QED
    BY <1>1, <1>4 DEF HttpdInv, CallType, Tasks, HttpdPcs, ActionPcs

LEMMA HttpdStep == HttpdInv /\ CallType /\ [Next]_vars => HttpdInv'
  <1> SUFFICES ASSUME HttpdInv, CallType, [Next]_vars PROVE HttpdInv'
    OBVIOUS
  <1>1. CASE ControlsInit \/ ControlsInitFails \/ TaskCreate \/ TaskStarted
             \/ WifiStart
    BY <1>1 DEF ControlsInit, ControlsInitFails, TaskCreate, TaskStarted, WifiStart,
       HttpdInv, callVars
  <1>2. CASE HttpdStart \/ Register \/ AsyncStop \/ AsyncWait \/ HttpdStop
    BY <1>2
    DEF HttpdStart, Register, AsyncStop, AsyncWait, HttpdStop, HttpdInv, callVars
  <1>3. CASE ControlsStop \/ ControlsWait \/ ControlsCleanup \/ TaskPoll \/ TaskLeave
    BY <1>3 DEF ControlsStop, ControlsWait, ControlsCleanup, TaskPoll, TaskLeave,
       HttpdInv, callVars
  <1>4. CASE ConsoleConfirm \/ ConsoleGive \/ TimerFires \/ LoginOrLogout
    BY <1>4
    DEF ConsoleConfirm, ConsoleGive, TimerFires, LoginOrLogout, HttpdInv, callVars
  <1>5. CASE Arrive
    BY <1>5 DEF Arrive, HttpdInv, CallType, Tasks, Step, HttpdPcs, ActionPcs
  <1>6. CASE Guard
    <2>1. \/ \E next \in HttpdPcs \ ActionPcs : Step("httpd", next)
          \/ /\ Step("httpd", "policy")
             /\ ~RequiresWorker(request[id["httpd"]], policy)
      BY <1>6 DEF Guard, Refuse, HttpdPcs, ActionPcs
    <2>2. UNCHANGED <<policy, id, request>>
      BY <1>6 DEF Guard
    <2>3. ASSUME Step("httpd", "policy"), ~RequiresWorker(request[id["httpd"]], policy)
          PROVE  HttpdInv'
      BY <2>2, <2>3 DEF HttpdInv, CallType, Step, Tasks, HttpdPcs, ActionPcs
    <2> QED
      BY <2>1, <2>2, <2>3, HttpdMoves
  <1>7. CASE Claim
    <2>1. \E next \in HttpdPcs \ ActionPcs : Step("httpd", next)
      BY <1>7 DEF Claim, Refuse, HttpdPcs, ActionPcs
    <2> QED
      BY <1>7, <2>1, HttpdMoves DEF Claim
  <1>8. CASE ReadBody
    <2>1. \E next \in HttpdPcs \ ActionPcs : Step("httpd", next)
      BY <1>8 DEF ReadBody, Refuse, HttpdPcs, ActionPcs
    <2> QED
      BY <1>8, <2>1, HttpdMoves DEF ReadBody
  <1>9. CASE Enqueue
    <2>1. \E next \in HttpdPcs \ ActionPcs : Step("httpd", next)
      BY <1>9 DEF Enqueue, Refuse, HttpdPcs, ActionPcs
    <2> QED
      BY <1>9, <2>1, HttpdMoves DEF Enqueue
  <1>10. CASE AsyncStart
    <2>1. pc'["httpd"] = pc["httpd"] /\ id'["httpd"] = id["httpd"]
      BY <1>10 DEF AsyncStart, CallType, Tasks, Step
    <2> QED
      BY <1>10, <2>1 DEF AsyncStart, HttpdInv
  <1>11. CASE WorkerReceive
    <2>1. pc'["httpd"] = pc["httpd"] /\ id'["httpd"] = id["httpd"]
      BY <1>11 DEF WorkerReceive, CallType, Tasks, Step
    <2> QED
      BY <1>11, <2>1 DEF WorkerReceive, HttpdInv
  <1>12. CASE WorkerComplete
    <2>1. pc'["httpd"] = pc["httpd"] /\ id'["httpd"] = id["httpd"]
      BY <1>12 DEF WorkerComplete, CallType, Tasks, Step
    <2> QED
      BY <1>12, <2>1 DEF WorkerComplete, HttpdInv
  <1>13. CASE WorkerStop
    <2>1. pc'["httpd"] = pc["httpd"] /\ id'["httpd"] = id["httpd"]
      BY <1>13 DEF WorkerStop, CallType, Tasks, Step
    <2> QED
      BY <1>13, <2>1 DEF WorkerStop, HttpdInv
  <1>14. ASSUME NEW t \in Tasks, Policy(t) PROVE HttpdInv'
    <2>1. CASE t = "httpd"
      BY <1>14, <2>1, HttpdPolicy
    <2>2. CASE t = "worker"
      BY <1>14, <2>2 DEF Policy, HttpdInv, CallType, Tasks, Step, Finish
    <2> QED
      BY <2>1, <2>2 DEF Tasks
  <1>15. ASSUME NEW t \in Tasks, WaitEntry(t) PROVE HttpdInv'
    <2>1. ~policy \/ t = "worker"
      BY <1>15 DEF WaitEntry, HttpdInv, ActionPcs, Tasks
    <2>2. \A u \in Tasks : u # t => pc'[u] = pc[u]
      BY <1>15 DEF WaitEntry, Finish, Step, CallType, Tasks
    <2> QED
      BY <1>15, <2>1, <2>2, OthersMove DEF WaitEntry
  <1>16. ASSUME NEW t \in Tasks, WaitTake(t) PROVE HttpdInv'
    <2>1. ~policy \/ t = "worker"
      BY <1>16 DEF WaitTake, HttpdInv, ActionPcs, Tasks
    <2>2. \A u \in Tasks : u # t => pc'[u] = pc[u]
      BY <1>16 DEF WaitTake, Finish, Step, CallType, Tasks
    <2> QED
      BY <1>16, <2>1, <2>2, OthersMove DEF WaitTake
  <1>17. ASSUME NEW t \in Tasks, WaitTimeout(t) PROVE HttpdInv'
    <2>1. ~policy \/ t = "worker"
      BY <1>17 DEF WaitTimeout, HttpdInv, ActionPcs, Tasks
    <2>2. \A u \in Tasks : u # t => pc'[u] = pc[u]
      BY <1>17 DEF WaitTimeout, Finish, Step, CallType, Tasks
    <2> QED
      BY <1>17, <2>1, <2>2, OthersMove DEF WaitTimeout
  <1>18. ASSUME NEW t \in Tasks, Body(t) PROVE HttpdInv'
    <2>1. ~policy \/ t = "worker"
      BY <1>18 DEF Body, HttpdInv, ActionPcs, Tasks
    <2>2. \A u \in Tasks : u # t => pc'[u] = pc[u]
      BY <1>18 DEF Body, Finish, Step, CallType, Tasks
    <2> QED
      BY <1>18, <2>1, <2>2, OthersMove DEF Body
  <1>19. ASSUME NEW t \in Tasks, ApplyReset(t) PROVE HttpdInv'
    <2>1. ~policy \/ t = "worker"
      BY <1>19 DEF ApplyReset, HttpdInv, ActionPcs, Tasks
    <2>2. \A u \in Tasks : u # t => pc'[u] = pc[u]
      BY <1>19 DEF ApplyReset, Finish, Step, CallType, Tasks
    <2> QED
      BY <1>19, <2>1, <2>2, OthersMove DEF ApplyReset
  <1>20. ASSUME NEW t \in Tasks, MarkPending(t) PROVE HttpdInv'
    <2>1. ~policy \/ t = "worker"
      BY <1>20 DEF MarkPending, HttpdInv, ActionPcs, Tasks
    <2>2. \A u \in Tasks : u # t => pc'[u] = pc[u]
      BY <1>20 DEF MarkPending, Finish, Step, CallType, Tasks
    <2> QED
      BY <1>20, <2>1, <2>2, OthersMove DEF MarkPending
  <1>21. ASSUME NEW t \in Tasks, Erase(t) PROVE HttpdInv'
    <2>1. ~policy \/ t = "worker"
      BY <1>21 DEF Erase, HttpdInv, ActionPcs, Tasks
    <2>2. \A u \in Tasks : u # t => pc'[u] = pc[u]
      BY <1>21 DEF Erase, Finish, Step, CallType, Tasks
    <2> QED
      BY <1>21, <2>1, <2>2, OthersMove DEF Erase
  <1>22. ASSUME NEW t \in Tasks, Invalidate(t) PROVE HttpdInv'
    <2>1. ~policy \/ t = "worker"
      BY <1>22 DEF Invalidate, HttpdInv, ActionPcs, Tasks
    <2>2. \A u \in Tasks : u # t => pc'[u] = pc[u]
      BY <1>22 DEF Invalidate, Finish, Step, CallType, Tasks
    <2> QED
      BY <1>22, <2>1, <2>2, OthersMove DEF Invalidate
  <1>23. ASSUME NEW t \in Tasks, DeleteBlobs(t) PROVE HttpdInv'
    <2>1. ~policy \/ t = "worker"
      BY <1>23 DEF DeleteBlobs, HttpdInv, ActionPcs, Tasks
    <2>2. \A u \in Tasks : u # t => pc'[u] = pc[u]
      BY <1>23 DEF DeleteBlobs, Finish, Step, CallType, Tasks
    <2> QED
      BY <1>23, <2>1, <2>2, OthersMove DEF DeleteBlobs
  <1>24. ASSUME NEW t \in Tasks, Schedule(t) PROVE HttpdInv'
    <2>1. ~policy \/ t = "worker"
      BY <1>24 DEF Schedule, HttpdInv, ActionPcs, Tasks
    <2>2. \A u \in Tasks : u # t => pc'[u] = pc[u]
      BY <1>24 DEF Schedule, Finish, Step, CallType, Tasks
    <2> QED
      BY <1>24, <2>1, <2>2, OthersMove DEF Schedule
  <1>25. ASSUME NEW t \in Tasks, ClearPending(t) PROVE HttpdInv'
    <2>1. ~policy \/ t = "worker"
      BY <1>25 DEF ClearPending, HttpdInv, ActionPcs, Tasks
    <2>2. \A u \in Tasks : u # t => pc'[u] = pc[u]
      BY <1>25 DEF ClearPending, Finish, Step, CallType, Tasks
    <2> QED
      BY <1>25, <2>1, <2>2, OthersMove DEF ClearPending
  <1>26. CASE UNCHANGED vars
    BY <1>26 DEF vars, HttpdInv, callVars
  <1> QED
    BY <1>1, <1>2, <1>3, <1>4, <1>5, <1>6, <1>7, <1>8, <1>9, <1>10, <1>11, <1>12,
       <1>13, <1>14, <1>15, <1>16, <1>17, <1>18, <1>19, <1>20, <1>21, <1>22, <1>23,
       <1>24, <1>25, <1>26 DEF Next, Start, Undo, Httpd, Worker, Handle, Console

\* While the confirmation is enabled the HTTP task neither waits for one nor runs
\* a device action itself, whatever the method, path and headers of a request and
\* whether or not there is a worker (web_server_async.c:178-185).
THEOREM HttpdIsFree == Spec => []HttpdNeverWaits
  <1>1. Init => HttpdInv
    BY DEF Init, HttpdInv, HttpdPcs, ActionPcs
  <1>2. HttpdInv => HttpdNeverWaits
    BY DEF HttpdInv, HttpdNeverWaits
  <1>3. Typed => CallType
    BY DEF Typed
  <1> QED
    BY <1>1, <1>2, <1>3, InitTyped, NextTyped, HttpdStep, PTL DEF Spec

-----------------------------------------------------------------------------
(* Signals                                                                  *)

\* A step that leaves the worker where it is may only take signals away.
LEMMA Unmoved ==
    ASSUME CallType, HistoryType, CountInv, UNCHANGED <<policy, acted, gives, confirmedBy>>,
           confirmation' = "full" => confirmation = "full",
           power' = "on" => power = "on",
           pc'["worker"] = pc["worker"], id'["worker"] = id["worker"],
           \/ request' = request
           \/ pc["worker"] \in ActionPcs => Call("worker")' = Call("worker")
    PROVE  CountInv'
  <1>1. pc["worker"] \in ActionPcs => Call("worker")' = Call("worker")
    BY DEF Call
  <1>2. Armed' => Armed
    BY <1>1 DEF Armed, ActionPcs
  <1>3. InHand' <= InHand /\ InHand \in Nat /\ InHand' \in Nat /\ Len(acted) \in Nat
    BY <1>2 DEF InHand, HistoryType
  <1> QED
    BY <1>1, <1>3 DEF CountInv, Confirmed, ActionPcs, HistoryType

\* A worker that leaves the part of a call which needs a signal ...
LEMMA Disarmed ==
    ASSUME CallType, HistoryType, CountInv, UNCHANGED <<policy, acted, gives, confirmedBy>>,
           confirmation' = confirmation, pc'["worker"] \notin Confirmed
    PROVE  CountInv'
  <1>1. ~Armed'
    BY DEF Armed, Confirmed, ActionPcs
  <1>2. InHand' <= InHand /\ InHand \in Nat /\ InHand' \in Nat /\ Len(acted) \in Nat
    BY <1>1 DEF InHand, HistoryType
  <1> QED
    BY <1>2 DEF CountInv, Confirmed, ActionPcs, HistoryType

\* ... or goes on to the action with the one it took ...
LEMMA StillArmed ==
    ASSUME CallType, HistoryType, CountInv,
           UNCHANGED <<policy, id, request, acted, gives, confirmedBy, confirmation, power>>,
           pc["worker"] = "body",
           \/ pc'["worker"] \notin Confirmed
           \/ pc'["worker"] = "apply"
           \/ pc'["worker"] = "schedule" /\ Call("worker").path = "device_restart"
    PROVE  CountInv'
  <1>1. Armed' => Armed
    BY DEF Armed, Confirmed, ActionPcs
  <1>2. InHand' <= InHand /\ InHand \in Nat /\ InHand' \in Nat /\ Len(acted) \in Nat
    BY <1>1 DEF InHand, HistoryType
  <1>3. pc["worker"] \in Confirmed
    BY DEF Confirmed, ActionPcs
  <1> QED
    BY <1>2, <1>3 DEF CountInv, Confirmed, ActionPcs, HistoryType

LEMMA Balance ==
    ASSUME NEW n \in Nat, NEW hand \in Nat, NEW given \in Nat, n + hand <= given
    PROVE  /\ \A h \in Nat : h + 1 = hand => (n + 1) + h <= given
           /\ \A h, g \in Nat : h - g = hand - given => n + h <= g
  OBVIOUS

\* ... and spends it there.
LEMMA Spent ==
    ASSUME CallType, HistoryType, CountInv, policy,
           UNCHANGED <<policy, id, request, gives, confirmedBy, confirmation>>,
           power = "on",
           \/ pc["worker"] = "apply"
           \/ pc["worker"] = "schedule" /\ Call("worker").path = "device_restart",
           acted' = Append(acted, id["worker"]),
           \/ power' # "on" /\ pc'["worker"] = "schedule"
           \/ pc'["worker"] \notin Confirmed
           \/ /\ pc'["worker"] \in {"erase", "invalidate"}
              /\ Call("worker").path # "device_restart"
    PROVE  CountInv'
  <1>1. Armed /\ ~Armed'
    BY DEF Armed, Confirmed, ActionPcs
  <1>2. InHand' + 1 = InHand /\ InHand \in Nat /\ InHand' \in Nat /\ Len(acted) \in Nat
    BY <1>1 DEF InHand, HistoryType
  <1>3. /\ id["worker"] \in Ids /\ id["worker"] \in Nat
        /\ confirmedBy[id["worker"]] # -1 /\ pc["worker"] \in Confirmed
    BY BoundAssumption DEF CallType, CountInv, Confirmed, ActionPcs, Ids
  <1>4. /\ Len(acted') = Len(acted) + 1 /\ acted' \in Seq(Nat)
        /\ \A i \in 1 .. Len(acted) : acted'[i] = acted[i]
        /\ acted'[Len(acted) + 1] = id["worker"]
    BY <1>3, AppendProperties DEF HistoryType
  <1>5. \A i \in DOMAIN acted' : acted'[i] \in Ids /\ confirmedBy[acted'[i]] # -1
    BY <1>2, <1>3, <1>4, SMTT(30) DEF CountInv, HistoryType
  <1>6. Call("worker")' = Call("worker")
    BY DEF Call
  <1>7. Len(acted') + InHand' <= gives'
    <2>1. Len(acted) + InHand <= gives /\ gives' = gives
      BY DEF CountInv
    <2>2. Len(acted) + 1 + InHand' <= gives
      BY <1>2, <2>1, Balance DEF HistoryType
    <2> QED
      BY <1>4, <2>1, <2>2
  <1>8. pc'["worker"] \in Confirmed => confirmedBy'[id'["worker"]] # -1
    BY <1>3
  <1>9. pc'["worker"] \in {"erase", "invalidate", "delete"}
          => Call("worker")'.path # "device_restart"
    BY <1>6 DEF Confirmed, ActionPcs
  <1> QED
    BY <1>5, <1>7, <1>8, <1>9 DEF CountInv, Ids

\* The steps of a reset after its first effect hold no signal.
LEMMA OtherPath ==
    ASSUME CallType, HistoryType, CountInv,
           UNCHANGED <<policy, id, request, acted, gives, confirmedBy, confirmation>>,
           pc["worker"] \in Confirmed, Call("worker").path # "device_restart",
           \/ pc'["worker"] \in {"invalidate", "delete", "schedule", "clear"}
           \/ pc'["worker"] \notin Confirmed
    PROVE  CountInv'
  <1>1. Call("worker")' = Call("worker")
    BY DEF Call
  <1>2. ~Armed'
    BY <1>1 DEF Armed, Confirmed, ActionPcs
  <1>3. InHand' <= InHand /\ InHand \in Nat /\ InHand' \in Nat /\ Len(acted) \in Nat
    BY <1>2 DEF InHand, HistoryType
  <1> QED
    BY <1>1, <1>3 DEF CountInv, Confirmed, ActionPcs, HistoryType

LEMMA Given ==
    ASSUME CallType, HistoryType, CountInv,
           UNCHANGED <<policy, pc, id, request, acted, confirmedBy, power>>,
           \/ confirmation = "empty" /\ confirmation' = "full" /\ gives' = gives + 1
           \/ UNCHANGED <<confirmation, gives>>
    PROVE  CountInv'
  <1>1. Call("worker")' = Call("worker") /\ (Armed' <=> Armed)
    BY DEF Call, Armed
  <1>2. /\ InHand' - gives' = InHand - gives
        /\ InHand \in Nat /\ InHand' \in Nat /\ Len(acted) \in Nat /\ gives' \in Nat
    BY <1>1 DEF InHand, HistoryType
  <1>3. ASSUME policy PROVE Len(acted') + InHand' <= gives'
    <2>1. Len(acted) + InHand <= gives /\ Len(acted') = Len(acted)
      BY <1>3 DEF CountInv
    <2>2. Len(acted) + InHand' <= gives'
      BY <1>2, <2>1, Balance DEF HistoryType
    <2> QED
      BY <2>1, <2>2
  <1> QED
    BY <1>1, <1>3 DEF CountInv, Confirmed, Ids

LEMMA CountStep == CallType /\ HistoryType /\ HttpdInv /\ CountInv /\ [Next]_vars => CountInv'
  <1> SUFFICES ASSUME CallType, HistoryType, HttpdInv, CountInv, [Next]_vars PROVE CountInv'
    OBVIOUS
  <1>1. CASE TaskStarted \/ WifiStart \/ HttpdStart \/ Register \/ AsyncStop
    BY <1>1, Unmoved DEF TaskStarted, WifiStart, HttpdStart, Register, AsyncStop,
       callVars, controlVars, historyVars, effectVars
  <1>2. CASE AsyncWait \/ HttpdStop \/ ControlsStop \/ ControlsWait \/ TaskPoll
    BY <1>2, Unmoved DEF AsyncWait, HttpdStop, ControlsStop, ControlsWait, TaskPoll,
       callVars, controlVars, historyVars, effectVars
  <1>3. CASE TaskLeave \/ ConsoleConfirm \/ LoginOrLogout
    BY <1>3, Unmoved DEF TaskLeave, ConsoleConfirm, LoginOrLogout, callVars,
       controlVars, historyVars, effectVars
  <1>4. CASE ControlsInit
    BY <1>4, Unmoved
    DEF ControlsInit, callVars, controlVars, historyVars, effectVars, On
  <1>5. CASE ControlsInitFails
    BY <1>5, Unmoved
    DEF ControlsInitFails, CleanUp, callVars, controlVars, historyVars, effectVars
  <1>6. CASE TaskCreate
    BY <1>6, Unmoved
    DEF TaskCreate, CleanUp, callVars, controlVars, historyVars, effectVars
  <1>7. CASE ControlsCleanup
    BY <1>7, Unmoved
    DEF ControlsCleanup, CleanUp, callVars, controlVars, historyVars, effectVars
  <1>8. CASE AsyncStart
    <2>1. pc'["worker"] \notin Confirmed \/ UNCHANGED <<pc, id, request>>
      BY <1>8 DEF AsyncStart, Step, CallType, Tasks, Confirmed, ActionPcs
    <2> QED
      BY <1>8, <2>1, Disarmed, Unmoved
      DEF AsyncStart, controlVars, historyVars, effectVars
  <1>9. CASE Arrive
    <2>1. pc'["worker"] = pc["worker"] /\ id'["worker"] = id["worker"]
      BY <1>9 DEF Arrive, Step, CallType, Tasks
    <2>2. pc["worker"] \in ActionPcs => Call("worker")' = Call("worker")
      BY <2>1, RequestKept DEF CallType, Call
    <2> QED
      BY <1>9, <2>1, <2>2, Unmoved DEF Arrive, controlVars, historyVars, effectVars
  <1>10. CASE Guard
    <2>1. pc'["worker"] = pc["worker"] /\ id'["worker"] = id["worker"]
      BY <1>10 DEF Guard, Step, Refuse, CallType, Tasks, callVars
    <2> QED
      BY <1>10, <2>1, Unmoved DEF Guard, controlVars, historyVars, effectVars
  <1>11. CASE Claim
    <2>1. pc'["worker"] = pc["worker"] /\ id'["worker"] = id["worker"]
      BY <1>11 DEF Claim, Step, Refuse, CallType, Tasks, callVars
    <2> QED
      BY <1>11, <2>1, Unmoved DEF Claim, controlVars, historyVars, effectVars
  <1>12. CASE ReadBody
    <2>1. pc'["worker"] = pc["worker"] /\ id'["worker"] = id["worker"]
      BY <1>12 DEF ReadBody, Step, Refuse, CallType, Tasks, callVars
    <2> QED
      BY <1>12, <2>1, Unmoved DEF ReadBody, controlVars, historyVars, effectVars
  <1>13. CASE Enqueue
    <2>1. pc'["worker"] = pc["worker"] /\ id'["worker"] = id["worker"]
      BY <1>13 DEF Enqueue, Step, Refuse, CallType, Tasks, callVars
    <2> QED
      BY <1>13, <2>1, Unmoved DEF Enqueue, controlVars, historyVars, effectVars
  <1>14. CASE WorkerReceive
    <2>1. pc'["worker"] \notin Confirmed \/ UNCHANGED <<pc, id, request>>
      BY <1>14 DEF WorkerReceive, Step, CallType, Tasks, Confirmed, ActionPcs
    <2> QED
      BY <1>14, <2>1, Disarmed, Unmoved
      DEF WorkerReceive, controlVars, historyVars, effectVars
  <1>15. CASE WorkerComplete
    <2>1. pc'["worker"] \notin Confirmed \/ UNCHANGED <<pc, id, request>>
      BY <1>15 DEF WorkerComplete, Step, CallType, Tasks, Confirmed, ActionPcs
    <2> QED
      BY <1>15, <2>1, Disarmed, Unmoved
      DEF WorkerComplete, controlVars, historyVars, effectVars
  <1>16. CASE WorkerStop
    <2>1. pc'["worker"] \notin Confirmed \/ UNCHANGED <<pc, id, request>>
      BY <1>16 DEF WorkerStop, Step, CallType, Tasks, Confirmed, ActionPcs
    <2> QED
      BY <1>16, <2>1, Disarmed, Unmoved
      DEF WorkerStop, controlVars, historyVars, effectVars
  <1>17. CASE ConsoleGive
    <2>1. UNCHANGED <<policy, pc, id, request, acted, confirmedBy, power>>
      BY <1>17 DEF ConsoleGive, callVars, effectVars
    <2>2. \/ confirmation = "empty" /\ confirmation' = "full" /\ gives' = gives + 1
          \/ UNCHANGED <<confirmation, gives>>
      BY <1>17 DEF ConsoleGive
    <2> QED
      BY <2>1, <2>2, Given
  <1>18. CASE TimerFires
    BY <1>18, Unmoved
    DEF TimerFires, callVars, controlVars, historyVars, effectVars, On
  <1>19. ASSUME NEW t \in Tasks, Policy(t) PROVE CountInv'
    <2>1. CASE t = "httpd"
      <3>1. pc'["worker"] = pc["worker"]
        BY <1>19, <2>1 DEF Policy, Finish, Step, CallType, Tasks
      <3> QED
        BY <1>19, <3>1, Unmoved DEF Policy, controlVars, historyVars, effectVars
    <2>2. ASSUME t = "worker", policy PROVE CountInv'
      <3>1. Call(t).path \in DeviceActions
        BY <1>19, <2>2, RequestAssumption DEF Policy, CallType, ActionPcs, Call
      <3>2. ConfirmationRequired(Call(t).path, policy)
        BY <2>2, <3>1 DEF ConfirmationRequired
      <3>3. pc'["worker"] \notin Confirmed
        BY <1>19, <2>2, <3>2
        DEF Policy, Finish, Step, CallType, Tasks, ActionPcs, Confirmed
      <3> QED
        BY <1>19, <3>3, Disarmed DEF Policy, controlVars, historyVars, effectVars
    <2> QED
      BY <1>19, <2>1, <2>2 DEF Tasks, CountInv, Policy
  <1>20. ASSUME NEW t \in Tasks, WaitEntry(t) PROVE CountInv'
    <2>0. CASE ~policy
      BY <1>20, <2>0 DEF WaitEntry, CountInv
    <2>1. ASSUME policy PROVE t = "worker"
      BY <1>20, <2>1 DEF WaitEntry, HttpdInv, ActionPcs, Tasks
    <2> SUFFICES ASSUME policy, t = "worker" PROVE CountInv'
      BY <2>0, <2>1
    <2>2. pc'["worker"] \notin Confirmed
      BY <1>20 DEF WaitEntry, Finish, Step, CallType, Tasks, ActionPcs, Confirmed
    <2> QED
      BY <1>20, <2>2, Disarmed DEF WaitEntry, controlVars, historyVars, effectVars
  <1>21. ASSUME NEW t \in Tasks, WaitTake(t) PROVE CountInv'
    <2>0. CASE ~policy
      BY <1>21, <2>0 DEF WaitTake, CountInv
    <2>1. ASSUME policy PROVE t = "worker"
      BY <1>21, <2>1 DEF WaitTake, HttpdInv, ActionPcs, Tasks
    <2> SUFFICES ASSUME policy, t = "worker" PROVE CountInv'
      BY <2>0, <2>1
    <2>2. /\ pc'["worker"] = "body" /\ confirmation = "full" /\ confirmation' = "empty"
          /\ pc["worker"] = "waiting" /\ id["worker"] \in 1 .. Len(request)
          /\ confirmedBy' = [confirmedBy EXCEPT ![id["worker"]] = givenTo]
          /\ UNCHANGED <<policy, acted, gives, id, request>>
      BY <1>21 DEF WaitTake, Step, CallType, Tasks, ActionPcs
    <2>3. /\ confirmedBy'[id["worker"]] = givenTo /\ givenTo # -1
          /\ \A i \in Ids : confirmedBy'[i] \in {confirmedBy[i], givenTo}
      BY <2>2, BoundAssumption DEF HistoryType, CallType, Ids
    <2>4. InHand' <= 1 /\ InHand >= 1 /\ Len(acted) \in Nat /\ InHand \in Nat
      BY <2>2 DEF InHand, HistoryType
    <2> QED
      BY <2>2, <2>3, <2>4 DEF CountInv, HistoryType, InHand
  <1>22. ASSUME NEW t \in Tasks, WaitTimeout(t) PROVE CountInv'
    <2>0. CASE ~policy
      BY <1>22, <2>0 DEF WaitTimeout, CountInv
    <2>1. ASSUME policy PROVE t = "worker"
      BY <1>22, <2>1 DEF WaitTimeout, HttpdInv, ActionPcs, Tasks
    <2> SUFFICES ASSUME policy, t = "worker" PROVE CountInv'
      BY <2>0, <2>1
    <2>2. pc'["worker"] \notin Confirmed
      BY <1>22 DEF WaitTimeout, Finish, Step, CallType, Tasks, ActionPcs, Confirmed
    <2> QED
      BY <1>22, <2>2, Disarmed DEF WaitTimeout, controlVars, historyVars, effectVars
  <1>23. ASSUME NEW t \in Tasks, Body(t) PROVE CountInv'
    <2>0. CASE ~policy
      BY <1>23, <2>0 DEF Body, CountInv
    <2>1. ASSUME policy PROVE t = "worker"
      BY <1>23, <2>1 DEF Body, HttpdInv, ActionPcs, Tasks
    <2> SUFFICES ASSUME policy, t = "worker" PROVE CountInv'
      BY <2>0, <2>1
    <2>2. /\ pc["worker"] = "body"
          /\ \/ pc'["worker"] \notin Confirmed
             \/ pc'["worker"] = "apply"
             \/ pc'["worker"] = "schedule" /\ Call(t).path = "device_restart"
      BY <1>23 DEF Body, Finish, Step, CallType, Tasks, ActionPcs, Confirmed
    <2>3. UNCHANGED <<policy, id, request, acted, gives, confirmedBy, confirmation, power>>
      BY <1>23 DEF Body, controlVars, historyVars, effectVars
    <2> QED
      BY <2>2, <2>3, StillArmed
  <1>24. ASSUME NEW t \in Tasks, ApplyReset(t) PROVE CountInv'
    <2>0. CASE ~policy
      BY <1>24, <2>0 DEF ApplyReset, CountInv
    <2>1. ASSUME policy PROVE t = "worker"
      BY <1>24, <2>1 DEF ApplyReset, HttpdInv, ActionPcs, Tasks
    <2> SUFFICES ASSUME policy, t = "worker" PROVE CountInv'
      BY <2>0, <2>1
    <2>2. /\ pc["worker"] = "apply" /\ Call(t).path # "device_restart"
          /\ UNCHANGED <<policy, id, request, gives, confirmedBy, confirmation, power>>
      BY <1>24 DEF ApplyReset, controlVars
    <2>3. CASE pc'["worker"] = "invalidate" /\ acted' = Append(acted, id["worker"])
      BY <1>24, <2>2, <2>3, Spent DEF ApplyReset, On
    <2>4. CASE pc'["worker"] \notin Confirmed /\ UNCHANGED acted
      BY <2>2, <2>4, Disarmed
    <2> QED
      BY <1>24, <2>3, <2>4
      DEF ApplyReset, Begin, Finish, Step, CallType, Tasks, ActionPcs, Confirmed
  <1>25. ASSUME NEW t \in Tasks, MarkPending(t) PROVE CountInv'
    <2>0. CASE ~policy
      BY <1>25, <2>0 DEF MarkPending, CountInv
    <2>1. ASSUME policy PROVE t = "worker"
      BY <1>25, <2>1 DEF MarkPending, HttpdInv, ActionPcs, Tasks
    <2> SUFFICES ASSUME policy, t = "worker" PROVE CountInv'
      BY <2>0, <2>1
    <2>2. /\ pc["worker"] = "apply" /\ Call(t).path # "device_restart"
          /\ UNCHANGED <<policy, id, request, gives, confirmedBy, confirmation, power>>
      BY <1>25 DEF MarkPending, controlVars
    <2>3. CASE pc'["worker"] = "erase" /\ acted' = Append(acted, id["worker"])
      BY <1>25, <2>2, <2>3, Spent DEF MarkPending, On
    <2>4. CASE pc'["worker"] \notin Confirmed /\ UNCHANGED acted
      BY <2>2, <2>4, Disarmed
    <2> QED
      BY <1>25, <2>3, <2>4
      DEF MarkPending, Begin, Finish, Step, CallType, Tasks, ActionPcs, Confirmed
  <1>26. ASSUME NEW t \in Tasks, Erase(t) PROVE CountInv'
    <2>0. CASE ~policy
      BY <1>26, <2>0 DEF Erase, CountInv
    <2>1. ASSUME policy PROVE t = "worker"
      BY <1>26, <2>1 DEF Erase, HttpdInv, ActionPcs, Tasks
    <2> SUFFICES ASSUME policy, t = "worker" PROVE CountInv'
      BY <2>0, <2>1
    <2>2. /\ pc["worker"] = "erase" /\ Call(t).path # "device_restart"
          /\ UNCHANGED <<policy, id, request, acted, gives, confirmedBy, confirmation,
                         power>>
      BY <1>26 DEF Erase, controlVars, historyVars, effectVars, CountInv
    <2>3. pc'["worker"] \in {"invalidate", "delete", "schedule"}
      BY <1>26 DEF Erase, Step, CallType, Tasks
    <2> QED
      BY <2>2, <2>3, OtherPath DEF Confirmed, ActionPcs
  <1>27. ASSUME NEW t \in Tasks, Invalidate(t) PROVE CountInv'
    <2>0. CASE ~policy
      BY <1>27, <2>0 DEF Invalidate, CountInv
    <2>1. ASSUME policy PROVE t = "worker"
      BY <1>27, <2>1 DEF Invalidate, HttpdInv, ActionPcs, Tasks
    <2> SUFFICES ASSUME policy, t = "worker" PROVE CountInv'
      BY <2>0, <2>1
    <2>2. /\ pc["worker"] = "invalidate" /\ Call(t).path # "device_restart"
          /\ UNCHANGED <<policy, id, request, acted, gives, confirmedBy, confirmation,
                         power>>
      BY <1>27 DEF Invalidate, controlVars, historyVars, effectVars, CountInv
    <2>3. pc'["worker"] \in {"invalidate", "delete", "schedule"}
      BY <1>27 DEF Invalidate, Step, CallType, Tasks
    <2> QED
      BY <2>2, <2>3, OtherPath DEF Confirmed, ActionPcs
  <1>28. ASSUME NEW t \in Tasks, DeleteBlobs(t) PROVE CountInv'
    <2>0. CASE ~policy
      BY <1>28, <2>0 DEF DeleteBlobs, CountInv
    <2>1. ASSUME policy PROVE t = "worker"
      BY <1>28, <2>1 DEF DeleteBlobs, HttpdInv, ActionPcs, Tasks
    <2> SUFFICES ASSUME policy, t = "worker" PROVE CountInv'
      BY <2>0, <2>1
    <2>2. /\ pc["worker"] = "delete" /\ Call(t).path # "device_restart"
          /\ UNCHANGED <<policy, id, request, acted, gives, confirmedBy, confirmation,
                         power>>
      BY <1>28 DEF DeleteBlobs, controlVars, historyVars, effectVars, CountInv
    <2>3. pc'["worker"] \in {"invalidate", "delete", "schedule"}
      BY <1>28 DEF DeleteBlobs, Step, CallType, Tasks
    <2> QED
      BY <2>2, <2>3, OtherPath DEF Confirmed, ActionPcs
  <1>29. ASSUME NEW t \in Tasks, Schedule(t) PROVE CountInv'
    <2>0. CASE ~policy
      BY <1>29, <2>0 DEF Schedule, CountInv
    <2>1. ASSUME policy PROVE t = "worker"
      BY <1>29, <2>1 DEF Schedule, HttpdInv, ActionPcs, Tasks
    <2> SUFFICES ASSUME policy, t = "worker" PROVE CountInv'
      BY <2>0, <2>1
    <2>2. /\ pc["worker"] = "schedule"
          /\ UNCHANGED <<policy, id, request, gives, confirmedBy, confirmation>>
      BY <1>29 DEF Schedule, controlVars
    <2>3. \/ pc'["worker"] \notin Confirmed /\ power' = power
          \/ pc'["worker"] = "clear" /\ Call(t).path = "device_factory_reset"
          \/ pc'["worker"] = "schedule" /\ power' # "on"
      BY <1>29 DEF Schedule, Finish, Step, CallType, Tasks, ActionPcs, Confirmed
    <2>4. CASE Call(t).path = "device_restart"
      <3>1. acted' = Append(acted, id["worker"])
        BY <1>29, <2>4 DEF Schedule
      <3> QED
        BY <1>29, <2>2, <2>3, <2>4, <3>1, Spent DEF Schedule, On, Confirmed, ActionPcs
    <2>5. CASE Call(t).path # "device_restart"
      <3>1. acted' = acted
        BY <1>29, <2>5 DEF Schedule
      <3> QED
        BY <2>2, <2>3, <2>5, <3>1, OtherPath DEF Confirmed, ActionPcs
    <2> QED
      BY <2>4, <2>5
  <1>30. ASSUME NEW t \in Tasks, ClearPending(t) PROVE CountInv'
    <2>0. CASE ~policy
      BY <1>30, <2>0 DEF ClearPending, CountInv
    <2>1. ASSUME policy PROVE t = "worker"
      BY <1>30, <2>1 DEF ClearPending, HttpdInv, ActionPcs, Tasks
    <2> SUFFICES ASSUME policy, t = "worker" PROVE CountInv'
      BY <2>0, <2>1
    <2>2. pc'["worker"] \notin Confirmed
      BY <1>30 DEF ClearPending, Finish, Step, CallType, Tasks, ActionPcs, Confirmed
    <2> QED
      BY <1>30, <2>2, Disarmed DEF ClearPending, controlVars, historyVars, effectVars
  <1>31. CASE UNCHANGED vars
    BY <1>31, Unmoved DEF vars, callVars, controlVars, historyVars, effectVars
  <1> QED
    BY <1>1, <1>2, <1>3, <1>4, <1>5, <1>6, <1>7, <1>8, <1>9, <1>10, <1>11, <1>12,
       <1>13, <1>14, <1>15, <1>16, <1>17, <1>18, <1>19, <1>20, <1>21, <1>22, <1>23,
       <1>24, <1>25, <1>26, <1>27, <1>28, <1>29, <1>30, <1>31 DEF Next, Start, Undo,
       Httpd, Worker, Handle, Console

LEMMA InitIInv == Init => IInv
  <1> SUFFICES ASSUME Init PROVE HttpdInv /\ CountInv
    BY InitTyped DEF IInv
  <1>1. HttpdInv
    BY DEF Init, HttpdInv, HttpdPcs, ActionPcs
  <1>2. InHand = 0
    BY DEF Init, InHand, Armed
  <1> QED
    BY <1>2, <1>1 DEF Init, CountInv, Confirmed, ActionPcs

LEMMA NextIInv == IInv /\ [Next]_vars => IInv'
  BY NextTyped, HttpdStep, CountStep DEF IInv, Typed

\* With the confirmation enabled no more actions take effect than `confirm'
\* commands were given, and each has taken a signal of its own: one signal is
\* not taken twice, and none is taken for an action that does not follow
\* (web_request_policy.c evaluates the confirmation last).
THEOREM OneSignalPerAction == Spec => []OneConfirmationEach
  <1>2. IInv => OneConfirmationEach
    <2> SUFFICES ASSUME IInv, policy PROVE Len(acted) <= gives
      BY DEF IInv, CountInv, OneConfirmationEach
    <2>1. InHand \in Nat /\ Len(acted) \in Nat /\ gives \in Nat
      BY DEF InHand, IInv, Typed, HistoryType
    <2> QED
      BY <2>1 DEF IInv, CountInv
  <1> QED
    BY <1>2, InitIInv, NextIInv, PTL DEF Spec

-----------------------------------------------------------------------------
(* Who works on what: what the answers and the sessions rest on.            *)

Free(t) == pc[t] \notin ActionPcs

\* Without the confirmation the worker is never given a call.
SerialInv ==
    ~policy => /\ Free("worker")
               /\ pc["httpd"] \notin {"claim", "read_body", "enqueue"}
               /\ async.queue \in {<<>>, <<Sentinel>>}

\* request_in_flight is one claim: on its way into the queue, in it, or with the worker.
Queued  == async.queue \notin {<<>>, <<Sentinel>>}
Sending == pc["httpd"] \in {"read_body", "enqueue"}
Serves  == pc["worker"] \in ActionPcs \cup {"complete", "release"}

EarlyPcs == StartPcs \ {"register", "register_rest"}   \* before the worker is there
ClaimInv ==
    /\ async.stopped = "full" => pc["worker"] = "gone"
    /\ ~async.exists => pc["worker"] \in {"none", "gone"} /\ async.queue = <<>>
    /\ Queued => ~Serves /\ ~Sending /\ async.inFlight
    /\ Serves => ~Sending /\ async.inFlight
    /\ Sending /\ async.exists => async.inFlight
    /\ main \in StartPcs \ {"register_rest"} => pc["httpd"] = "idle"
    /\ main \in EarlyPcs => ~async.exists

\* A request that is being worked on has not been answered; nobody else has it.
Unacted == {"guard", "claim", "read_body", "enqueue", "policy", "wait_entry", "waiting", "body",
            "apply"}
IdInv ==
    /\ status \in [Ids -> Nat]
    /\ pc["httpd"] # "idle" => id["httpd"] = Len(request) /\ status[id["httpd"]] = 0
    /\ ~Free("worker") => /\ status[id["worker"]] = 0
                          /\ pc["httpd"] # "idle" => id["worker"] # id["httpd"]
    /\ Queued => /\ status[Head(async.queue)] = 0 /\ Head(async.queue) \notin touched
                 /\ pc["httpd"] # "idle" => Head(async.queue) # id["httpd"]
    /\ \A i \in Ids : i > Len(request) => status[i] = 0 /\ i \notin touched
    /\ \A t \in Tasks : pc[t] \in Unacted => id[t] \notin touched
    /\ \A t \in Tasks : pc[t] = "schedule" /\ Call(t).path = "device_restart" => id[t] \notin touched

\* How far the action that runs has come.
Stage(t) ==
    /\ pc[t] \in {"erase", "delete", "clear"} => Call(t).path = "device_factory_reset"
    /\ pc[t] \in {"apply", "invalidate"} => Call(t).path # "device_restart"
    /\ pc[t] \in {"apply", "erase"} => outcome = Coherent
    /\ pc[t] = "invalidate" => /\ outcome.primary = "NONE" /\ ~outcome.invalidated
                               /\ outcome.applied = (Call(t).path = "device_reset_settings")
    /\ \/ pc[t] \in {"erase", "invalidate", "delete", "clear"}
       \/ pc[t] = "schedule" /\ Call(t).path # "device_restart"
       => id[t] \in touched
    /\ pc[t] = "schedule" /\ Call(t).path = "device_reset_settings"
       => outcome.applied /\ (outcome.invalidated <=> outcome.primary = "NONE")
    /\ pc[t] \in {"erase", "invalidate", "delete", "schedule", "clear"}
       /\ Call(t).path = "device_factory_reset" => store.pending
    /\ pc[t] \in {"invalidate", "delete", "schedule", "clear"}
       /\ Call(t).path = "device_factory_reset" /\ outcome.primary = "NONE"
       => store.settings = "erased"
    /\ pc[t] = "clear" => outcome.primary = "NONE" /\ restart
    /\ pc[t] \in {"invalidate", "schedule"} /\ Call(t).path = "device_reset_settings" => latch

\* The errors an outcome collects.
Errors == {"NONE", "IO", "INTERNAL", "COMMIT_UNCERTAIN"}
StageInv ==
    /\ outcome \in [applied : BOOLEAN, invalidated : BOOLEAN, primary : Errors]
    /\ store \in [settings : {"custom", "default", "erased"}, blobs : BOOLEAN, pending : BOOLEAN]
    /\ \A t \in Tasks : Stage(t)

\* The sessions of before the run, once a reset has taken effect.
Clean == sessions \cap Sessions = {}
Resets == {k \in DOMAIN acted : request[acted[k]].path # "device_restart"}

\* A request that is through the guard: the resets its guard saw closed it, or are over.
Passed(i) == \A k \in Resets : k <= guardedAt[i] => Clean

\* A reset that is through with the sessions, without an error so far.
Late == {"delete", "schedule", "clear"}
PastSessions(t) ==
    pc[t] \in Late /\ outcome.primary = "NONE" /\ Call(t).path # "device_restart"

\* A call that is admitted and has not acted.
Waits(t) == \/ pc[t] \in {"wait_entry", "waiting", "body", "apply"}
            \/ pc[t] = "schedule" /\ Call(t).path = "device_restart"
Entitled(i) ==
    \A k \in Resets : request[i].cookie \notin Sessions \/ (guardedAt[i] < k /\ faults > 0)

SessionInv ==
    /\ faults \in Nat
    /\ \A k \in DOMAIN acted : acted[k] \in 1 .. Len(request)
    /\ guardedAt \in [Ids -> Nat] /\ \A i \in Ids : guardedAt[i] <= Len(acted)
    /\ pc["httpd"] = "guard" => \A k \in DOMAIN acted : acted[k] # id["httpd"]
    /\ Resets # {} /\ ~latch /\ ~store.pending => Clean
    /\ faults = 0 /\ Resets # {} => Clean \/ \E t \in Tasks : pc[t] \in {"erase", "invalidate"}
    /\ \A t \in Tasks : PastSessions(t) => Clean
    /\ pc["httpd"] \in {"claim", "read_body", "enqueue", "policy"} => Passed(id["httpd"])
    /\ Queued => Passed(Head(async.queue))
    /\ pc["worker"] = "policy" => Passed(id["worker"])
    /\ \A t \in Tasks : Waits(t) => Entitled(id[t])

-----------------------------------------------------------------------------
(* What the steps leave alone.                                              *)

\* The steps of the start and its undoing, of the controls task, of the console
\* and of the timer, logins and logouts: no call moves.
Elsewhere ==
    /\ UNCHANGED <<policy, callVars, restart, latch, store, guardedAt, acted, touched>>
    /\ faults' = faults \/ faults' = faults + 1
    /\ sessions' \subseteq sessions \cup {LateSession}

LEMMA StepKinds ==
    ASSUME [Next]_vars
    PROVE  \/ Elsewhere /\ UNCHANGED <<async, main>>
           \/ Elsewhere /\ UNCHANGED async /\ main' \notin StartPcs \ {"register_rest"}
           \/ Elsewhere /\ UNCHANGED async /\ main \in EarlyPcs
           \/ Elsewhere /\ (AsyncStop \/ AsyncWait) /\ main' \notin StartPcs
           \/ AsyncStart \/ Arrive \/ Httpd \/ Worker
           \/ \E t \in Tasks : Handle(t)
  <1>1. CASE ControlsInit \/ TaskStarted \/ ControlsStop
    BY <1>1 DEF ControlsInit, TaskStarted, ControlsStop, Elsewhere, effectVars,
       historyVars, StartPcs, EarlyPcs
  <1>2. CASE ControlsInitFails
    BY <1>2 DEF ControlsInitFails, CleanUp, Fault, Works, Elsewhere, effectVars,
       historyVars, StartPcs, EarlyPcs
  <1>3. CASE TaskCreate
    BY <1>3 DEF TaskCreate, CleanUp, Fault, Works, Elsewhere, effectVars, historyVars,
       StartPcs, EarlyPcs
  <1>4. CASE ControlsCleanup
    BY <1>4 DEF ControlsCleanup, CleanUp, Fault, Works, Elsewhere, effectVars, historyVars,
       StartPcs, EarlyPcs
  <1>5. CASE ControlsWait
    BY <1>5 DEF ControlsWait, Fault, Works, Elsewhere, effectVars, historyVars, StartPcs,
       EarlyPcs
  <1>6. CASE TaskPoll \/ TaskLeave
    BY <1>6 DEF TaskPoll, TaskLeave, Fault, Works, Elsewhere, effectVars, historyVars,
       serverVars
  <1>7. CASE WifiStart \/ HttpdStart \/ Register
    BY <1>7 DEF WifiStart, HttpdStart, Register, StartStep, StartFails, Fault, Works,
       Elsewhere,
       effectVars, historyVars, StartPcs, EarlyPcs
  <1>8. CASE HttpdStop
    BY <1>8 DEF HttpdStop, StopFailed, Fault, Works, Elsewhere, effectVars, historyVars,
       StartPcs, EarlyPcs
  <1>9. CASE AsyncStop
    BY <1>9 DEF AsyncStop, StopFailed, Fault, Works, Elsewhere, effectVars, historyVars,
       StartPcs, EarlyPcs
  <1>10. CASE AsyncWait
    BY <1>10 DEF AsyncWait, StopFailed, Fault, Works, Elsewhere, effectVars, historyVars,
       StartPcs, EarlyPcs
  <1>11. CASE Console
    BY <1>11 DEF Console, ConsoleConfirm, ConsoleGive, Elsewhere, effectVars, historyVars,
       serverVars
  <1>12. CASE TimerFires
    BY <1>12 DEF TimerFires, Elsewhere, historyVars, serverVars
  <1>13. CASE LoginOrLogout
    BY <1>13 DEF LoginOrLogout, Elsewhere, historyVars, serverVars
  <1>14. CASE UNCHANGED vars
    BY <1>14 DEF vars, Elsewhere, effectVars, historyVars, serverVars
  <1> QED
    BY <1>1, <1>2, <1>3, <1>4, <1>5, <1>6, <1>7, <1>8, <1>9, <1>10, <1>11, <1>12, <1>13,
       <1>14
       DEF Next, Start, Undo

\* A step of a call ends it with an answer, or takes it on; where it goes on it has
\* touched nothing before it acts.
Ends(t) == /\ touched' \in {touched, touched \cup {id[t]}}
           /\ \E code \in Nat : Finish(t, code)
Goes(t) ==
    \E next \in ActionPcs :
        /\ Step(t, next) /\ status' = status
        /\ \/ /\ touched' = touched
              /\ next \in Unacted => pc[t] \in Unacted
              /\ next = "schedule" /\ Call(t).path = "device_restart" => pc[t] \in {"body", "schedule"}
           \/ touched' = touched \cup {id[t]} /\ next \in {"invalidate", "erase"}

LEMMA PolicyCodes ==
    /\ PolicyStatus("PHYSICAL_CONFIRMATION") = 403
    /\ \A route, body : BodyStatus(route, body) \in {0, 422, 403}
  BY DEF PolicyStatus, BodyStatus

LEMMA AdmissionCodes ==
    ASSUME NEW r, NEW table
    PROVE  /\ AdmissionStatus(r, table) \in {0, 400, 401, 404, 405, 413, 415, 422}
           /\ AdmissionStatus(r, table) = 0 /\ r.path \in DeviceActions => r.cookie \in table
  <1> DEFINE route == ParsePath(r.path).route
             failures == <<BodyFailure(r, route), SessionFailure(r, route, table),
                           RequestIdFailure(r)>>
             bad == {i \in DOMAIN failures : failures[i] # "NONE"}
             first == CHOOSE i \in bad : \A j \in bad : i <= j
  <1>1. /\ BodyFailure(r, route) \in {"NONE", "BODY_LIMIT", "CONTENT_TYPE"}
        /\ SessionFailure(r, route, table) \in {"NONE", "COOKIE", "SESSION"}
        /\ RequestIdFailure(r) \in {"NONE", "REQUEST_ID"}
    BY DEF BodyFailure, SessionFailure, RequestIdFailure
  <1>2. DOMAIN failures = 1 .. 3 /\ bad \subseteq 1 .. 3
    OBVIOUS
  <1>3. ASSUME bad # {} PROVE first \in bad
    <2>1. \E i \in bad : \A j \in bad : i <= j
      BY <1>2, <1>3
    <2> QED  BY <2>1
  <1>4. PolicyFailure(r, route, table) = IF bad = {} THEN "NONE" ELSE failures[first]
    BY DEF PolicyFailure, FirstFailure
  <1>5. /\ PolicyFailure(r, route, table)
             \in {"NONE", "BODY_LIMIT", "CONTENT_TYPE", "COOKIE", "SESSION", "REQUEST_ID"}
        /\ PolicyFailure(r, route, table) = "NONE" => bad = {}
    <2>1. CASE bad = {}
      BY <1>4, <2>1
    <2>2. CASE bad # {}
      <3> HIDE DEF first
      <3>1. first \in {1, 2, 3} /\ failures[first] # "NONE"
        BY <1>2, <1>3, <2>2
      <3> QED  BY <1>1, <1>4, <2>2, <3>1
    <2> QED  BY <2>1, <2>2
  <1>6. PrepareStatus(r) \in {0, 400, 404, 405, 422}
    BY DEF PrepareStatus
  <1>7. PolicyFailure(r, route, table) # "NONE"
        => PolicyStatus(PolicyFailure(r, route, table)) \in {400, 401, 413, 415}
    BY <1>5 DEF PolicyStatus
  <1>8. AdmissionStatus(r, table) \in {0, 400, 401, 404, 405, 413, 415, 422}
    BY <1>6, <1>7 DEF AdmissionStatus
  <1>9. ASSUME AdmissionStatus(r, table) = 0, r.path \in DeviceActions PROVE r.cookie \in table
    <2>1. PolicyFailure(r, route, table) = "NONE"
      BY <1>7, <1>9 DEF AdmissionStatus
    <2>2. SessionFailure(r, route, table) = "NONE"
      BY <1>2, <1>5, <2>1
    <2>3. RequiresSession(route)
      BY <1>9 DEF ParsePath, Routes, DeviceActions, RequiresSession
    <2> QED  BY <2>2, <2>3 DEF SessionFailure
  <1> QED  BY <1>8, <1>9

\* What the device actions answer themselves.
LEMMA ResetCodes ==
    ASSUME NEW r, r.applied, r.invalidated \in BOOLEAN, r.invalidated <=> r.primary = "NONE",
           r.owned <=> r.restart = "NONE"
    PROVE  ResetSettingsStatus(r) = IF r.owned THEN 202 ELSE 409
  <1>1. CASE r.owned
    BY <1>1 DEF ResetSettingsStatus, ResetSettingsOutcome
  <1>2. CASE ~r.owned
    BY <1>2 DEF ResetSettingsStatus, ResetSettingsOutcome
  <1> QED  BY <1>1, <1>2

LEMMA FactoryCodes ==
    ASSUME NEW r, r.durablyAccepted, r.recoveryRequired <=> r.primary # "NONE"
    PROVE  FactoryResetStatus(r) = 202
  BY DEF FactoryResetStatus, FactoryResetOutcome

LEMMA RefusalCodes ==
    /\ \A primary \in WriteErrors :
           ResetSettingsStatus([applied |-> FALSE, invalidated |-> FALSE, owned |-> FALSE,
                                restart |-> "NONE", primary |-> primary]) \in {422, 503, 507}
    /\ ResetSettingsStatus([applied |-> FALSE, invalidated |-> FALSE, owned |-> FALSE,
                            restart |-> "NONE", primary |-> "COMMIT_UNCERTAIN"]) = 503
    /\ FactoryResetStatus([durablyAccepted |-> FALSE, recoveryRequired |-> FALSE,
                           primary |-> "STORAGE_UNAVAILABLE"]) = 503
    /\ FactoryResetStatus([durablyAccepted |-> FALSE, recoveryRequired |-> FALSE,
                           primary |-> "STORAGE_FULL"]) = 507
    /\ RestartStatus("NONE") = 202 /\ RestartStatus("INTERNAL") = 500
  <1>1. ASSUME NEW primary \in WriteErrors
        PROVE  ResetSettingsStatus([applied |-> FALSE, invalidated |-> FALSE, owned |-> FALSE,
                                    restart |-> "NONE", primary |-> primary]) \in {422, 503, 507}
    BY DEF ResetSettingsStatus, ResetSettingsOutcome, HttpStatusForError, Unavailable
  <1>2. ResetSettingsStatus([applied |-> FALSE, invalidated |-> FALSE, owned |-> FALSE,
                             restart |-> "NONE", primary |-> "COMMIT_UNCERTAIN"]) = 503
    BY DEF ResetSettingsStatus, ResetSettingsOutcome, HttpStatusForError, Unavailable
  <1>3. FactoryResetStatus([durablyAccepted |-> FALSE, recoveryRequired |-> FALSE,
                            primary |-> "STORAGE_UNAVAILABLE"]) = 503
    BY DEF FactoryResetStatus, FactoryResetOutcome, HttpStatusForError, Unavailable
  <1>4. FactoryResetStatus([durablyAccepted |-> FALSE, recoveryRequired |-> FALSE,
                            primary |-> "STORAGE_FULL"]) = 507
    BY DEF FactoryResetStatus, FactoryResetOutcome, HttpStatusForError, Unavailable
  <1>5. RestartStatus("NONE") = 202 /\ RestartStatus("INTERNAL") = 500
    BY DEF RestartStatus, HttpStatusForError, Unavailable
  <1> QED  BY <1>1, <1>2, <1>3, <1>4, <1>5

\* How a reset of the settings ends or begins.
LEMMA ApplyMoves ==
    ASSUME NEW t \in Tasks, ApplyReset(t)
    PROVE  \/ \E code \in {422, 503, 507} : Finish(t, code) /\ touched' = touched
           \/ Finish(t, 503) /\ touched' \in {touched, touched \cup {id[t]}} /\ acted' = acted
           \/ /\ Step(t, "invalidate") /\ status' = status /\ latch'
              /\ touched' = touched \cup {id[t]}
  <1> DEFINE Code(error) ==
                 ResetSettingsStatus([applied |-> FALSE, invalidated |-> FALSE, owned |-> FALSE,
                                      restart |-> "NONE", primary |-> error])
  <1>1. /\ \A error \in WriteErrors : Code(error) \in {422, 503, 507}
        /\ Code("COMMIT_UNCERTAIN") = 503
    BY RefusalCodes, ZenonT(30)
  <1>2. \/ \E error \in WriteErrors : Finish(t, Code(error)) /\ touched' = touched
        \/ /\ Finish(t, Code("COMMIT_UNCERTAIN")) /\ acted' = acted
           /\ touched' \in {touched, touched \cup {id[t]}}
        \/ /\ Step(t, "invalidate") /\ status' = status /\ latch'
           /\ touched' = touched \cup {id[t]}
    <2>1. CASE store.settings = "erased"
      BY <2>1 DEF ApplyReset
    <2>2. CASE store.settings # "erased"
      BY <2>2 DEF ApplyReset
    <2> QED  BY <2>1, <2>2
  <1> HIDE DEF Code
  <1> QED  BY <1>1, <1>2

\* ... and the marker of a factory reset.
LEMMA MarkMoves ==
    ASSUME NEW t \in Tasks, MarkPending(t)
    PROVE  \/ Finish(t, 507) /\ touched' = touched
           \/ Finish(t, 503) /\ touched' \in {touched, touched \cup {id[t]}} /\ acted' = acted
           \/ Step(t, "erase") /\ status' = status /\ touched' = touched \cup {id[t]}
  BY RefusalCodes DEF MarkPending

\* What is answered once the restart was asked for.
LEMMA ScheduledCodes ==
    ASSUME NEW t \in Tasks, NEW error \in {"NONE", "INTERNAL"}, Call(t).path \in DeviceActions,
           StageInv, pc[t] = "schedule"
    PROVE  ScheduledStatus(t, error) =
               IF Call(t).path = "device_factory_reset" \/ error = "NONE" THEN 202
               ELSE IF Call(t).path = "device_restart" THEN 500 ELSE 409
  <1>1. CASE Call(t).path = "device_restart"
    BY <1>1, RefusalCodes DEF ScheduledStatus
  <1>2. CASE Call(t).path = "device_reset_settings"
    <2> DEFINE r == [applied |-> outcome.applied, invalidated |-> outcome.invalidated,
                     owned |-> error = "NONE", primary |-> outcome.primary, restart |-> error]
    <2>1. /\ outcome.applied /\ outcome.invalidated \in BOOLEAN
          /\ outcome.invalidated <=> outcome.primary = "NONE"
      BY <1>2 DEF StageInv, Stage
    <2>2. /\ r.applied /\ r.invalidated \in BOOLEAN
          /\ r.invalidated <=> r.primary = "NONE"
      BY <2>1
    <2>3. r.owned <=> error = "NONE"
      OBVIOUS
    <2>6. r.restart = error
      OBVIOUS
    <2>4. ScheduledStatus(t, error) = ResetSettingsStatus(r)
      BY <1>2 DEF ScheduledStatus
    <2> HIDE DEF r
    <2>5. ResetSettingsStatus(r) = IF r.owned THEN 202 ELSE 409
      BY <2>2, <2>3, <2>6, ResetCodes
    <2> QED  BY <1>2, <2>3, <2>4, <2>5
  <1>3. CASE Call(t).path = "device_factory_reset"
    <2> DEFINE r == [durablyAccepted |-> TRUE, recoveryRequired |-> First(error) # "NONE",
                     primary |-> First(error)]
    <2>1. r.durablyAccepted /\ (r.recoveryRequired <=> r.primary # "NONE")
      OBVIOUS
    <2>2. ScheduledStatus(t, error) = FactoryResetStatus(r)
      BY <1>3 DEF ScheduledStatus
    <2> HIDE DEF r
    <2> QED  BY <1>3, <2>1, <2>2, FactoryCodes
  <1> QED  BY <1>1, <1>2, <1>3 DEF DeviceActions

LEMMA CallPath ==
    ASSUME CallType, NEW t \in Tasks, pc[t] \in ActionPcs
    PROVE  Call(t) \in Requests /\ Call(t).path \in DeviceActions /\ id[t] \in 1 .. Len(request)
  <1>1. id[t] \in 1 .. Len(request)
    BY DEF CallType, ActionPcs, Tasks
  <1> QED  BY <1>1, RequestAssumption DEF CallType, Call

\* With the restart scheduled a factory reset is accepted, whatever came of the marker.
LEMMA ClearCodes ==
    ASSUME NEW t \in Tasks, Call(t).path = "device_factory_reset", NEW error
    PROVE  ScheduledStatus(t, error) = 202
  <1> DEFINE r == [durablyAccepted |-> TRUE, recoveryRequired |-> First(error) # "NONE",
                   primary |-> First(error)]
  <1>1. r.durablyAccepted /\ (r.recoveryRequired <=> r.primary # "NONE")
    OBVIOUS
  <1>2. ScheduledStatus(t, error) = FactoryResetStatus(r)
    BY DEF ScheduledStatus
  <1> HIDE DEF r
  <1> QED  BY <1>1, <1>2, FactoryCodes

LEMMA HandleMoves ==
    ASSUME CallType, StageInv, NEW t \in Tasks, Handle(t)
    PROVE  /\ pc[t] \in ActionPcs /\ UNCHANGED <<policy, async, main, id, request, guardedAt>>
           /\ Ends(t) \/ Goes(t)
  <1>1. CASE Policy(t)
    <2>1. AdmissionStatus(Call(t), sessions) \in Nat
      BY AdmissionCodes
    <2> QED
      BY <1>1, <2>1 DEF Policy, Ends, Goes, ActionPcs, Unacted, serverVars, historyVars
  <1>2. CASE WaitEntry(t)
    BY <1>2, PolicyCodes DEF WaitEntry, Ends, Goes, ActionPcs, Unacted, serverVars,
       historyVars
  <1>3. CASE WaitTake(t)
    BY <1>3 DEF WaitTake, Ends, Goes, ActionPcs, Unacted, serverVars
  <1>4. CASE WaitTimeout(t)
    BY <1>4, PolicyCodes DEF WaitTimeout, Ends, ActionPcs, serverVars, historyVars
  <1>5. CASE Body(t)
    <2>1. /\ pc[t] = "body" /\ UNCHANGED <<policy, async, main, id, request, guardedAt, touched>>
          /\ \/ \E code \in {422, 403, 503} : Finish(t, code)
             \/ Step(t, "schedule") /\ status' = status
             \/ Step(t, "apply") /\ status' = status
      BY <1>5, PolicyCodes DEF Body, serverVars, historyVars
    <2> QED  BY <2>1 DEF Ends, Goes, ActionPcs, Unacted
  <1>6. CASE ApplyReset(t)
    <2>1. Ends(t) \/ (Step(t, "invalidate") /\ status' = status /\ touched' = touched \cup {id[t]})
      BY <1>6, ApplyMoves DEF Ends
    <2> QED  BY <1>6, <2>1 DEF ApplyReset, Goes, ActionPcs, serverVars
  <1>7. CASE MarkPending(t)
    <2>1. Ends(t) \/ (Step(t, "erase") /\ status' = status /\ touched' = touched \cup {id[t]})
      BY <1>7, MarkMoves DEF Ends
    <2> QED  BY <1>7, <2>1 DEF MarkPending, Goes, ActionPcs, serverVars
  <1>8. CASE Erase(t)
    <2>1. Call(t).path # "device_restart"
      BY <1>8 DEF Erase, StageInv, Stage
    <2> QED  BY <1>8, <2>1 DEF Erase, Goes, ActionPcs, Unacted, serverVars, historyVars
  <1>9. CASE Invalidate(t)
    <2>1. Call(t).path # "device_restart"
      BY <1>9 DEF Invalidate, StageInv, Stage
    <2> QED  BY <1>9, <2>1 DEF Invalidate, Goes, ActionPcs, Unacted, serverVars, historyVars
  <1>10. CASE DeleteBlobs(t)
    <2>1. Call(t).path # "device_restart"
      BY <1>10 DEF DeleteBlobs, StageInv, Stage
    <2> QED  BY <1>10, <2>1 DEF DeleteBlobs, Goes, ActionPcs, Unacted, serverVars,
                historyVars
  <1>11. CASE Schedule(t)
    <2>1. /\ pc[t] = "schedule" /\ pc[t] \in ActionPcs
          /\ UNCHANGED <<policy, async, main, id, request, guardedAt, touched>>
      BY <1>11 DEF Schedule, serverVars, ActionPcs
    <2>2. \A error \in {"NONE", "INTERNAL"} : ScheduledStatus(t, error) \in Nat
      BY <2>1, CallPath, ScheduledCodes
    <2>3. \/ \E error \in {"NONE", "INTERNAL"} : Finish(t, ScheduledStatus(t, error))
          \/ Step(t, "clear") /\ status' = status
          \/ pc' = pc /\ status' = status
      BY <1>11 DEF Schedule
    <2>4. pc' = pc => Step(t, "schedule")
      BY <2>1 DEF Step, CallType
    <2> QED  BY <2>1, <2>2, <2>3, <2>4 DEF Ends, Goes, ActionPcs, Unacted
  <1>12. CASE ClearPending(t)
    <2>1. Call(t).path = "device_factory_reset"
      BY <1>12 DEF ClearPending, StageInv, Stage
    <2>2. \A error \in {"NONE", "STORAGE_UNAVAILABLE"} : ScheduledStatus(t, error) = 202
      BY <2>1, ClearCodes
    <2> QED
      BY <1>12, <2>2 DEF ClearPending, Ends, ActionPcs, serverVars, historyVars
  <1> QED
    BY <1>1, <1>2, <1>3, <1>4, <1>5, <1>6, <1>7, <1>8, <1>9, <1>10, <1>11, <1>12 DEF Handle

\* Where a step of a call leaves its task.
LEMMA CallTurn ==
    ASSUME CallType, NEW t \in Tasks, Ends(t) \/ Goes(t)
    PROVE  /\ \A u \in Tasks : u # t => pc'[u] = pc[u]
           /\ t = "httpd" => pc'["httpd"] \in ActionPcs \cup {"idle"}
           /\ t = "worker" => pc'["worker"] \in ActionPcs \cup {"complete"}
  BY DEF Ends, Goes, Finish, Step, CallType, Tasks

LEMMA SerialStep ==
    ASSUME CallType, AsyncType, StageInv, SerialInv, [Next]_vars
    PROVE  SerialInv'
  <1> SUFFICES ASSUME ~policy, UNCHANGED policy
               PROVE  /\ Free("worker")'
                      /\ pc'["httpd"] \notin {"claim", "read_body", "enqueue"}
                      /\ async'.queue \in {<<>>, <<Sentinel>>}
    <2>1. policy' = policy
      BY StepKinds, HandleMoves DEF Elsewhere, AsyncStart, Arrive, Httpd, Worker, Guard,
         Claim,
         ReadBody, Enqueue, WorkerReceive, WorkerComplete, WorkerStop
    <2> QED  BY <2>1 DEF SerialInv
  <1>1. /\ Free("worker") /\ pc["httpd"] \notin {"claim", "read_body", "enqueue"}
        /\ async.queue \in {<<>>, <<Sentinel>>}
    BY DEF SerialInv
  <1>2. CASE Elsewhere /\ UNCHANGED async
    BY <1>1, <1>2 DEF Elsewhere, callVars, Free
  <1>3. CASE Elsewhere /\ (AsyncStop \/ AsyncWait)
    BY <1>1, <1>3 DEF Elsewhere, AsyncStop, AsyncWait, NoAsync, callVars, Free, AsyncType
  <1>4. CASE AsyncStart
    BY <1>1, <1>4 DEF AsyncStart, NoAsync, Free, CallType, Tasks, ActionPcs
  <1>5. CASE Arrive
    BY <1>1, <1>5 DEF Arrive, Step, Free, CallType, Tasks, serverVars
  <1>6. CASE Guard
    <2>1. ~RequiresWorker(request[id.httpd], policy)
      BY DEF RequiresWorker, ConfirmationRequired
    <2> QED  BY <1>1, <1>6, <2>1 DEF Guard, Step, Refuse, Free, CallType, Tasks, serverVars
  <1>7. CASE Claim \/ ReadBody \/ Enqueue
    BY <1>1, <1>7 DEF Claim, ReadBody, Enqueue
  <1>8. CASE WorkerReceive
    BY <1>1, <1>8 DEF WorkerReceive, Step, Free, CallType, Tasks, ActionPcs, AsyncType
  <1>9. CASE WorkerComplete \/ WorkerStop
    BY <1>1, <1>9 DEF WorkerComplete, WorkerStop, Step, Free, CallType, Tasks, ActionPcs,
       AsyncType
  <1>10. ASSUME NEW t \in Tasks, Handle(t)
         PROVE  /\ Free("worker")'
                /\ pc'["httpd"] \notin {"claim", "read_body", "enqueue"}
                /\ async'.queue \in {<<>>, <<Sentinel>>}
    <2>1. t = "httpd"
      BY <1>1, <1>10, HandleMoves DEF Free, Tasks
    <2> QED  BY <1>1, <1>10, <2>1, HandleMoves, CallTurn DEF Free, Tasks, ActionPcs
  <1> QED
    BY <1>2, <1>3, <1>4, <1>5, <1>6, <1>7, <1>8, <1>9, <1>10, StepKinds DEF Httpd, Worker

LEMMA QueueShape ==
    ASSUME CallType, AsyncType
    PROVE  Queued => async.queue # <<>> /\ Head(async.queue) \in 1 .. Len(request)
  <1> SUFFICES ASSUME Queued PROVE async.queue # <<>> /\ Head(async.queue) \in 1 .. Len(request)
    OBVIOUS
  <1>1. Len(request) \in Nat
    BY DEF CallType
  <1>2. PICK i \in 0 .. Len(request) : async.queue = <<i>>
    BY <1>1 DEF AsyncType, Queues, Queued
  <1> QED  BY <1>1, <1>2 DEF Queued, Sentinel

LEMMA ClaimStep ==
    ASSUME CallType, AsyncType, ServerType, StageInv, ClaimInv, [Next]_vars
    PROVE  ClaimInv'
  <1> USE DEF ClaimInv, EarlyPcs, Queued, Sending, Serves
  <1>1. CASE Elsewhere /\ UNCHANGED <<async, main>>
    BY <1>1 DEF Elsewhere, callVars
  <1>2. CASE Elsewhere /\ UNCHANGED async /\ main' \notin StartPcs \ {"register_rest"}
    BY <1>2 DEF Elsewhere, callVars
  <1>3. CASE Elsewhere /\ UNCHANGED async /\ main \in EarlyPcs
    BY <1>3 DEF Elsewhere, callVars
  <1>4. CASE Elsewhere /\ (AsyncStop \/ AsyncWait) /\ main' \notin StartPcs
    <2>1. UNCHANGED pc
      BY <1>4 DEF Elsewhere, callVars
    <2>2. CASE AsyncStop
      BY <1>4, <2>1, <2>2 DEF AsyncStop, AsyncType
    <2>3. CASE AsyncWait
      BY <1>4, <2>1, <2>3 DEF AsyncWait, NoAsync, ActionPcs
    <2> QED  BY <1>4, <2>2, <2>3
  <1>5. CASE AsyncStart
    BY <1>5 DEF AsyncStart, StartStep, StartFails, NoAsync, CallType, Tasks, ActionPcs,
       StartPcs, HttpdPcs, WorkerPcs
  <1>6. CASE Arrive
    BY <1>6 DEF Arrive, Serving, Step, CallType, Tasks, serverVars, StartPcs, StopPcs
  <1>7. CASE Guard
    BY <1>7 DEF Guard, Step, Refuse, CallType, Tasks, serverVars, StartPcs
  <1>8. CASE Claim
    BY <1>8 DEF Claim, Step, Refuse, CallType, AsyncType, Tasks, StartPcs
  <1>9. CASE ReadBody
    BY <1>9, SMTT(30) DEF ReadBody, Step, Refuse, CallType, AsyncType, Tasks, StartPcs
  <1>10. CASE Enqueue
    BY <1>10 DEF Enqueue, Step, Refuse, CallType, AsyncType, Tasks, StartPcs
  <1>11. CASE WorkerReceive
    BY <1>11 DEF WorkerReceive, Step, CallType, AsyncType, Tasks, StartPcs, ActionPcs
  <1>12. CASE WorkerComplete
    BY <1>12 DEF WorkerComplete, Step, CallType, AsyncType, Tasks, StartPcs, ActionPcs
  <1>13. CASE WorkerStop
    BY <1>13 DEF WorkerStop, Step, CallType, AsyncType, Tasks, StartPcs, ActionPcs
  <1>14. ASSUME NEW t \in Tasks, Handle(t) PROVE ClaimInv'
    <2>1. pc[t] \in ActionPcs /\ UNCHANGED <<async, main>> /\ (Ends(t) \/ Goes(t))
      BY <1>14, HandleMoves
    <2>2. CASE t = "httpd"
      <3>1. pc'["worker"] = pc["worker"] /\ pc'["httpd"] \in ActionPcs \cup {"idle"}
            /\ pc["httpd"] # "idle"
        BY <2>1, <2>2, CallTurn DEF Tasks, ActionPcs
      <3> QED  BY <2>1, <3>1 DEF ActionPcs
    <2>3. CASE t = "worker"
      <3>1. pc'["httpd"] = pc["httpd"] /\ pc'["worker"] \in ActionPcs \cup {"complete"}
            /\ pc["worker"] \in ActionPcs
        BY <2>1, <2>3, CallTurn DEF Tasks
      <3> QED  BY <2>1, <3>1 DEF ActionPcs
    <2> QED  BY <2>2, <2>3 DEF Tasks
  <1> QED
    BY <1>1, <1>2, <1>3, <1>4, <1>5, <1>6, <1>7, <1>8, <1>9, <1>10, <1>11, <1>12, <1>13,
       <1>14,
       StepKinds DEF Httpd, Worker

\* Elsewhere in the queue: the stop of the worker does not bring a call back.
LEMMA StopKeepsQueue ==
    ASSUME AsyncType, AsyncStop \/ AsyncWait
    PROVE  Queued' => async'.queue = async.queue
  <1>1. CASE AsyncStop
    BY <1>1 DEF AsyncStop, AsyncType, Queued
  <1>2. CASE AsyncWait
    BY <1>2 DEF AsyncWait, NoAsync, Queued
  <1> QED  BY <1>1, <1>2

\* IdInv, from its parts in the next state.
LEMMA IdParts ==
    ASSUME status' \in [Ids -> Nat],
           pc'["httpd"] # "idle" => id'["httpd"] = Len(request') /\ status'[id'["httpd"]] = 0,
           ~Free("worker")' => /\ status'[id'["worker"]] = 0
                               /\ pc'["httpd"] # "idle" => id'["worker"] # id'["httpd"],
           Queued' => /\ status'[Head(async'.queue)] = 0 /\ Head(async'.queue) \notin touched'
                      /\ pc'["httpd"] # "idle" => Head(async'.queue) # id'["httpd"],
           \A i \in Ids : i > Len(request') => status'[i] = 0 /\ i \notin touched',
           \A t \in Tasks : pc'[t] \in Unacted => id'[t] \notin touched',
           \A t \in Tasks : pc'[t] = "schedule" /\ request'[id'[t]].path = "device_restart"
                          => id'[t] \notin touched'
    PROVE  IdInv'
  BY DEF IdInv, Call

\* The HTTP task answers, or goes on, before the call acts.
LEMMA HttpdTurn ==
    ASSUME CallType, AsyncType, IdInv, UNCHANGED <<id, request, touched>>,
           pc["httpd"] \in Unacted, pc'["worker"] = pc["worker"],
           Queued' => Queued /\ async'.queue = async.queue,
           \/ /\ pc'["httpd"] = "idle"
              /\ \/ status' = status
                 \/ \E code \in Nat : status' = [status EXCEPT ![id["httpd"]] = code]
           \/ pc'["httpd"] \in Unacted /\ status' = status
    PROVE  IdInv'
  <1>1. pc["httpd"] # "idle" /\ id["httpd"] = Len(request) /\ id["httpd"] \notin touched
    BY DEF IdInv, Unacted, Tasks
  <1>2. id["httpd"] \in Ids
    BY <1>1, BoundAssumption DEF CallType, Ids
  <1>3. pc'["httpd"] # "schedule"
    BY DEF Unacted
  <1>4. /\ status' \in [Ids -> Nat]
        /\ \A i \in Ids : i # id["httpd"] => status'[i] = status[i]
    BY <1>2 DEF IdInv
  <1>5. pc'["httpd"] # "idle" => status' = status
    OBVIOUS
  <1>6. pc["worker"] \in ActionPcs => id["worker"] \in Ids /\ id["worker"] # id["httpd"]
    BY <1>1, BoundAssumption DEF CallType, IdInv, Free, Ids
  <1>7. Queued => Head(async.queue) # id["httpd"]
    BY <1>1 DEF IdInv
  <1>8. \A i \in Ids : i > Len(request) => i # id["httpd"]
    BY <1>1 DEF CallType, Ids
  <1>9. Queued' => /\ Queued /\ async'.queue = async.queue /\ Head(async.queue) \in Ids
                   /\ status'[Head(async.queue)] = status[Head(async.queue)]
    BY <1>4, <1>7, QueueShape, BoundAssumption DEF CallType, Ids
  <1>10. ~Free("worker")' => /\ ~Free("worker") /\ status'[id["worker"]] = status[id["worker"]]
    BY <1>4, <1>6 DEF Free
  <1>11. pc'["httpd"] # "idle" => id'["httpd"] = Len(request') /\ status'[id'["httpd"]] = 0
    BY <1>1, <1>5 DEF IdInv
  <1>12. ~Free("worker")' => /\ status'[id'["worker"]] = 0
                             /\ pc'["httpd"] # "idle" => id'["worker"] # id'["httpd"]
    BY <1>1, <1>10 DEF IdInv
  <1>13. Queued' => /\ status'[Head(async'.queue)] = 0 /\ Head(async'.queue) \notin touched'
                    /\ pc'["httpd"] # "idle" => Head(async'.queue) # id'["httpd"]
    BY <1>1, <1>9 DEF IdInv
  <1>14. \A i \in Ids : i > Len(request') => status'[i] = 0 /\ i \notin touched'
    BY <1>4, <1>8 DEF IdInv
  <1>15. /\ \A t \in Tasks : pc'[t] \in Unacted => id'[t] \notin touched'
         /\ \A t \in Tasks : pc'[t] = "schedule" /\ request'[id'[t]].path = "device_restart"
                           => id'[t] \notin touched'
    BY <1>1, <1>3 DEF IdInv, Call, Tasks
  <1> QED
    BY <1>4, <1>11, <1>12, <1>13, <1>14, <1>15, IdParts

LEMMA IdStep ==
    ASSUME CallType, AsyncType, StageInv, ClaimInv, IdInv, [Next]_vars
    PROVE  IdInv'
  <1>0. Len(request) \in Nat /\ Ids = 1 .. MaxRequests /\ MaxRequests \in Nat
    BY BoundAssumption DEF CallType, Ids
  <1>1. CASE Elsewhere /\ (UNCHANGED async \/ AsyncStop \/ AsyncWait)
    <2>1. Queued' => Queued /\ async'.queue = async.queue
      BY <1>1, StopKeepsQueue DEF Queued
    <2> QED  BY <1>1, <2>1 DEF Elsewhere, callVars, IdInv, Free, Call
  <1>2. CASE AsyncStart
    <2>1. /\ UNCHANGED <<id, request, touched, status>> /\ pc'["httpd"] = pc["httpd"]
          /\ pc'["worker"] \in {pc["worker"], "receive"}
      BY <1>2 DEF AsyncStart, CallType, Tasks, historyVars
    <2>2. Queued' => Queued /\ async' = async
      BY <1>2 DEF AsyncStart, NoAsync, Queued
    <2> QED  BY <2>1, <2>2 DEF IdInv, Free, Call, Tasks, ActionPcs, Unacted
  <1>3. CASE Arrive
    <2>1. PICK r \in Requests : request' = Append(request, r)
      BY <1>3 DEF Arrive
    <2>2. /\ Len(request') = Len(request) + 1 /\ Len(request) < MaxRequests
          /\ \A i \in 1 .. Len(request) : request'[i] = request[i]
      BY <1>0, <1>3, <2>1, AppendProperties DEF Arrive, CallType
    <2>3. /\ pc["httpd"] = "idle" /\ pc' = [pc EXCEPT !["httpd"] = "guard"]
          /\ id' = [id EXCEPT !["httpd"] = Len(request) + 1]
          /\ UNCHANGED <<status, touched, async>>
      BY <1>3 DEF Arrive, Step, serverVars, historyVars
    <2>4. /\ pc'["httpd"] = "guard" /\ pc'["worker"] = pc["worker"]
          /\ id'["httpd"] = Len(request) + 1 /\ id'["worker"] = id["worker"]
      BY <2>3 DEF CallType, Tasks
    <2>5. Len(request) + 1 \in Ids /\ status[Len(request) + 1] = 0 /\ Len(request) + 1 \notin touched
      BY <1>0, <2>2 DEF IdInv
    <2>6. pc["worker"] \in ActionPcs => id["worker"] \in 1 .. Len(request)
      BY DEF CallType
    <2>7. Queued => Head(async.queue) \in 1 .. Len(request)
      BY QueueShape
    <2>8. pc["worker"] \in ActionPcs => Call("worker")' = Call("worker")
      BY <2>2, <2>4, <2>6 DEF Call
    <2>9. Unacted \subseteq ActionPcs \cup {"guard", "claim", "read_body", "enqueue"}
          /\ "schedule" \in ActionPcs
      BY DEF Unacted, ActionPcs
    <2>10. pc["worker"] \in HttpdPcs \cup WorkerPcs /\ pc["worker"] \in WorkerPcs
      BY DEF CallType
    <2>11. pc["worker"] \in Unacted => pc["worker"] \in ActionPcs
      BY <2>10 DEF Unacted, ActionPcs, WorkerPcs
    <2>12. \A t \in Tasks : pc'[t] \in Unacted => id'[t] \notin touched'
      BY <2>3, <2>4, <2>5, <2>11 DEF IdInv, Tasks
    <2>13. \A t \in Tasks : pc'[t] = "schedule" /\ Call(t)'.path = "device_restart" => id'[t] \notin touched'
      BY <2>3, <2>4, <2>8, <2>9 DEF IdInv, Tasks
    <2> QED
      BY <1>0, <2>2, <2>3, <2>4, <2>5, <2>6, <2>7, <2>12, <2>13 DEF IdInv, Free, Queued
  <1>4. CASE Guard
    <2>1. /\ pc["httpd"] = "guard" /\ UNCHANGED <<id, request, touched, async>>
          /\ \/ Refuse(503)
             \/ Step("httpd", "claim") /\ status' = status
             \/ Step("httpd", "policy") /\ status' = status
      BY <1>4 DEF Guard, serverVars
    <2> QED
      BY <2>1, HttpdTurn DEF Refuse, Answer, Step, Queued, CallType, Tasks, Unacted
  <1>9. CASE Claim
    <2>1. /\ pc["httpd"] = "claim" /\ UNCHANGED <<id, request, touched>> /\ async'.queue = async.queue
          /\ \/ Refuse(503) \/ Refuse(409)
             \/ Step("httpd", "read_body") /\ status' = status
      BY <1>9 DEF Claim, historyVars, AsyncType
    <2> QED
      BY <2>1, HttpdTurn DEF Refuse, Answer, Step, Queued, CallType, Tasks, Unacted
  <1>10. CASE ReadBody
    <2>1. /\ pc["httpd"] = "read_body" /\ UNCHANGED <<id, request, touched>>
          /\ async'.queue = async.queue
          /\ \/ \E code \in {503, 422, 500} : Refuse(code)
             \/ Step("httpd", "enqueue") /\ status' = status
      BY <1>10 DEF ReadBody, historyVars, AsyncType
    <2> QED
      BY <2>1, HttpdTurn DEF Refuse, Answer, Step, Queued, CallType, Tasks, Unacted
  <1>5. CASE Enqueue
    <2>1. /\ pc["httpd"] = "enqueue" /\ pc' = [pc EXCEPT !["httpd"] = "idle"]
          /\ UNCHANGED <<id, request, touched>>
          /\ \/ async'.queue = <<id["httpd"]>> /\ status' = status
             \/ /\ async'.queue = async.queue
                /\ status' = status \/ status' = [status EXCEPT ![id["httpd"]] = 503]
      <3>1. UNCHANGED <<id, request, touched>> /\ pc["httpd"] = "enqueue"
        BY <1>5 DEF Enqueue
      <3>2. \/ Step("httpd", "idle") /\ async'.queue = <<id["httpd"]>> /\ status' = status
            \/ Refuse(503) /\ async'.queue = async.queue
            \/ Step("httpd", "idle") /\ async'.queue = async.queue /\ status' = status
        BY <1>5 DEF Enqueue, AsyncType
      <3> QED  BY <3>1, <3>2 DEF Refuse, Answer, Step
    <2>2. /\ id["httpd"] = Len(request) /\ id["httpd"] \notin touched /\ status[id["httpd"]] = 0
          /\ ~Queued /\ Free("worker")
      BY <2>1 DEF IdInv, Tasks, Unacted, ClaimInv, Sending, Serves, Free
    <2>3. pc'["httpd"] = "idle" /\ pc'["worker"] = pc["worker"]
      BY <2>1 DEF CallType, Tasks
    <2>4. CASE async'.queue = <<id["httpd"]>> /\ status' = status
      BY <2>1, <2>2, <2>3, <2>4 DEF IdInv, Free, Call, Queued, Tasks, Unacted, ActionPcs
    <2>5. CASE async'.queue = async.queue
      <3>1. ~Queued'
        BY <2>2, <2>5 DEF Queued
      <3>2. \/ status' = status
            \/ \E code \in Nat : status' = [status EXCEPT ![id["httpd"]] = code]
            \/ async'.queue = <<id["httpd"]>>
        BY <2>1
      <3>3. async'.queue # <<id["httpd"]>>
        <4>1. id["httpd"] \in 1 .. Len(request)
          BY <2>1 DEF CallType
        <4>2. id["httpd"] # 0
          BY <4>1
        <4>3. <<id["httpd"]>> # <<>> /\ <<id["httpd"]>> # <<0>>
          <5>1. <<id["httpd"]>>[1] # <<0>>[1]
            BY <4>2
          <5> QED  BY <5>1
        <4> QED  BY <3>1, <4>3 DEF Queued, Sentinel
      <3> QED
        BY <2>1, <2>3, <3>1, <3>2, <3>3, HttpdTurn DEF Unacted
    <2> QED  BY <2>1, <2>4, <2>5
  <1>6. CASE WorkerReceive
    <2>1. /\ ~Queued' /\ UNCHANGED <<request, touched, status>> /\ pc["worker"] = "receive"
          /\ \/ pc' = [pc EXCEPT !["worker"] = "stopping"] /\ id' = id
             \/ /\ Queued /\ pc' = [pc EXCEPT !["worker"] = "policy"]
                /\ id' = [id EXCEPT !["worker"] = Head(async.queue)]
      BY <1>6 DEF WorkerReceive, Step, Queued, historyVars, AsyncType, Sentinel
    <2>2. CASE pc' = [pc EXCEPT !["worker"] = "stopping"] /\ id' = id
      BY <2>1, <2>2 DEF IdInv, Free, Call, CallType, Tasks, Unacted, ActionPcs
    <2>3. CASE /\ Queued /\ pc' = [pc EXCEPT !["worker"] = "policy"]
               /\ id' = [id EXCEPT !["worker"] = Head(async.queue)]
      <3>1. /\ pc'["worker"] = "policy" /\ pc'["httpd"] = pc["httpd"]
            /\ id'["worker"] = Head(async.queue) /\ id'["httpd"] = id["httpd"]
        BY <2>3, QueueShape DEF CallType, Tasks
      <3> QED  BY <2>1, <2>3, <3>1 DEF IdInv, Free, Call, Tasks, Unacted, ActionPcs
    <2> QED  BY <2>1, <2>2, <2>3
  <1>7. CASE WorkerComplete \/ WorkerStop
    <2>1. /\ UNCHANGED <<id, request, touched, status>> /\ async'.queue = async.queue
          /\ \E next \in {"release", "receive", "gone"} : pc' = [pc EXCEPT !["worker"] = next]
      BY <1>7 DEF WorkerComplete, WorkerStop, Step, historyVars, AsyncType
    <2> QED  BY <2>1 DEF IdInv, Free, Call, Queued, CallType, Tasks, Unacted, ActionPcs
  <1>8. ASSUME NEW t \in Tasks, Handle(t) PROVE IdInv'
    <2>1. /\ pc[t] \in ActionPcs /\ UNCHANGED <<async, id, request>> /\ (Ends(t) \/ Goes(t))
          /\ id[t] \in 1 .. Len(request) /\ id[t] \in Ids
      BY <1>0, <1>8, HandleMoves, CallPath DEF CallType
    <2>2. CASE t = "httpd"
      <3>1. /\ pc'["worker"] = pc["worker"] /\ id["httpd"] = Len(request) /\ pc["httpd"] # "idle"
            /\ Queued' => Queued /\ async'.queue = async.queue
            /\ Free("worker") \/ id["worker"] # id["httpd"]
            /\ Queued => Head(async.queue) # id["httpd"]
        BY <2>1, <2>2, CallTurn DEF IdInv, Queued, Tasks, ActionPcs
      <3>2. CASE Ends(t)
        <4>1. /\ pc'["httpd"] = "idle" /\ touched' \subseteq touched \cup {id["httpd"]}
              /\ \E code \in Nat : status' = [status EXCEPT ![id["httpd"]] = code]
          BY <2>2, <3>2 DEF Ends, Finish, Answer, Step, CallType, Tasks
        <4>2. status' \in [Ids -> Nat] /\ \A i \in Ids : i # id["httpd"] => status'[i] = status[i]
          BY <2>1, <2>2, <4>1 DEF IdInv
        <4>3. Queued => Head(async.queue) \in Ids
          BY <1>0, QueueShape DEF CallType
        <4>4. pc["worker"] \in ActionPcs => id["worker"] \in Ids
          BY <1>0 DEF CallType
        <4>5. Queued' => status'[Head(async'.queue)] = 0 /\ Head(async'.queue) \notin touched'
          BY <2>1, <3>1, <4>1, <4>2, <4>3 DEF IdInv
        <4>6. \A i \in Ids : i > Len(request') => status'[i] = 0 /\ i \notin touched'
          <5>1. \A i \in Ids : i > Len(request) => i # id["httpd"]
            BY <1>0, <3>1
          <5> QED  BY <2>1, <4>1, <4>2, <5>1 DEF IdInv
        <4>7. pc'["worker"] \in ActionPcs => id'["worker"] = id["worker"] /\ id["worker"] # id["httpd"]
          BY <2>1, <3>1 DEF Free
        <4>8. ~Free("worker")' => status'[id'["worker"]] = 0
          BY <2>1, <3>1, <4>2, <4>4, <4>7 DEF IdInv, Free
        <4>9. \A u \in Tasks : pc'[u] \in Unacted => id'[u] \notin touched'
          <5>1. pc["worker"] \in Unacted => pc["worker"] \in ActionPcs
            BY DEF CallType, WorkerPcs, Unacted, ActionPcs
          <5>2. pc["worker"] \in Unacted => id["worker"] \notin touched
            BY DEF IdInv, Tasks
          <5> QED  BY <3>1, <4>1, <4>7, <5>1, <5>2 DEF Tasks, Unacted
        <4>10. \A u \in Tasks : pc'[u] = "schedule" /\ request'[id'[u]].path = "device_restart"
                              => id'[u] \notin touched'
          <5>1. pc["worker"] = "schedule" /\ request[id["worker"]].path = "device_restart"
                => id["worker"] \notin touched
            BY DEF IdInv, Tasks, Call
          <5> QED  BY <2>1, <3>1, <4>1, <4>7, <5>1 DEF Tasks, ActionPcs
        <4> QED
          BY <4>1, <4>2, <4>5, <4>6, <4>8, <4>9, <4>10, IdParts
      <3>3. CASE Goes(t)
        <4>1. PICK next \in ActionPcs :
                /\ pc'["httpd"] = next /\ status' = status
                /\ \/ /\ touched' = touched
                      /\ next \in Unacted => pc["httpd"] \in Unacted
                      /\ next = "schedule" /\ Call("httpd").path = "device_restart"
                             => pc["httpd"] \in {"body", "schedule"}
                   \/ touched' = touched \cup {id["httpd"]} /\ next \in {"invalidate", "erase"}
          BY <2>2, <3>3 DEF Goes, Step, CallType, Tasks
        <4>2. touched' \subseteq touched \cup {id["httpd"]} /\ Len(request) \in Nat
          BY <1>0, <4>1
        <4>3. pc'["httpd"] # "idle" /\ id'["httpd"] = Len(request') /\ status'[id'["httpd"]] = 0
          BY <2>1, <3>1, <4>1 DEF IdInv, ActionPcs
        <4>4. ~Free("worker")' => /\ status'[id'["worker"]] = 0
                                  /\ pc'["httpd"] # "idle" => id'["worker"] # id'["httpd"]
          BY <2>1, <3>1, <4>1 DEF IdInv, Free
        <4>5. Queued' => /\ status'[Head(async'.queue)] = 0 /\ Head(async'.queue) \notin touched'
                         /\ pc'["httpd"] # "idle" => Head(async'.queue) # id'["httpd"]
          BY <2>1, <3>1, <4>1, <4>2 DEF IdInv
        <4>6. \A i \in Ids : i > Len(request') => status'[i] = 0 /\ i \notin touched'
          <5>1. \A i \in Ids : i > Len(request) => i # id["httpd"]
            BY <1>0, <3>1
          <5> QED  BY <2>1, <4>1, <4>2, <5>1 DEF IdInv
        <4>7. pc'["worker"] \in Unacted => id'["worker"] \notin touched'
          <5>1. pc["worker"] \in Unacted => ~Free("worker")
            BY DEF CallType, WorkerPcs, Unacted, Free, ActionPcs
          <5>2. pc["worker"] \in Unacted => id["worker"] \notin touched /\ id["worker"] # id["httpd"]
            BY <3>1, <5>1 DEF IdInv, Tasks
          <5> QED  BY <2>1, <3>1, <4>2, <5>2
        <4>8. pc'["worker"] = "schedule" /\ request'[id'["worker"]].path = "device_restart"
              => id'["worker"] \notin touched'
          <5>1. pc["worker"] = "schedule" /\ request[id["worker"]].path = "device_restart"
                => id["worker"] \notin touched /\ id["worker"] # id["httpd"]
            BY <3>1 DEF IdInv, Tasks, Free, ActionPcs, Call
          <5> QED  BY <2>1, <3>1, <4>2, <5>1
        <4>9. pc'["httpd"] \in Unacted => id'["httpd"] \notin touched'
          BY <2>1, <4>1 DEF IdInv, Tasks, Unacted
        <4>10. pc'["httpd"] = "schedule" /\ request'[id'["httpd"]].path = "device_restart"
               => id'["httpd"] \notin touched'
          <5>1. CASE touched' = touched
            BY <2>1, <4>1, <5>1 DEF IdInv, Tasks, Unacted, Call
          <5>2. CASE touched' # touched
            BY <4>1, <5>2
          <5> QED  BY <5>1, <5>2
        <4>11. status' \in [Ids -> Nat]
          BY <4>1 DEF IdInv
        <4>12. \A u \in Tasks : pc'[u] \in Unacted => id'[u] \notin touched'
          BY <4>7, <4>9 DEF Tasks
        <4>13. \A u \in Tasks : pc'[u] = "schedule" /\ request'[id'[u]].path = "device_restart"
                              => id'[u] \notin touched'
          BY <4>8, <4>10 DEF Tasks
        <4> QED
          BY <4>3, <4>4, <4>5, <4>6, <4>11, <4>12, <4>13, IdParts
      <3> QED  BY <2>1, <3>2, <3>3
    <2>3. CASE t = "worker"
      <3>1. /\ pc'["httpd"] = pc["httpd"] /\ ~Free("worker") /\ ~Queued /\ ~Queued'
            /\ pc["httpd"] # "idle" => id["worker"] # id["httpd"] /\ id["httpd"] \in Ids
        BY <1>0, <2>1, <2>3, CallTurn
           DEF IdInv, ClaimInv, Queued, Serves, Free, Tasks, ActionPcs, CallType
      <3>2. CASE Ends(t)
        <4>1. /\ pc'["worker"] = "complete" /\ touched' \subseteq touched \cup {id["worker"]}
              /\ \E code \in Nat : status' = [status EXCEPT ![id["worker"]] = code]
          BY <2>3, <3>2 DEF Ends, Finish, Answer, Step, CallType, Tasks
        <4>2. status' \in [Ids -> Nat] /\ \A i \in Ids : i # id["worker"] => status'[i] = status[i]
          BY <2>1, <2>3, <4>1 DEF IdInv
        <4>3. pc'["httpd"] # "idle" => /\ id'["httpd"] = Len(request') /\ id["httpd"] # id["worker"]
                                       /\ status'[id'["httpd"]] = 0
          BY <2>1, <3>1, <4>2 DEF IdInv
        <4>4. Free("worker")'
          BY <4>1 DEF Free, ActionPcs
        <4>5. \A i \in Ids : i > Len(request') => status'[i] = 0 /\ i \notin touched'
          <5>1. \A i \in Ids : i > Len(request) => i # id["worker"]
            BY <1>0, <2>1, <2>3
          <5> QED  BY <2>1, <4>1, <4>2, <5>1 DEF IdInv
        <4>6. \A u \in Tasks : pc'[u] \in Unacted => id'[u] \notin touched'
          <5>1. pc["httpd"] \in Unacted => pc["httpd"] # "idle" /\ id["httpd"] \notin touched
            BY DEF IdInv, Tasks, Unacted
          <5> QED  BY <2>1, <3>1, <4>1, <4>3, <5>1 DEF Tasks, Unacted
        <4>7. \A u \in Tasks : pc'[u] = "schedule" /\ request'[id'[u]].path = "device_restart"
                              => id'[u] \notin touched'
          <5>1. pc["httpd"] = "schedule" /\ request[id["httpd"]].path = "device_restart"
                => id["httpd"] \notin touched
            BY DEF IdInv, Tasks, Call
          <5> QED  BY <2>1, <3>1, <4>1, <4>3, <5>1 DEF Tasks
        <4> QED
          BY <3>1, <4>2, <4>3, <4>4, <4>5, <4>6, <4>7, IdParts
      <3>3. CASE Goes(t)
        <4>1. PICK next \in ActionPcs :
                /\ pc'["worker"] = next /\ status' = status
                /\ \/ /\ touched' = touched
                      /\ next \in Unacted => pc["worker"] \in Unacted
                      /\ next = "schedule" /\ Call("worker").path = "device_restart"
                             => pc["worker"] \in {"body", "schedule"}
                   \/ touched' = touched \cup {id["worker"]} /\ next \in {"invalidate", "erase"}
          BY <2>3, <3>3 DEF Goes, Step, CallType, Tasks
        <4>2. pc'["worker"] \in ActionPcs /\ pc["worker"] \in ActionPcs
              /\ (pc'["httpd"] # "idle" => id["worker"] # id["httpd"])
          BY <2>1, <2>3, <3>1, <4>1
        <4>3. touched' \subseteq touched \cup {id["worker"]} /\ Len(request) \in Nat
          BY <1>0, <4>1
        <4>4. \A i \in Ids : i > Len(request) => i # id["worker"]
          BY <1>0, <2>1, <2>3
        <4>5. \A i \in Ids : i > Len(request') => status'[i] = 0 /\ i \notin touched'
          BY <2>1, <4>1, <4>3, <4>4 DEF IdInv
        <4>6. ~Free("worker")' => /\ status'[id'["worker"]] = 0
                                  /\ pc'["httpd"] # "idle" => id'["worker"] # id'["httpd"]
          BY <2>1, <3>1, <4>1, <4>2 DEF IdInv
        <4>7. pc'["httpd"] \in Unacted => id'["httpd"] \notin touched'
          <5>1. pc'["httpd"] \in Unacted => id["httpd"] \notin touched /\ id["httpd"] # id["worker"]
            BY <3>1, <4>2 DEF IdInv, Tasks, Unacted
          <5> QED  BY <2>1, <4>3, <5>1
        <4>8. pc'["worker"] \in Unacted => id'["worker"] \notin touched'
          BY <2>1, <4>1 DEF IdInv, Tasks, Unacted
        <4>9. pc'["httpd"] = "schedule" /\ Call("httpd")'.path = "device_restart"
              => id'["httpd"] \notin touched'
          <5>1. Call("httpd")' = Call("httpd")
            BY <2>1 DEF Call
          <5>2. pc'["httpd"] = "schedule" /\ Call("httpd").path = "device_restart"
                => id["httpd"] \notin touched /\ id["httpd"] # id["worker"]
            BY <3>1, <4>2 DEF IdInv, Tasks
          <5> QED  BY <2>1, <4>3, <5>1, <5>2
        <4>10. pc'["worker"] = "schedule" /\ Call("worker")'.path = "device_restart"
               => id'["worker"] \notin touched'
          <5>1. Call("worker")' = Call("worker")
            BY <2>1 DEF Call
          <5>2. CASE touched' = touched
            BY <2>1, <4>1, <5>1, <5>2 DEF IdInv, Tasks, Unacted
          <5>3. CASE touched' # touched
            BY <4>1, <5>3
          <5> QED  BY <5>2, <5>3
        <4>11. status' \in [Ids -> Nat] /\ (pc'["httpd"] # "idle" => id'["httpd"] = Len(request')
                                            /\ status'[id'["httpd"]] = 0)
          BY <2>1, <3>1, <4>1 DEF IdInv
        <4>12. \A u \in Tasks : pc'[u] \in Unacted => id'[u] \notin touched'
          BY <4>7, <4>8 DEF Tasks
        <4>13. \A u \in Tasks : pc'[u] = "schedule" /\ request'[id'[u]].path = "device_restart"
                              => id'[u] \notin touched'
          BY <4>9, <4>10 DEF Tasks, Call
        <4> QED
          BY <3>1, <4>5, <4>6, <4>11, <4>12, <4>13, IdParts
      <3> QED  BY <2>1, <3>2, <3>3
    <2> QED  BY <2>2, <2>3 DEF Tasks
  <1> QED
    BY <1>1, <1>2, <1>3, <1>4, <1>5, <1>6, <1>7, <1>8, <1>9, <1>10, StepKinds DEF Httpd,
       Worker

-----------------------------------------------------------------------------
(* One action at a time.                                                    *)

\* The program counters of a call that is past its admission.
Admitted == ActionPcs \ {"policy"}

\* A step of no call: nothing takes effect.
Quiet ==
    /\ UNCHANGED <<policy, outcome, restart, latch, store, acted, touched>>
    /\ faults' \in {faults, faults + 1} /\ sessions' \subseteq sessions \cup {LateSession}
    /\ \A t \in Tasks : pc[t] \in Admitted \/ pc'[t] \in Admitted
                          => pc'[t] = pc[t] /\ id'[t] = id[t]

LEMMA QuietStep ==
    ASSUME CallType, ClaimInv, [Next]_vars
    PROVE  Quiet \/ \E t \in Tasks : Handle(t)
  <1>1. CASE Elsewhere
    BY <1>1 DEF Elsewhere, Quiet, callVars
  <1>2. CASE AsyncStart
    <2>1. pc["worker"] \notin Admitted
      BY <1>2 DEF AsyncStart, StartStep, StartFails, ClaimInv, EarlyPcs, StartPcs,
         Admitted, ActionPcs
    <2> QED
      BY <1>2, <2>1 DEF AsyncStart, StartStep, StartFails, Works, Fault, Quiet, CallType,
         Tasks,
         Admitted, ActionPcs, effectVars, historyVars
  <1>3. CASE Arrive
    BY <1>3 DEF Arrive, Step, Quiet, CallType, Tasks, Admitted, ActionPcs, effectVars,
       historyVars
  <1>4. CASE Guard
    BY <1>4 DEF Guard, Refuse, Step, Works, Fault, Quiet, CallType, Tasks, Admitted,
       ActionPcs,
       effectVars
  <1>5. CASE Claim
    BY <1>5 DEF Claim, Refuse, Step, Quiet, CallType, Tasks, Admitted, ActionPcs,
       effectVars,
       historyVars
  <1>6. CASE ReadBody
    BY <1>6 DEF ReadBody, Refuse, Step, Works, Fault, Quiet, CallType, Tasks, Admitted,
       ActionPcs,
       effectVars, historyVars
  <1>7. CASE Enqueue
    BY <1>7 DEF Enqueue, Refuse, Step, Quiet, CallType, Tasks, Admitted, ActionPcs,
       effectVars
  <1>8. CASE WorkerReceive
    BY <1>8 DEF WorkerReceive, Step, Quiet, CallType, Tasks, Admitted, ActionPcs,
       effectVars,
       historyVars
  <1>9. CASE WorkerComplete \/ WorkerStop
    BY <1>9 DEF WorkerComplete, WorkerStop, Step, Quiet, CallType, Tasks, Admitted,
       ActionPcs,
       effectVars, historyVars
  <1> QED
    BY <1>1, <1>2, <1>3, <1>4, <1>5, <1>6, <1>7, <1>8, <1>9, StepKinds DEF Httpd, Worker

\* With the confirmation only the worker acts, without it only the HTTP task.
LEMMA Alone ==
    ASSUME HttpdInv, SerialInv, CallType, NEW t \in Tasks, NEW u \in Tasks, t # u,
           pc[t] \in Admitted
    PROVE  pc[u] \notin Admitted
  BY DEF HttpdInv, SerialInv, Free, Admitted, Tasks

\* Where the action of another task is, this one only decides on its admission.
LEMMA Bystander ==
    ASSUME HttpdInv, SerialInv, CallType, NEW t \in Tasks, NEW u \in Tasks, t # u,
           pc[u] \in Admitted, Handle(t)
    PROVE  /\ UNCHANGED <<policy, outcome, restart, latch, store, acted, touched, faults, sessions>>
           /\ pc'[u] = pc[u] /\ id' = id
  <1>1. pc[t] \notin Admitted
    BY Alone
  <1>2. Policy(t)
    BY <1>1 DEF Handle, WaitEntry, WaitTake, WaitTimeout, Body, ApplyReset, MarkPending,
       Erase,
       Invalidate, DeleteBlobs, Schedule, ClearPending, Admitted, ActionPcs
  <1> QED
    BY <1>2 DEF Policy, Finish, Step, CallType, Tasks, effectVars, historyVars

-----------------------------------------------------------------------------
(* How far an action has come.                                              *)

Acting == {"apply", "invalidate", "erase", "delete", "schedule", "clear"}

LEMMA StageKept ==
    ASSUME NEW t \in Tasks, Stage(t), UNCHANGED <<outcome, store, restart, latch>>,
           touched \subseteq touched', pc'[t] = pc[t], id'[t] = id[t],
           request'[id[t]] = request[id[t]]
    PROVE  Stage(t)'
  BY DEF Stage, Call

LEMMA NotActing ==
    ASSUME NEW t \in Tasks, pc'[t] \notin Acting
    PROVE  Stage(t)'
  BY DEF Stage, Acting

\* The stage the acting task comes to.
LEMMA NextStage ==
    ASSUME CallType, StageInv, NEW t \in Tasks, Handle(t)
    PROVE  Stage(t)'
  <1>0. pc[t] \in ActionPcs /\ id' = id /\ request' = request /\ Call(t)' = Call(t)
        /\ pc \in [Tasks -> HttpdPcs \cup WorkerPcs] /\ Call(t).path \in DeviceActions
    BY HandleMoves, CallPath DEF Call, CallType
  <1>1. CASE Policy(t) \/ WaitEntry(t) \/ WaitTake(t) \/ WaitTimeout(t)
    <2>1. pc'[t] \notin Acting
      BY <1>0, <1>1 DEF Policy, WaitEntry, WaitTake, WaitTimeout, Finish, Step, Acting
    <2> QED  BY <2>1, NotActing
  <1>2. CASE Body(t)
    <2>1. \/ pc'[t] \notin Acting
          \/ pc'[t] = "schedule" /\ Call(t).path = "device_restart"
          \/ pc'[t] = "apply" /\ Call(t).path # "device_restart" /\ outcome' = Coherent
      BY <1>0, <1>2 DEF Body, Finish, Step, Acting
    <2> QED  BY <1>0, <2>1, NotActing DEF Stage
  <1>3. CASE ApplyReset(t)
    <2>1. \/ pc'[t] \notin Acting
          \/ /\ pc'[t] = "invalidate" /\ outcome' = [outcome EXCEPT !.applied = TRUE]
             /\ touched' = touched \cup {id[t]} /\ Call(t).path = "device_reset_settings" /\ latch'
      BY <1>0, <1>3 DEF ApplyReset, Finish, Step, Acting
    <2>2. outcome = Coherent
      BY <1>3 DEF ApplyReset, StageInv, Stage
    <2> QED  BY <1>0, <2>1, <2>2, NotActing DEF Stage, Coherent
  <1>4. CASE MarkPending(t)
    <2>1. \/ pc'[t] \notin Acting
          \/ /\ pc'[t] = "erase" /\ outcome' = outcome /\ store' = [store EXCEPT !.pending = TRUE]
             /\ touched' = touched \cup {id[t]} /\ Call(t).path = "device_factory_reset"
      BY <1>0, <1>4 DEF MarkPending, Finish, Step, Acting
    <2>2. (outcome = Coherent /\ store'.pending) \/ pc'[t] \notin Acting
      BY <1>4, <2>1 DEF MarkPending, StageInv, Stage
    <2> QED  BY <1>0, <2>1, <2>2, NotActing DEF Stage
  <1>5. CASE Erase(t)
    <2>0. /\ Call(t).path = "device_factory_reset" /\ store.pending /\ id[t] \in touched
          /\ outcome = Coherent /\ touched' = touched
      BY <1>5 DEF Erase, StageInv, Stage, historyVars
    <2>1. \/ /\ pc'[t] = "invalidate" /\ outcome' = outcome
             /\ store'.settings = "erased" /\ store'.pending
          \/ /\ pc'[t] = "schedule" /\ outcome'.primary = "COMMIT_UNCERTAIN"
             /\ store'.pending = store.pending
      BY <1>0, <1>5, <2>0 DEF Erase, Step, StageInv, First, Coherent
    <2>2. CASE pc'[t] = "invalidate"
      <3>1. /\ outcome'.primary = "NONE" /\ ~outcome'.invalidated /\ outcome'.applied = FALSE
            /\ store'.settings = "erased" /\ store'.pending
        BY <2>0, <2>1, <2>2 DEF Coherent
      <3> QED  BY <1>0, <2>0, <2>2, <3>1 DEF Stage
    <2>3. CASE pc'[t] = "schedule"
      <3>1. outcome'.primary # "NONE" /\ store'.pending
        BY <2>0, <2>1, <2>3
      <3> QED  BY <1>0, <2>0, <2>3, <3>1 DEF Stage
    <2> QED  BY <2>1, <2>2, <2>3
  <1>6. CASE Invalidate(t)
    <2>0. /\ id[t] \in touched /\ touched' = touched /\ store' = store
          /\ Call(t).path # "device_restart" /\ outcome.primary = "NONE" /\ ~outcome.invalidated
          /\ outcome.applied = (Call(t).path = "device_reset_settings")
          /\ Call(t).path = "device_factory_reset" => store.pending /\ store.settings = "erased"
          /\ Call(t).path = "device_reset_settings" => latch'
      BY <1>6 DEF Invalidate, StageInv, Stage, historyVars
    <2>1. /\ outcome'.applied = outcome.applied
          /\ outcome'.invalidated <=> outcome'.primary = "NONE"
          /\ pc'[t] = IF Call(t).path = "device_factory_reset" THEN "delete" ELSE "schedule"
      BY <1>0, <1>6, <2>0 DEF Invalidate, Step, StageInv, First
    <2> QED  BY <1>0, <2>0, <2>1 DEF Stage
  <1>7. CASE DeleteBlobs(t)
    <2>0. /\ id[t] \in touched /\ touched' = touched /\ store.pending
          /\ Call(t).path = "device_factory_reset"
          /\ outcome.primary = "NONE" => store.settings = "erased"
      BY <1>7 DEF DeleteBlobs, StageInv, Stage, historyVars
    <2>1. /\ pc'[t] = "schedule" /\ store'.pending /\ store'.settings = store.settings
          /\ outcome'.primary = "NONE" => outcome.primary = "NONE"
      BY <1>0, <1>7, <2>0 DEF DeleteBlobs, Step, StageInv, First
    <2> QED  BY <1>0, <2>0, <2>1 DEF Stage
  <1>8. CASE Schedule(t)
    <2>0. UNCHANGED <<outcome, store, touched, latch>> /\ pc[t] = "schedule"
      BY <1>8 DEF Schedule
    <2>1. \/ pc'[t] \notin Acting
          \/ /\ pc'[t] = "clear" /\ restart' /\ Call(t).path = "device_factory_reset"
             /\ outcome.primary = "NONE"
          \/ pc'[t] = "schedule"
      BY <1>0, <1>8 DEF Schedule, Finish, Step, Acting
    <2>2. CASE pc'[t] = "clear"
      <3>1. id[t] \in touched /\ store.pending /\ store.settings = "erased"
        BY <2>0, <2>1, <2>2 DEF StageInv, Stage, Acting
      <3> QED  BY <1>0, <2>0, <2>1, <2>2, <3>1 DEF Stage, Acting
    <2>3. CASE pc'[t] = "schedule"
      BY <1>0, <2>0, <2>3 DEF StageInv, Stage
    <2> QED  BY <2>1, <2>2, <2>3, NotActing
  <1>9. CASE ClearPending(t)
    <2>1. pc'[t] \notin Acting
      BY <1>0, <1>9 DEF ClearPending, Finish, Step, Acting
    <2> QED  BY <2>1, NotActing
  <1> QED
    BY <1>1, <1>2, <1>3, <1>4, <1>5, <1>6, <1>7, <1>8, <1>9 DEF Handle

LEMMA OutcomeStep ==
    ASSUME CallType, ClaimInv, StageInv, [Next]_vars
    PROVE  /\ outcome' \in [applied : BOOLEAN, invalidated : BOOLEAN,
                            primary : Errors]
           /\ store' \in [settings : {"custom", "default", "erased"}, blobs : BOOLEAN,
                          pending : BOOLEAN]
  <1>1. CASE Quiet
    BY <1>1 DEF Quiet, StageInv
  <1>2. ASSUME NEW t \in Tasks, Handle(t)
        PROVE  /\ outcome' \in [applied : BOOLEAN, invalidated : BOOLEAN,
                                primary : Errors]
               /\ store' \in [settings : {"custom", "default", "erased"}, blobs : BOOLEAN,
                              pending : BOOLEAN]
    <2>0. CASE Body(t)
      <3>1. outcome' = Coherent /\ store' = store
        BY <2>0 DEF Body, effectVars
      <3> QED  BY <3>1 DEF Coherent, StageInv, Errors
    <2>1. CASE Policy(t) \/ WaitEntry(t) \/ WaitTake(t) \/ WaitTimeout(t)
      <3>1. outcome' = outcome /\ store' = store
        BY <2>1 DEF Policy, WaitEntry, WaitTake, WaitTimeout, effectVars
      <3> QED  BY <3>1 DEF StageInv
    <2>2. CASE ApplyReset(t) \/ MarkPending(t)
      <3>1. outcome' \in {outcome, [outcome EXCEPT !.applied = TRUE]}
        BY <2>2 DEF ApplyReset, MarkPending
      <3>2. store' \in {store, [store EXCEPT !.settings = "default"],
                        [store EXCEPT !.pending = TRUE]}
        BY <2>2 DEF ApplyReset, MarkPending
      <3> QED  BY <3>1, <3>2 DEF StageInv
    <2>3. CASE Erase(t) \/ Invalidate(t)
      BY <2>3 DEF Erase, Invalidate, First, StageInv, Errors
    <2>4. CASE DeleteBlobs(t)
      BY <2>4 DEF DeleteBlobs, First, StageInv, Errors
    <2>5. CASE Schedule(t) \/ ClearPending(t)
      BY <2>5 DEF Schedule, ClearPending, StageInv
    <2> QED  BY <1>2, <2>0, <2>1, <2>2, <2>3, <2>4, <2>5 DEF Handle
  <1> QED  BY <1>1, <1>2, QuietStep

LEMMA StageStep ==
    ASSUME CallType, HttpdInv, SerialInv, ClaimInv, StageInv, [Next]_vars
    PROVE  StageInv'
  <1> SUFFICES ASSUME NEW u \in Tasks PROVE Stage(u)'
    BY OutcomeStep DEF StageInv
  <1>1. Stage(u)
    BY DEF StageInv
  <1>2. pc[u] \in ActionPcs => request'[id[u]] = request[id[u]]
    BY RequestKept, CallPath
  <1>3. CASE Quiet
    <2>1. CASE pc'[u] \in Admitted
      BY <1>1, <1>2, <1>3, <2>1, StageKept DEF Quiet, Admitted
    <2>2. CASE pc'[u] \notin Admitted
      BY <2>2, NotActing DEF Admitted, ActionPcs, Acting
    <2> QED  BY <2>1, <2>2
  <1>4. ASSUME NEW t \in Tasks, Handle(t), t # u PROVE Stage(u)'
    <2>1. CASE pc[u] \in Admitted
      BY <1>1, <1>2, <1>4, <2>1, Bystander, StageKept DEF Admitted
    <2>2. CASE pc[u] \notin Admitted
      BY <1>4, <2>2, HandleMoves, CallTurn, NotActing DEF Admitted, ActionPcs, Acting
    <2> QED  BY <2>1, <2>2
  <1> QED  BY <1>3, <1>4, NextStage, QuietStep

-----------------------------------------------------------------------------
(* What the steps do to the sessions and to the record of what has acted.   *)

\* An action that begins: a reset closes the API with the latch or the marker.
Begins(t) ==
    /\ acted' = Append(acted, id[t])
    /\ \/ /\ pc[t] = "apply" /\ Call(t).path # "device_restart"
          /\ \/ pc'[t] = "invalidate" /\ latch'
             \/ pc'[t] = "erase" /\ store'.pending
       \/ pc[t] = "schedule" /\ Call(t).path = "device_restart"

LEMMA Effects ==
    ASSUME CallType, StageInv, NEW t \in Tasks, Handle(t)
    PROVE  /\ faults' \in {faults, faults + 1} /\ sessions' \in {sessions, {}}
           /\ latch => latch'
           /\ restart => restart'
           /\ acted' = acted \/ Begins(t)
           /\ store.pending => store'.pending \/ pc[t] = "clear"
  <1>0. pc \in [Tasks -> HttpdPcs \cup WorkerPcs]
    BY DEF CallType
  <1>1. CASE Policy(t) \/ WaitEntry(t) \/ WaitTake(t) \/ WaitTimeout(t)
    BY <1>1 DEF Policy, WaitEntry, WaitTake, WaitTimeout, effectVars, historyVars
  <1>2. CASE Body(t)
    BY <1>2 DEF Body, effectVars, historyVars, Works, Fault
  <1>3. CASE ApplyReset(t)
    BY <1>0, <1>3, SMTT(30) DEF ApplyReset, Works, Fault, Begin, Begins, Step, StageInv
  <1>4. CASE MarkPending(t)
    BY <1>0, <1>4 DEF MarkPending, Works, Fault, Begin, Begins, Step, StageInv
  <1>5. CASE Erase(t) \/ Invalidate(t) \/ DeleteBlobs(t)
    BY <1>5 DEF Erase, Invalidate, DeleteBlobs, Works, Fault, historyVars, StageInv
  <1>6. CASE Schedule(t)
    BY <1>6 DEF Schedule, Works, Fault, Begins
  <1>7. CASE ClearPending(t)
    BY <1>7 DEF ClearPending, Works, Fault, historyVars
  <1> QED
    BY <1>1, <1>2, <1>3, <1>4, <1>5, <1>6, <1>7 DEF Handle

LEMMA CleanStays ==
    ASSUME CallType, ClaimInv, StageInv, [Next]_vars
    PROVE  Clean => Clean'
  BY QuietStep, Effects, SessionAssumption DEF Quiet, Clean

LEMMA FaultsGrow ==
    ASSUME CallType, ClaimInv, StageInv, [Next]_vars
    PROVE  faults' \in {faults, faults + 1} /\ (latch => latch')
  BY QuietStep, Effects DEF Quiet

LEMMA ActedGrows ==
    ASSUME CallType, ClaimInv, StageInv, [Next]_vars
    PROVE  acted' = acted \/ \E t \in Tasks : Handle(t) /\ Begins(t)
  BY QuietStep, Effects DEF Quiet

\* The guard notes how many actions there have been; nothing else does.
LEMMA GuardedKept ==
    ASSUME CallType, StageInv, [Next]_vars
    PROVE  \/ guardedAt' = guardedAt
           \/ /\ Guard /\ pc["httpd"] = "guard"
              /\ guardedAt' = [guardedAt EXCEPT ![id["httpd"]] = Len(acted)]
  <1>1. CASE AsyncStart \/ Arrive \/ Claim \/ ReadBody \/ Enqueue
    BY <1>1 DEF AsyncStart, Arrive, Claim, ReadBody, Enqueue, historyVars
  <1>2. CASE Worker
    BY <1>2 DEF Worker, WorkerReceive, WorkerComplete, WorkerStop, historyVars
  <1> QED
    BY <1>1, <1>2, StepKinds, HandleMoves DEF Elsewhere, Httpd, Guard

\* A reset that takes effect is the latest of them.
LEMMA ResetsGrow ==
    ASSUME CallType, HistoryType, ClaimInv, StageInv, SessionInv, [Next]_vars
    PROVE  /\ \A k \in DOMAIN acted' : acted'[k] \in 1 .. Len(request')
           /\ \A k \in DOMAIN acted : acted'[k] = acted[k] /\ k \in DOMAIN acted'
           /\ \/ Resets' = Resets
              \/ /\ Resets' = Resets \cup {Len(acted) + 1}
                 /\ \E t \in Tasks : /\ Handle(t) /\ pc[t] = "apply"
                                     /\ \/ pc'[t] = "invalidate" /\ latch'
                                        \/ pc'[t] = "erase" /\ store'.pending
  <1>0. /\ acted \in Seq(Nat) /\ Len(acted) \in Nat /\ DOMAIN acted = 1 .. Len(acted)
        /\ \A k \in DOMAIN acted : acted[k] \in 1 .. Len(request)
        /\ Len(request) \in Nat
    BY DEF HistoryType, SessionInv, CallType
  <1>1. /\ \A i \in 1 .. Len(request) : request'[i] = request[i] /\ i \in 1 .. Len(request')
    <2>1. request' = request \/ \E r \in Requests : request' = Append(request, r)
      BY StepKinds, HandleMoves DEF Elsewhere, AsyncStart, Arrive, Httpd, Worker, Guard,
         Claim,
         ReadBody, Enqueue, WorkerReceive, WorkerComplete, WorkerStop, callVars
    <2> QED  BY <1>0, <2>1, AppendProperties, SMTT(30) DEF CallType
  <1>2. CASE acted' = acted
    <2>1. Resets' = Resets
      BY <1>0, <1>1, <1>2 DEF Resets
    <2> QED  BY <1>0, <1>1, <1>2, <2>1
  <1>3. ASSUME NEW t \in Tasks, Handle(t), Begins(t)
        PROVE  /\ \A k \in DOMAIN acted' : acted'[k] \in 1 .. Len(request')
               /\ \A k \in DOMAIN acted : acted'[k] = acted[k] /\ k \in DOMAIN acted'
               /\ \/ Resets' = Resets
                  \/ /\ Resets' = Resets \cup {Len(acted) + 1}
                     /\ \E u \in Tasks : /\ Handle(u) /\ pc[u] = "apply"
                                         /\ \/ pc'[u] = "invalidate" /\ latch'
                                            \/ pc'[u] = "erase" /\ store'.pending
    <2>1. id[t] \in 1 .. Len(request) /\ id[t] \in Nat /\ request' = request
      BY <1>3, HandleMoves, CallPath
    <2>2. /\ acted' = Append(acted, id[t]) /\ DOMAIN acted' = 1 .. (Len(acted) + 1)
          /\ \A k \in 1 .. Len(acted) : acted'[k] = acted[k]
          /\ acted'[Len(acted) + 1] = id[t]
      BY <1>0, <1>3, <2>1, AppendProperties DEF Begins
    <2>3. CASE Call(t).path = "device_restart"
      <3>1. Resets' = Resets
        BY <1>0, <2>1, <2>2, <2>3 DEF Resets, Call
      <3> QED  BY <1>0, <2>1, <2>2, <3>1
    <2>4. CASE Call(t).path # "device_restart"
      <3>1. Resets' = Resets \cup {Len(acted) + 1}
        BY <1>0, <2>1, <2>2, <2>4 DEF Resets, Call
      <3> QED  BY <1>0, <1>3, <2>1, <2>2, <2>4, <3>1 DEF Begins
    <2> QED  BY <2>3, <2>4
  <1> QED  BY <1>2, <1>3, ActedGrows

\* Passed(i) and Entitled(i) in the next state.
PassedNext(i)   == \A k \in Resets' : k <= guardedAt'[i] => Clean'
EntitledNext(i) == \A k \in Resets' : \/ request'[i].cookie \notin Sessions
                                      \/ guardedAt'[i] < k /\ faults' > 0

LEMMA PassedKept ==
    ASSUME CallType, HistoryType, ClaimInv, StageInv, SessionInv, [Next]_vars,
           NEW i \in Ids, Passed(i), guardedAt'[i] = guardedAt[i]
    PROVE  PassedNext(i)
  <1>1. /\ guardedAt[i] <= Len(acted) /\ guardedAt[i] \in Nat /\ Len(acted) \in Nat
    BY DEF SessionInv, HistoryType
  <1>2. Resets' \subseteq Resets \cup {Len(acted) + 1}
    BY ResetsGrow
  <1> QED  BY <1>1, <1>2, CleanStays DEF Passed, PassedNext

LEMMA EntitledKept ==
    ASSUME CallType, ClaimInv, StageInv, SessionInv, [Next]_vars,
           NEW i \in 1 .. Len(request), Entitled(i), guardedAt'[i] = guardedAt[i], Resets' = Resets
    PROVE  EntitledNext(i)
  <1>1. request'[i] = request[i]
    BY RequestKept
  <1>2. faults > 0 => faults' > 0
    BY FaultsGrow DEF SessionInv
  <1> QED  BY <1>1, <1>2 DEF Entitled, EntitledNext

\* Which call is where: it came there by a step of its own.
LEMMA HttpdBefore ==
    ASSUME CallType, AsyncType, StageInv, [Next]_vars
    PROVE  LET before == {"claim", "read_body", "enqueue", "policy"} IN
           /\ pc'["httpd"] \in before
              => /\ id'["httpd"] = id["httpd"]
                 /\ pc["httpd"] \in before \/ (Guard /\ ~latch /\ ~store.pending)
           /\ Queued' => \/ Queued /\ async'.queue = async.queue
                         \/ pc["httpd"] = "enqueue" /\ async'.queue = <<id["httpd"]>>
           /\ pc'["worker"] = "policy"
              => \/ pc["worker"] = "policy" /\ id'["worker"] = id["worker"]
                 \/ Queued /\ id'["worker"] = Head(async.queue)
  <1> USE DEF Queued
  <1>1. CASE Elsewhere /\ (UNCHANGED async \/ AsyncStop \/ AsyncWait)
    BY <1>1, StopKeepsQueue DEF Elsewhere, callVars
  <1>2. CASE AsyncStart
    BY <1>2 DEF AsyncStart, NoAsync, CallType, Tasks
  <1>3. CASE Arrive
    BY <1>3 DEF Arrive, Step, CallType, Tasks, serverVars
  <1>4. CASE Guard
    BY <1>4 DEF Guard, Refuse, Step, CallType, Tasks, serverVars
  <1>5. CASE Claim
    BY <1>5 DEF Claim, Refuse, Step, CallType, AsyncType, Tasks
  <1>6. CASE ReadBody
    BY <1>6 DEF ReadBody, Refuse, Step, CallType, AsyncType, Tasks
  <1>7. CASE Enqueue
    BY <1>7 DEF Enqueue, Refuse, Step, CallType, AsyncType, Tasks
  <1>8. CASE WorkerReceive
    BY <1>8 DEF WorkerReceive, Step, CallType, AsyncType, Tasks
  <1>9. CASE WorkerComplete \/ WorkerStop
    BY <1>9 DEF WorkerComplete, WorkerStop, Step, CallType, AsyncType, Tasks
  <1>10. ASSUME NEW t \in Tasks, Handle(t)
         PROVE  /\ UNCHANGED <<async, id>>
                /\ pc'["httpd"] \in {"claim", "read_body", "enqueue", "policy"}
                       => pc'["httpd"] = pc["httpd"]
                /\ pc'["worker"] = "policy" => pc["worker"] = "policy"
    <2>1. UNCHANGED <<async, id>> /\ \A u \in Tasks : u # t => pc'[u] = pc[u]
      BY <1>10, HandleMoves, CallTurn
    <2>2. pc'[t] \notin {"claim", "read_body", "enqueue", "policy"}
      BY <1>10 DEF Handle, Policy, WaitEntry, WaitTake, WaitTimeout, Body, ApplyReset,
         MarkPending,
         Erase, Invalidate, DeleteBlobs, Schedule, ClearPending, Finish, Step, CallType
    <2> QED  BY <2>1, <2>2 DEF Tasks
  <1> QED
    BY <1>1, <1>2, <1>3, <1>4, <1>5, <1>6, <1>7, <1>8, <1>9, <1>10, StepKinds DEF Httpd,
       Worker

\* SessionInv, conjunct by conjunct.
LEMMA ResetsClose ==
    ASSUME CallType, HistoryType, ClaimInv, StageInv, SessionInv, [Next]_vars
    PROVE  (Resets # {} /\ ~latch /\ ~store.pending => Clean)'
  <1>1. SUFFICES ASSUME Resets' # {}, ~latch', ~store'.pending PROVE Clean'
    OBVIOUS
  <1>2. Resets' = Resets /\ ~latch
    BY <1>1, ResetsGrow, FaultsGrow
  <1>3. CASE ~store.pending
    BY <1>1, <1>2, <1>3, CleanStays DEF SessionInv
  <1>4. CASE store.pending
    <2>1. PICK t \in Tasks : Handle(t) /\ pc[t] = "clear"
      BY <1>1, <1>4, QuietStep, Effects DEF Quiet
    <2>2. Clean
      BY <2>1 DEF StageInv, Stage, SessionInv, PastSessions, Late
    <2> QED  BY <2>2, CleanStays
  <1> QED  BY <1>3, <1>4

LEMMA NoFaultNoGap ==
    ASSUME CallType, HistoryType, HttpdInv, SerialInv, ClaimInv, StageInv, SessionInv, [Next]_vars
    PROVE  (faults = 0 /\ Resets # {} => Clean \/ \E t \in Tasks : pc[t] \in {"erase", "invalidate"})'
  <1>1. SUFFICES ASSUME faults' = 0, Resets' # {}
                 PROVE  Clean' \/ \E t \in Tasks : pc'[t] \in {"erase", "invalidate"}
    OBVIOUS
  <1>2. faults = 0
    BY <1>1, FaultsGrow DEF SessionInv
  <1>3. CASE Resets' # Resets
    BY <1>3, ResetsGrow
  <1>4. CASE Resets' = Resets /\ Clean
    BY <1>4, CleanStays
  <1>5. ASSUME NEW u \in Tasks, pc[u] \in {"erase", "invalidate"}
        PROVE  Clean' \/ pc'[u] \in {"erase", "invalidate"}
    <2>1. pc[u] \in Admitted
      BY <1>5 DEF Admitted, ActionPcs
    <2>2. CASE Quiet
      BY <1>5, <2>1, <2>2 DEF Quiet
    <2>3. ASSUME NEW t \in Tasks, Handle(t), t # u PROVE pc'[u] = pc[u]
      BY <2>1, <2>3, Bystander
    <2>4. CASE Handle(u)
      <3>1. faults' # faults + 1
        BY <1>1, <1>2
      <3>2. CASE pc[u] = "erase"
        <4>1. Erase(u)
          BY <2>4, <3>2 DEF Handle, Policy, WaitEntry, WaitTake, WaitTimeout, Body,
             ApplyReset,
             MarkPending, Invalidate, DeleteBlobs, Schedule, ClearPending
        <4> QED  BY <3>1, <4>1 DEF Erase, Fault, Step, CallType
      <3>3. CASE pc[u] = "invalidate"
        <4>1. Invalidate(u)
          BY <2>4, <3>3 DEF Handle, Policy, WaitEntry, WaitTake, WaitTimeout, Body,
             ApplyReset,
             MarkPending, Erase, DeleteBlobs, Schedule, ClearPending
        <4> QED  BY <3>1, <4>1 DEF Invalidate, Fault, Clean
      <3> QED  BY <1>5, <3>2, <3>3
    <2> QED  BY <1>5, <2>2, <2>3, <2>4, QuietStep
  <1> QED  BY <1>1, <1>2, <1>3, <1>4, <1>5 DEF SessionInv

LEMMA LateIsClean ==
    ASSUME CallType, HistoryType, HttpdInv, SerialInv, ClaimInv, StageInv, SessionInv, [Next]_vars
    PROVE  (\A t \in Tasks : PastSessions(t) => Clean)'
  <1> SUFFICES ASSUME NEW u \in Tasks, pc'[u] \in Late, outcome'.primary = "NONE",
                      request'[id'[u]].path # "device_restart"
               PROVE  Clean'
    BY DEF PastSessions, Call
  <1>0. Late \subseteq Admitted /\ Admitted \subseteq ActionPcs
    BY DEF Late, Admitted, ActionPcs
  <1>1. pc[u] \in Late /\ id'[u] = id[u] /\ outcome'.primary = outcome.primary => Clean'
    BY <1>0, RequestKept, CallPath, CleanStays DEF SessionInv, PastSessions, Call
  <1>2. CASE Quiet
    BY <1>0, <1>1, <1>2 DEF Quiet
  <1>3. ASSUME NEW t \in Tasks, Handle(t), t # u PROVE Clean'
    <2>1. pc'[u] = pc[u]
      BY <1>3, HandleMoves, CallTurn
    <2> QED  BY <1>0, <1>1, <1>3, <2>1, Bystander
  <1>4. CASE Handle(u)
    <2>0. /\ id' = id /\ request' = request /\ pc[u] \in ActionPcs
          /\ pc \in [Tasks -> HttpdPcs \cup WorkerPcs]
          /\ Call(u).path # "device_restart" /\ Call(u).path \in DeviceActions
      BY <1>4, HandleMoves, CallPath DEF Call, CallType
    <2>1. CASE pc[u] \in Late
      <3>1. outcome.primary = "NONE"
        <4>1. DeleteBlobs(u) \/ Schedule(u) \/ ClearPending(u)
          BY <1>4, <2>1 DEF Handle, Policy, WaitEntry, WaitTake, WaitTimeout, Body,
             ApplyReset,
             MarkPending, Erase, Invalidate, Late
        <4> QED  BY <4>1 DEF DeleteBlobs, Schedule, ClearPending, First, StageInv
      <3> QED  BY <1>1, <2>0, <2>1, <3>1
    <2>2. CASE pc[u] \notin Late
      <3>1. Erase(u) \/ Invalidate(u)
        BY <1>4, <2>0, <2>2 DEF Handle, Policy, WaitEntry, WaitTake, WaitTimeout, Body,
           ApplyReset,
           MarkPending, DeleteBlobs, Schedule, ClearPending, Late, Finish, Step
      <3>2. ~Erase(u)
        BY <2>0 DEF Erase, Late, Step, First, StageInv
      <3>3. Invalidate(u) => sessions' = {}
        BY DEF Invalidate, First, StageInv
      <3> QED  BY <3>1, <3>2, <3>3 DEF Clean
    <2> QED  BY <2>1, <2>2
  <1> QED  BY <1>2, <1>3, <1>4, QuietStep

LEMMA QueuePassed ==
    ASSUME CallType, AsyncType, HistoryType, ClaimInv, IdInv, StageInv, SessionInv, [Next]_vars
    PROVE  /\ pc'["httpd"] \in {"claim", "read_body", "enqueue", "policy"} => PassedNext(id'["httpd"])
           /\ Queued' => PassedNext(Head(async'.queue))
           /\ pc'["worker"] = "policy" => PassedNext(id'["worker"])
  <1>0. Len(request) \in Nat /\ 1 .. Len(request) \subseteq Ids
    BY BoundAssumption DEF CallType, Ids
  <1>1. ASSUME NEW i \in Ids, Passed(i), pc["httpd"] # "guard" \/ i # id["httpd"] PROVE PassedNext(i)
    <2>1. guardedAt'[i] = guardedAt[i]
      BY <1>1, GuardedKept DEF SessionInv
    <2> QED  BY <1>1, <2>1, PassedKept
  <1>2. ASSUME pc'["httpd"] \in {"claim", "read_body", "enqueue", "policy"} PROVE PassedNext(id'["httpd"])
    <2>1. CASE pc["httpd"] \in {"claim", "read_body", "enqueue", "policy"} /\ id'["httpd"] = id["httpd"]
      <3>1. id["httpd"] \in Ids /\ Passed(id["httpd"]) /\ pc["httpd"] # "guard"
        BY <1>0, <2>1 DEF CallType, SessionInv
      <3>2. PassedNext(id["httpd"])
        BY <1>1, <3>1
      <3> QED  BY <2>1, <3>2
    <2>2. CASE Guard /\ ~latch /\ ~store.pending /\ id'["httpd"] = id["httpd"]
      <3>1. Resets' = {} \/ Clean'
        BY <2>2, ResetsClose DEF Guard, effectVars
      <3> QED  BY <3>1 DEF PassedNext
    <2> QED  BY <1>2, <2>1, <2>2, HttpdBefore
  <1>3. ASSUME Queued' PROVE PassedNext(Head(async'.queue))
    <2>1. CASE Queued /\ async'.queue = async.queue
      <3>1. Head(async.queue) \in Ids /\ Passed(Head(async.queue))
            /\ (pc["httpd"] # "guard" \/ Head(async.queue) # id["httpd"])
        BY <1>0, <2>1, QueueShape DEF SessionInv, IdInv
      <3>2. PassedNext(Head(async.queue))
        BY <1>1, <3>1
      <3> QED  BY <2>1, <3>2
    <2>2. CASE pc["httpd"] = "enqueue" /\ async'.queue = <<id["httpd"]>>
      <3>1. id["httpd"] \in Ids /\ Passed(id["httpd"]) /\ pc["httpd"] # "guard"
        BY <1>0, <2>2 DEF CallType, SessionInv
      <3>2. PassedNext(id["httpd"]) /\ Head(async'.queue) = id["httpd"]
        BY <1>1, <2>2, <3>1
      <3> QED  BY <3>2
    <2> QED  BY <1>3, <2>1, <2>2, HttpdBefore
  <1>4. ASSUME pc'["worker"] = "policy" PROVE PassedNext(id'["worker"])
    <2>1. CASE pc["worker"] = "policy" /\ id'["worker"] = id["worker"]
      <3>1. id["worker"] \in Ids /\ Passed(id["worker"])
            /\ (pc["httpd"] # "guard" \/ id["worker"] # id["httpd"])
        BY <1>0, <2>1 DEF CallType, SessionInv, IdInv, Free, ActionPcs
      <3>2. PassedNext(id["worker"])
        BY <1>1, <3>1
      <3> QED  BY <2>1, <3>2
    <2>2. CASE Queued /\ id'["worker"] = Head(async.queue)
      <3>1. Head(async.queue) \in Ids /\ Passed(Head(async.queue))
            /\ (pc["httpd"] # "guard" \/ Head(async.queue) # id["httpd"])
        BY <1>0, <2>2, QueueShape DEF SessionInv, IdInv
      <3>2. PassedNext(Head(async.queue))
        BY <1>1, <3>1
      <3> QED  BY <2>2, <3>2
    <2> QED  BY <1>4, <2>1, <2>2, HttpdBefore
  <1> QED  BY <1>2, <1>3, <1>4

LEMMA Admission ==
    ASSUME CallType, HistoryType, HttpdInv, SerialInv, StageInv, SessionInv, NEW t \in Tasks, Policy(t),
           AdmissionStatus(Call(t), sessions) = 0
    PROVE  Entitled(id[t])
  <1>1. /\ pc[t] = "policy" /\ Call(t) \in Requests /\ Call(t).path \in DeviceActions
        /\ id[t] \in 1 .. Len(request)
    BY CallPath DEF Policy, ActionPcs
  <1>2. Call(t).cookie \in sessions
    BY <1>1, AdmissionCodes
  <1>3. Passed(id[t])
    BY <1>1 DEF SessionInv, Tasks
  <1>4. Resets # {} /\ ~Clean => faults > 0
    <2> SUFFICES ASSUME Resets # {}, ~Clean, faults = 0 PROVE FALSE
      BY DEF SessionInv
    <2>1. PICK u \in Tasks : pc[u] \in {"erase", "invalidate"}
      BY DEF SessionInv
    <2>2. u # t /\ pc[u] \in Admitted /\ pc[u] \in ActionPcs
      BY <1>1, <2>1 DEF Admitted, ActionPcs
    <2>3. CASE policy
      <3>1. t = "httpd" /\ u = "worker"
        BY <2>2, <2>3 DEF HttpdInv, Admitted, Tasks
      <3>2. ~RequiresWorker(Call(t), policy)
        BY <1>1, <2>3, <3>1 DEF HttpdInv, Call
      <3> QED  BY <1>1, <2>3, <3>2, RefusedWithoutWorker
    <2>4. CASE ~policy
      BY <1>1, <2>2, <2>4 DEF SerialInv, Free, ActionPcs, Tasks
    <2> QED  BY <2>3, <2>4
  <1>5. id[t] \in Ids /\ guardedAt[id[t]] \in Nat
    BY <1>1, BoundAssumption DEF SessionInv, CallType, Ids
  <1>6. \A k \in Resets : k \in Nat
    BY DEF Resets, HistoryType
  <1> QED
    BY <1>2, <1>3, <1>4, <1>5, <1>6 DEF Entitled, Passed, Clean, Call

LEMMA StillEntitled ==
    ASSUME CallType, AsyncType, HistoryType, HttpdInv, SerialInv, ClaimInv, IdInv, StageInv,
           SessionInv, [Next]_vars, NEW u \in Tasks, Waits(u)'
    PROVE  EntitledNext(id'[u])
  <1>0. Waits(u)' => pc'[u] \in Admitted
    BY DEF Waits, Admitted, ActionPcs
  <1>1. ASSUME pc[u] \in ActionPcs, Entitled(id[u]), Resets' = Resets, id'[u] = id[u]
        PROVE  EntitledNext(id'[u])
    <2>1. id[u] \in 1 .. Len(request) /\ id[u] \in Ids
      BY <1>1, CallPath, BoundAssumption DEF CallType, Ids
    <2>2. pc["httpd"] = "guard" => id[u] # id["httpd"]
      BY <1>1 DEF IdInv, Free, Tasks, ActionPcs
    <2>3. guardedAt'[id[u]] = guardedAt[id[u]]
      BY <2>1, <2>2, GuardedKept DEF SessionInv
    <2>4. EntitledNext(id[u])
      BY <1>1, <2>1, <2>3, EntitledKept
    <2> QED  BY <1>1, <2>4
  <1>2. CASE Quiet
    <2>1. pc[u] \in Admitted /\ pc'[u] = pc[u] /\ id'[u] = id[u]
      BY <1>0, <1>2 DEF Quiet
    <2>2. Call(u)' = Call(u) /\ pc[u] \in ActionPcs
      BY <2>1, RequestKept, CallPath DEF Call, Admitted
    <2>3. Waits(u)
      BY <2>1, <2>2 DEF Waits
    <2>4. Resets' = Resets
      <3>1. acted' = acted
        BY <1>2 DEF Quiet
      <3> QED  BY <3>1, RequestKept DEF Resets, SessionInv
    <2> QED  BY <1>1, <2>1, <2>2, <2>3, <2>4 DEF SessionInv, Waits
  <1>3. ASSUME NEW t \in Tasks, Handle(t) PROVE EntitledNext(id'[u])
    <2>0. id' = id /\ request' = request /\ pc[t] \in ActionPcs /\ Call(u)' = Call(u)
          /\ pc \in [Tasks -> HttpdPcs \cup WorkerPcs]
      BY <1>3, HandleMoves DEF Call, CallType
    <2>1. CASE t # u
      <3>1. pc'[u] = pc[u] /\ pc[u] \in Admitted
        BY <1>0, <1>3, <2>1, HandleMoves, CallTurn
      <3>2. acted' = acted
        BY <1>3, <2>1, <3>1, Bystander
      <3> QED  BY <1>1, <2>0, <3>1, <3>2 DEF SessionInv, Waits, Resets, Admitted
    <2>2. CASE t = u
      <3>1. pc[u] # "apply"
        BY <1>3, <2>0, <2>2 DEF Handle, Policy, WaitEntry, WaitTake, WaitTimeout, Body,
           ApplyReset,
           MarkPending, Erase, Invalidate, DeleteBlobs, Schedule, ClearPending, Finish, Step, Waits
      <3>2. Resets' = Resets
        <4>1. ASSUME NEW v \in Tasks, Handle(v), pc[v] = "apply" PROVE FALSE
          <5>1. v # u /\ pc[v] \in Admitted
            BY <3>1, <4>1 DEF Admitted, ActionPcs
          <5>2. pc'[u] = pc[u]
            BY <4>1, <5>1, HandleMoves, CallTurn
          <5> QED  BY <1>0, <5>1, <5>2, Alone
        <4> QED  BY <4>1, ResetsGrow
      <3>3. Entitled(id[u])
        <4>1. CASE Policy(u)
          <5>1. AdmissionStatus(Call(u), sessions) = 0
            BY <2>0, <4>1 DEF Policy, Finish, Step, Waits
          <5> QED  BY <4>1, <5>1, Admission
        <4>2. CASE Waits(u)
          BY <4>2 DEF Waits, SessionInv
        <4>3. Policy(u) \/ Waits(u)
          BY <1>3, <2>0, <2>2 DEF Handle, WaitEntry, WaitTake, WaitTimeout, Body,
             ApplyReset,
             MarkPending, Erase, Invalidate, DeleteBlobs, Schedule, ClearPending, Finish, Step, Waits,
             StageInv, Stage
        <4> QED  BY <4>1, <4>2, <4>3
      <3> QED  BY <1>1, <2>0, <2>2, <3>2, <3>3
    <2> QED  BY <2>1, <2>2
  <1> QED  BY <1>2, <1>3, QuietStep

LEMMA GuardNotes ==
    ASSUME CallType, HistoryType, ClaimInv, IdInv, StageInv, SessionInv, [Next]_vars
    PROVE  /\ guardedAt' \in [Ids -> Nat] /\ \A i \in Ids : guardedAt'[i] <= Len(acted')
           /\ pc'["httpd"] = "guard" => \A k \in DOMAIN acted' : acted'[k] # id'["httpd"]
  <1>0. Len(request) \in Nat /\ Len(acted) \in Nat /\ 1 .. Len(request) \subseteq Ids
    BY BoundAssumption DEF CallType, HistoryType, Ids
  <1>1. Len(acted') \in Nat /\ Len(acted') >= Len(acted)
    <2>1. ASSUME NEW t \in Tasks, Handle(t), Begins(t) PROVE Len(acted') = Len(acted) + 1
      <3>1. id[t] \in Nat
        BY <2>1, HandleMoves, CallPath
      <3> QED  BY <2>1, <3>1, AppendProperties DEF Begins, HistoryType
    <2> QED  BY <1>0, <2>1, ActedGrows
  <1>2. guardedAt' \in [Ids -> Nat] /\ \A i \in Ids : guardedAt'[i] <= Len(acted')
    <2>1. guardedAt \in [Ids -> Nat] /\ \A i \in Ids : guardedAt[i] <= Len(acted)
      BY DEF SessionInv
    <2>2. CASE guardedAt' = guardedAt
      BY <1>0, <1>1, <2>1, <2>2
    <2>3. CASE guardedAt' = [guardedAt EXCEPT ![id["httpd"]] = Len(acted)]
      <3>1. guardedAt' \in [Ids -> Nat]
        BY <1>0, <2>1, <2>3
      <3>2. ASSUME NEW i \in Ids PROVE guardedAt'[i] <= Len(acted')
        <4>1. guardedAt'[i] = Len(acted) \/ guardedAt'[i] = guardedAt[i]
          BY <2>1, <2>3
        <4>2. guardedAt[i] \in Nat /\ guardedAt[i] <= Len(acted)
          BY <2>1
        <4> QED  BY <1>0, <1>1, <4>1, <4>2
      <3> QED  BY <3>1, <3>2
    <2> QED  BY <2>2, <2>3, GuardedKept
  <1>3. ASSUME pc'["httpd"] = "guard", NEW k \in DOMAIN acted' PROVE acted'[k] # id'["httpd"]
    <2>1. \/ pc["httpd"] = "guard" /\ id'["httpd"] = id["httpd"]
          \/ acted' = acted /\ id'["httpd"] = Len(request) + 1
      <3>1. CASE Elsewhere
        BY <1>3, <3>1 DEF Elsewhere, callVars
      <3>2. CASE AsyncStart
        BY <1>3, <3>2 DEF AsyncStart, CallType, Tasks
      <3>3. CASE Arrive
        BY <3>3 DEF Arrive, CallType, Tasks, historyVars
      <3>4. CASE Guard \/ Claim \/ ReadBody \/ Enqueue
        BY <1>3, <3>4 DEF Guard, Claim, ReadBody, Enqueue, Refuse, Step, CallType, Tasks
      <3>5. CASE Worker
        BY <1>3, <3>5 DEF Worker, WorkerReceive, WorkerComplete, WorkerStop, Step,
           CallType, Tasks
      <3>6. ASSUME NEW t \in Tasks, Handle(t) PROVE pc["httpd"] = "guard" /\ id' = id
        <4>1. id' = id /\ \A u \in Tasks : u # t => pc'[u] = pc[u]
          BY <3>6, HandleMoves, CallTurn
        <4>2. pc'[t] # "guard" \/ t = "worker"
          BY <3>6, HandleMoves, CallTurn DEF Tasks, ActionPcs
        <4> QED  BY <1>3, <4>1, <4>2 DEF Tasks
      <3> QED  BY <3>1, <3>2, <3>3, <3>4, <3>5, <3>6, StepKinds DEF Httpd
    <2>2. CASE acted' = acted /\ id'["httpd"] = Len(request) + 1
      BY <1>0, <1>3, <2>2 DEF SessionInv
    <2>3. CASE pc["httpd"] = "guard" /\ id'["httpd"] = id["httpd"]
      <3>1. CASE k \in DOMAIN acted
        BY <2>3, <3>1, ResetsGrow DEF SessionInv
      <3>2. CASE k \notin DOMAIN acted
        <4>1. PICK t \in Tasks : Handle(t) /\ Begins(t)
          BY <1>3, <3>2, ActedGrows
        <4>2. t = "worker" /\ id[t] \in Nat /\ ~Free("worker") /\ pc["httpd"] # "idle"
          BY <2>3, <4>1, HandleMoves, CallPath DEF Begins, Tasks, Free
        <4>3. acted'[k] = id[t]
          BY <1>0, <1>3, <3>2, <4>1, <4>2, AppendProperties DEF Begins, HistoryType
        <4> QED  BY <2>3, <4>2, <4>3 DEF IdInv
      <3> QED  BY <3>1, <3>2
    <2> QED  BY <2>1, <2>2, <2>3
  <1> QED  BY <1>2, <1>3

LEMMA SessionStep ==
    ASSUME CallType, AsyncType, HistoryType, HttpdInv, SerialInv, ClaimInv, IdInv, StageInv,
           SessionInv, [Next]_vars
    PROVE  SessionInv'
  <1>1. faults' \in Nat
    BY FaultsGrow DEF SessionInv
  <1>2. \A k \in DOMAIN acted' : acted'[k] \in 1 .. Len(request')
    BY ResetsGrow
  <1>3. /\ pc'["httpd"] \in {"claim", "read_body", "enqueue", "policy"} => Passed(id["httpd"])'
        /\ Queued' => Passed(Head(async.queue))'
        /\ pc'["worker"] = "policy" => Passed(id["worker"])'
    BY QueuePassed DEF Passed, PassedNext
  <1>4. (\A t \in Tasks : Waits(t) => Entitled(id[t]))'
    <2> SUFFICES ASSUME NEW t \in Tasks, Waits(t)' PROVE Entitled(id[t])'
      OBVIOUS
    <2> QED  BY StillEntitled DEF Entitled, EntitledNext
  <1> QED
    BY <1>1, <1>2, <1>3, <1>4, GuardNotes, ResetsClose, NoFaultNoGap,
       LateIsClean DEF SessionInv

-----------------------------------------------------------------------------
(* The invariant.                                                           *)

ActInv == IInv /\ SerialInv /\ ClaimInv /\ IdInv /\ StageInv /\ SessionInv

LEMMA InitActInv == Init => ActInv
  <1> SUFFICES ASSUME Init PROVE SerialInv /\ ClaimInv /\ IdInv /\ StageInv /\ SessionInv
    BY InitIInv DEF ActInv
  <1>1. pc["httpd"] = "idle" /\ pc["worker"] = "none" /\ async.queue = <<>> /\ ~async.exists
        /\ async.stopped = "none" /\ main = "controls" /\ touched = {} /\ acted = <<>>
    BY DEF Init, NoAsync
  <1>2. SerialInv /\ ClaimInv
    BY <1>1 DEF SerialInv, ClaimInv, Free, Queued, Sending, Serves, ActionPcs
  <1>3. IdInv
    BY <1>1, BoundAssumption DEF Init, IdInv, Free, Queued, ActionPcs, Unacted, Tasks
  <1>4. StageInv
    BY <1>1 DEF Init, StageInv, Stage, Coherent, Errors, Tasks
  <1>5. SessionInv
    <2>1. Resets = {} /\ Len(acted) = 0 /\ DOMAIN acted = {}
      BY <1>1 DEF Resets
    <2>2. guardedAt = [i \in Ids |-> 0] /\ faults = 0
      BY DEF Init
    <2> QED
      BY <1>1, <2>1, <2>2 DEF SessionInv, Passed, Entitled, PastSessions, Waits, Late,
         Queued, Tasks
  <1> QED  BY <1>2, <1>3, <1>4, <1>5

LEMMA NextActInv == ActInv /\ [Next]_vars => ActInv'
  BY NextIInv, SerialStep, ClaimStep, IdStep, StageStep, SessionStep DEF ActInv, IInv, Typed

\* Once a reset has taken effect no other request with a session from before it
\* does: the latch, the marker or the empty session table stops it.  One that was
\* through the guard before the reset only gets by if some step of that reset
\* failed as well (web_server_lifecycle.c:20-43, device_controls_reset.c:31-67).
THEOREM NoOldSession == Spec => []OldSessionsPowerless
  <1>1. Init => OldSessionsPowerless
    BY DEF Init, OldSessionsPowerless
  <1>2. ASSUME ActInv, [Next]_vars, OldSessionsPowerless PROVE OldSessionsPowerless'
    <2> SUFFICES ASSUME NEW i \in DOMAIN acted', NEW j \in DOMAIN acted', i < j,
                        request'[acted'[i]].path # "device_restart"
                 PROVE  \/ request'[acted'[j]].cookie \notin Sessions
                        \/ guardedAt'[acted'[j]] < i /\ faults' > 0
      BY DEF OldSessionsPowerless
    <2>a. CallType /\ HistoryType /\ ClaimInv /\ StageInv /\ SessionInv
      BY <1>2 DEF ActInv, IInv, Typed
    <2>0. /\ acted \in Seq(Nat) /\ Len(acted) \in Nat /\ DOMAIN acted = 1 .. Len(acted)
          /\ \A k \in DOMAIN acted : acted[k] \in 1 .. Len(request) /\ acted'[k] = acted[k]
          /\ 1 .. Len(request) \subseteq Ids
      <3>1. Len(request) \in Nat /\ Len(request) <= MaxRequests
        BY <2>a DEF CallType
      <3>2. 1 .. Len(request) \subseteq Ids
        BY <3>1, BoundAssumption DEF Ids
      <3>3. acted \in Seq(Nat) /\ Len(acted) \in Nat /\ DOMAIN acted = 1 .. Len(acted)
        BY <2>a DEF HistoryType
      <3>4. \A k \in DOMAIN acted : acted[k] \in 1 .. Len(request)
        BY <2>a DEF SessionInv
      <3>5. \A k \in DOMAIN acted : acted'[k] = acted[k]
        BY <1>2, <2>a, ResetsGrow
      <3> QED  BY <3>2, <3>3, <3>4, <3>5
    <2> USE <1>2 DEF ActInv, IInv, Typed
    <2>1. faults > 0 => faults' > 0
      BY FaultsGrow DEF SessionInv
    <2>2. CASE j \in DOMAIN acted
      <3>1. i \in DOMAIN acted /\ acted[i] \in 1 .. Len(request) /\ acted[j] \in 1 .. Len(request)
            /\ acted[j] \in Ids /\ acted'[i] = acted[i] /\ acted'[j] = acted[j]
        <4>1. i \in 1 .. Len(acted)
          <5>1. i \in Nat /\ i >= 1
            BY HistoryStep DEF HistoryType
          <5> QED  BY <2>0, <2>2, <5>1
        <4> QED  BY <2>0, <2>2, <4>1
      <3>2. request'[acted[i]] = request[acted[i]] /\ request'[acted[j]] = request[acted[j]]
        BY <3>1, RequestKept
      <3>3. guardedAt'[acted[j]] = guardedAt[acted[j]]
        BY <2>2, <3>1, GuardedKept DEF SessionInv
      <3> QED  BY <2>1, <2>2, <3>1, <3>2, <3>3 DEF OldSessionsPowerless
    <2>3. CASE j \notin DOMAIN acted
      <3>1. PICK t \in Tasks : Handle(t) /\ Begins(t)
        BY <2>3, ActedGrows
      <3>2. /\ id[t] \in 1 .. Len(request) /\ request' = request /\ guardedAt' = guardedAt
            /\ id[t] \in Nat
        BY <3>1, HandleMoves, CallPath
      <3>3. j = Len(acted) + 1 /\ acted'[j] = id[t] /\ i \in DOMAIN acted
        BY <2>0, <2>3, <3>1, <3>2, AppendProperties DEF Begins
      <3>4. i \in Resets
        BY <2>0, <3>2, <3>3 DEF Resets
      <3>5. Entitled(id[t])
        BY <3>1 DEF SessionInv, Waits, Begins
      <3> QED  BY <2>1, <3>2, <3>3, <3>4, <3>5 DEF Entitled
    <2> QED  BY <2>2, <2>3
  <1> QED
    BY <1>1, <1>2, InitActInv, NextActInv, PTL DEF Spec

-----------------------------------------------------------------------------
(* The answers.                                                             *)

\* AnswerTellsTheTruth, of one request.
Acted     == {acted[k] : k \in DOMAIN acted}
Committed == store.pending \/ (restart /\ store.settings = "erased")
Truth(i) ==
    /\ status[i] = 202 =>
          /\ restart \/ i \in touched
          /\ request[i].path = "device_restart" => restart
          /\ request[i].path = "device_reset_settings" => restart /\ i \in touched
          /\ request[i].path = "device_factory_reset" => i \in touched /\ Committed
    /\ status[i] = 409 /\ i \in touched => request[i].path = "device_reset_settings" /\ latch
    /\ status[i] \notin {0, 202, 409} /\ i \in touched => status[i] = 503 /\ i \notin Acted

\* A reset that has begun has changed something.
ActedTouched == \A k \in Resets : acted[k] \in touched

\* What a call answers while no reset has begun, or once the restart was asked for.
TrueAnswer(i) ==
    \/ status'[i] \notin {202, 409} /\ (i \in touched' => status'[i] = 503 /\ i \notin Acted')
    \/ /\ status'[i] = 409
       /\ i \in touched' => request[i].path = "device_reset_settings" /\ latch'
    \/ /\ status'[i] = 202
       /\ request[i].path \in {"device_restart", "device_reset_settings"} => restart'
       /\ request[i].path # "device_restart" => i \in touched'
       /\ request[i].path = "device_factory_reset" => Committed'
       /\ request[i].path \in DeviceActions

\* What has been committed stays so: a reset-settings is refused an erased record,
\* and the marker is cleared only over one, with the restart owned.
LEMMA CommittedKept ==
    ASSUME CallType, ClaimInv, StageInv, [Next]_vars
    PROVE  (Committed => Committed') /\ (restart => restart')
  <1>0. restart => restart'
    BY QuietStep, Effects DEF Quiet
  <1>1. CASE Quiet
    BY <1>1 DEF Quiet, Committed
  <1>2. ASSUME NEW t \in Tasks, Handle(t), Committed PROVE Committed'
    <2>1. CASE Policy(t) \/ WaitEntry(t) \/ WaitTake(t) \/ WaitTimeout(t) \/ Body(t)
      BY <1>2, <2>1 DEF Policy, WaitEntry, WaitTake, WaitTimeout, Body, effectVars,
         Committed
    <2>2. CASE ApplyReset(t)
      BY <1>2, <2>2 DEF ApplyReset, StageInv, Committed
    <2>3. CASE MarkPending(t) \/ Erase(t) \/ Invalidate(t) \/ DeleteBlobs(t)
      BY <1>2, <2>3 DEF MarkPending, Erase, Invalidate, DeleteBlobs, StageInv, Committed
    <2>4. CASE Schedule(t)
      BY <1>0, <1>2, <2>4 DEF Schedule, Committed
    <2>5. CASE ClearPending(t)
      <3>1. restart /\ store.settings = "erased"
        BY <2>5 DEF ClearPending, StageInv, Stage
      <3> QED  BY <2>5, <3>1 DEF ClearPending, StageInv, Committed
    <2> QED  BY <1>2, <2>1, <2>2, <2>3, <2>4, <2>5 DEF Handle
  <1> QED  BY <1>0, <1>1, <1>2, QuietStep

\* Only the call that acts touches anything, and it has not been answered.
LEMMA TouchedGrows ==
    ASSUME CallType, ClaimInv, StageInv, [Next]_vars, NEW i \in touched'
    PROVE  i \in touched \/ \E t \in Tasks : Handle(t) /\ i = id[t]
  <1>1. CASE Quiet
    BY <1>1 DEF Quiet
  <1>2. ASSUME NEW t \in Tasks, Handle(t)
        PROVE  i \in touched \/ i = id[t]
    <2>1. CASE Ends(t)
      BY <2>1 DEF Ends
    <2>2. CASE Goes(t)
      BY <2>2 DEF Goes
    <2> QED  BY <1>2, <2>1, <2>2, HandleMoves
  <1> QED  BY <1>1, <1>2, QuietStep
LEMMA TouchedKept ==
    ASSUME CallType, ClaimInv, StageInv, [Next]_vars
    PROVE  touched \subseteq touched'
  <1>1. ASSUME NEW t \in Tasks, Handle(t) PROVE touched \subseteq touched'
    BY <1>1, HandleMoves DEF Ends, Goes
  <1> QED  BY <1>1, QuietStep DEF Quiet

\* The answers of the calls.
LEMMA CallAnswers ==
    ASSUME CallType, IdInv, StageInv, ActedTouched, NEW t \in Tasks, Handle(t)
    PROVE  status' = status \/ (TrueAnswer(id[t]) /\ \A i \in Ids : i # id[t] => status'[i] = status[i])
  <1>0. /\ pc[t] \in ActionPcs /\ id[t] \in 1 .. Len(request) /\ id[t] \in Ids
        /\ Call(t).path \in DeviceActions /\ status \in [Ids -> Nat]
    BY HandleMoves, CallPath, BoundAssumption DEF CallType, Ids, IdInv
  <1>1. ASSUME NEW code, Finish(t, code)
        PROVE  status'[id[t]] = code /\ \A i \in Ids : i # id[t] => status'[i] = status[i]
    BY <1>0, <1>1 DEF Finish, Answer
  <1>2. ASSUME NEW code, Finish(t, code), code \notin {202, 409}, pc[t] \in Unacted,
               touched' = touched
        PROVE  TrueAnswer(id[t])
    <2>1. id[t] \notin touched'
      BY <1>2 DEF IdInv
    <2> QED  BY <1>1, <1>2, <2>1 DEF TrueAnswer
  <1>11. ASSUME Finish(t, 503), pc[t] = "apply", acted' = acted PROVE TrueAnswer(id[t])
    <2>1. id[t] \notin touched /\ Call(t).path # "device_restart"
      BY <1>11 DEF IdInv, StageInv, Stage, Unacted
    <2>2. id[t] \notin Acted
      BY <2>1 DEF ActedTouched, Resets, Acted, Call
    <2> QED  BY <1>1, <1>11, <2>2 DEF TrueAnswer, Acted
  <1>3. CASE Policy(t)
    <2>1. AdmissionStatus(Call(t), sessions) \notin {202, 409}
      BY AdmissionCodes
    <2>2. pc[t] \in Unacted /\ touched' = touched
      BY <1>3 DEF Policy, Unacted, historyVars
    <2>3. Finish(t, AdmissionStatus(Call(t), sessions)) \/ status' = status
      BY <1>3 DEF Policy
    <2> QED  BY <1>1, <1>2, <2>1, <2>2, <2>3
  <1>4. CASE WaitEntry(t) \/ WaitTake(t) \/ WaitTimeout(t)
    <2>1. pc[t] \in Unacted /\ touched' = touched /\ (Finish(t, 403) \/ status' = status)
      BY <1>4, PolicyCodes DEF WaitEntry, WaitTake, WaitTimeout, Unacted, historyVars
    <2> QED  BY <1>1, <1>2, <2>1
  <1>5. CASE Body(t)
    <2>1. pc[t] \in Unacted /\ touched' = touched
          /\ (status' = status \/ \E code \in {422, 403, 503} : Finish(t, code))
      BY <1>5, PolicyCodes DEF Body, Unacted, historyVars
    <2> QED  BY <1>1, <1>2, <2>1
  <1>6. CASE ApplyReset(t)
    <2>1. pc[t] = "apply" /\ pc[t] \in Unacted
      BY <1>6 DEF ApplyReset, Unacted
    <2> QED  BY <1>1, <1>2, <1>6, <1>11, <2>1, ApplyMoves
  <1>7. CASE MarkPending(t)
    <2>1. pc[t] = "apply" /\ pc[t] \in Unacted
      BY <1>7 DEF MarkPending, Unacted
    <2> QED  BY <1>1, <1>2, <1>7, <1>11, <2>1, MarkMoves
  <1>8. CASE Erase(t) \/ Invalidate(t) \/ DeleteBlobs(t)
    BY <1>8 DEF Erase, Invalidate, DeleteBlobs
  <1>9. CASE Schedule(t)
    <2>0. UNCHANGED <<touched, store, latch>> /\ pc[t] = "schedule"
      BY <1>9 DEF Schedule
    <2>1. /\ Call(t).path # "device_restart" => id[t] \in touched
          /\ Call(t).path = "device_restart" => id[t] \notin touched
          /\ Call(t).path = "device_factory_reset" => store.pending
          /\ Call(t).path = "device_reset_settings" => latch
      BY <2>0 DEF StageInv, Stage, IdInv
    <2>2. \/ status' = status
          \/ Finish(t, ScheduledStatus(t, "NONE")) /\ restart'
          \/ Finish(t, ScheduledStatus(t, "INTERNAL"))
      BY <1>9 DEF Schedule
    <2>3. /\ ScheduledStatus(t, "NONE") = 202
          /\ ScheduledStatus(t, "INTERNAL") = IF Call(t).path = "device_factory_reset" THEN 202
                                              ELSE IF Call(t).path = "device_restart" THEN 500 ELSE 409
      BY <1>0, <2>0, ScheduledCodes
    <2>4. CASE Finish(t, ScheduledStatus(t, "NONE")) /\ restart'
      <3>1. status'[id[t]] = 202
        BY <1>1, <2>3, <2>4
      <3>2. TrueAnswer(id[t])
        BY <1>0, <2>0, <2>1, <2>4, <3>1 DEF TrueAnswer, Committed, Call
      <3> QED  BY <1>1, <2>4, <3>2
    <2>5. CASE Finish(t, ScheduledStatus(t, "INTERNAL"))
      <3>1. status'[id[t]] = ScheduledStatus(t, "INTERNAL")
        BY <1>1, <2>5
      <3>2. TrueAnswer(id[t])
        <4>1. CASE Call(t).path = "device_factory_reset"
          BY <2>0, <2>1, <2>3, <3>1, <4>1 DEF TrueAnswer, Committed, Call, DeviceActions
        <4>2. CASE Call(t).path = "device_restart"
          BY <2>0, <2>1, <2>3, <3>1, <4>2 DEF TrueAnswer
        <4>3. CASE Call(t).path = "device_reset_settings"
          BY <2>0, <2>1, <2>3, <3>1, <4>3 DEF TrueAnswer, Call
        <4> QED  BY <1>0, <4>1, <4>2, <4>3 DEF DeviceActions
      <3> QED  BY <1>1, <2>5, <3>2
    <2> QED  BY <2>2, <2>4, <2>5
  <1>10. CASE ClearPending(t)
    <2>0. /\ UNCHANGED <<touched, restart>> /\ Call(t).path = "device_factory_reset"
          /\ id[t] \in touched /\ restart /\ store.settings = "erased"
          /\ store'.settings = store.settings
      BY <1>10 DEF ClearPending, StageInv, Stage, historyVars
    <2>1. Finish(t, 202)
      BY <1>10, <2>0, ClearCodes DEF ClearPending
    <2>2. TrueAnswer(id[t])
      BY <1>1, <2>0, <2>1 DEF TrueAnswer, Committed, Call, DeviceActions
    <2> QED  BY <1>1, <2>1, <2>2
  <1> QED
    BY <1>3, <1>4, <1>5, <1>6, <1>7, <1>8, <1>9, <1>10 DEF Handle

\* The answers of the HTTP task: before the call has acted.
LEMMA OtherAnswers ==
    ASSUME CallType, AsyncType, IdInv, StageInv, [Next]_vars, ~\E t \in Tasks : Handle(t)
    PROVE  \/ status' = status
           \/ /\ TrueAnswer(id["httpd"]) /\ id["httpd"] \in 1 .. Len(request)
              /\ \A i \in Ids : i # id["httpd"] => status'[i] = status[i]
  <1>1. CASE Elsewhere \/ AsyncStart \/ Arrive \/ Worker
    BY <1>1 DEF Elsewhere, AsyncStart, Arrive, Worker, WorkerReceive, WorkerComplete,
       WorkerStop,
       callVars
  <1>2. CASE Httpd
    <2>1. /\ pc["httpd"] \in {"guard", "claim", "read_body", "enqueue"} /\ touched' = touched
          /\ status' = status \/ \E code \in {503, 409, 422, 500} : Refuse(code)
      BY <1>2 DEF Httpd, Guard, Claim, ReadBody, Enqueue, historyVars
    <2>2. /\ id["httpd"] \in 1 .. Len(request) /\ id["httpd"] \in Ids /\ id["httpd"] \notin touched
          /\ status \in [Ids -> Nat]
      BY <2>1, BoundAssumption DEF CallType, Ids, IdInv, Unacted, Tasks
    <2>3. ASSUME NEW code \in {503, 409, 422, 500}, Refuse(code)
          PROVE  TrueAnswer(id["httpd"]) /\ \A i \in Ids : i # id["httpd"] => status'[i] = status[i]
      <3>1. status' = [status EXCEPT ![id["httpd"]] = code]
        BY <2>3 DEF Refuse, Answer
      <3> QED  BY <2>1, <2>2, <2>3, <3>1 DEF TrueAnswer
    <2> QED  BY <2>1, <2>2, <2>3
  <1> QED  BY <1>1, <1>2, StepKinds

\* A reset is recorded as begun and as having changed something in one step.
LEMMA ActedTouchedKept ==
    ASSUME CallType, HistoryType, ClaimInv, HttpdInv, SerialInv, StageInv, SessionInv,
           ActedTouched, [Next]_vars
    PROVE  ActedTouched'
  <1> SUFFICES ASSUME NEW k \in Resets' PROVE acted'[k] \in touched'
    BY DEF ActedTouched
  <1>1. touched \subseteq touched'
    BY TouchedKept
  <1>2. CASE k \in Resets
    BY <1>1, <1>2, ResetsGrow DEF ActedTouched, Resets
  <1>3. CASE k \notin Resets
    <2>1. PICK t \in Tasks : /\ Handle(t) /\ pc[t] = "apply"
                             /\ pc'[t] \in {"invalidate", "erase"} /\ k = Len(acted) + 1
      BY <1>3, ResetsGrow
    <2>2. acted \in Seq(Nat) /\ id[t] \in Nat
      BY <2>1, HandleMoves, CallPath DEF HistoryType
    <2>3. acted'[k] = id[t]
      <3>1. k \in DOMAIN acted' /\ k \notin DOMAIN acted
        BY <2>1, <2>2 DEF Resets
      <3>2. acted' = Append(acted, id[t])
        BY <2>1, <3>1, Effects DEF Begins
      <3> QED  BY <2>1, <2>2, <3>2, AppendProperties
    <2>4. id[t] \in touched'
      BY <2>1, HandleMoves, NextStage DEF Stage
    <2> QED  BY <2>3, <2>4
  <1> QED  BY <1>2, <1>3

\* What is answered is what happened: 202 means the restart is owned and the
\* reset committed, 409 from a call that changed something that a reset-settings is
\* committed and the API closed without a restart, and any other answer that no
\* reset has begun, a 503 alone leaving open whether its first write is durable
\* (web_api_administration.c, device_controls_reset.c, device_settings.c:101-124,
\* factory_reset_state.c:44-54).
THEOREM AnswersAreTrue == Spec => []AnswerTellsTheTruth
  <1>1. Init => AnswerTellsTheTruth /\ ActedTouched
    BY DEF Init, AnswerTellsTheTruth, ActedTouched, Resets
  <1>2. ASSUME ActInv, [Next]_vars, AnswerTellsTheTruth, ActedTouched PROVE AnswerTellsTheTruth'
    <2> USE <1>2 DEF ActInv, IInv, Typed
    <2>1. SUFFICES ASSUME NEW i \in 1 .. Len(request') PROVE Truth(i)'
      BY DEF AnswerTellsTheTruth, Truth, Committed, Acted
    <2>2. /\ Len(request) \in Nat /\ MaxRequests \in Nat /\ Len(request') <= MaxRequests
          /\ Len(request') \in Nat
      BY CallStep, BoundAssumption DEF CallType
    <2>3. i \in Ids
      BY <2>1, <2>2 DEF Ids
    <2>4. CASE i \in 1 .. Len(request) /\ status'[i] = status[i]
      <3>1. Truth(i) /\ request'[i] = request[i]
        BY <2>4, RequestKept DEF AnswerTellsTheTruth, Truth, Committed, Acted
      <3>2. ASSUME NEW t \in Tasks, Handle(t), i = id[t] PROVE status[i] = 0
        <4>1. pc[t] \in ActionPcs
          BY <3>2, HandleMoves
        <4> QED  BY <3>2, <4>1 DEF IdInv, Free, Tasks, ActionPcs
      <3>3. status[i] # 0 /\ i \in touched' => i \in touched
        BY <3>2, TouchedGrows
      <3>4. status[i] # 0 /\ i \in Acted' => i \in Acted
        <4>1. SUFFICES ASSUME status[i] # 0, NEW k \in DOMAIN acted', acted'[k] = i
                       PROVE  i \in Acted
          BY DEF Acted
        <4>2. CASE acted' = acted
          BY <4>1, <4>2 DEF Acted
        <4>3. CASE \E t \in Tasks : Handle(t) /\ Begins(t)
          <5>1. PICK t \in Tasks : Handle(t) /\ Begins(t)
            BY <4>3
          <5>2. id[t] \in Nat /\ acted \in Seq(Nat) /\ i # id[t]
            BY <3>2, <4>1, <5>1, HandleMoves, CallPath DEF HistoryType
          <5>3. k \in DOMAIN acted /\ acted'[k] = acted[k]
            BY <4>1, <5>1, <5>2, AppendProperties DEF Begins
          <5> QED  BY <4>1, <5>3 DEF Acted
        <4> QED  BY <4>2, <4>3, ActedGrows
      <3> QED  BY <2>4, <3>1, <3>3, <3>4, CommittedKept, TouchedKept, FaultsGrow DEF Truth
    <2>5. CASE i \in 1 .. Len(request) /\ TrueAnswer(i)
      <3>1. request'[i] = request[i]
        BY <2>5, RequestKept
      <3> QED  BY <2>5, <3>1 DEF TrueAnswer, Truth
    <2>6. CASE i \notin 1 .. Len(request)
      <3>1. status[i] = 0 /\ i > Len(request)
        BY <2>1, <2>2, <2>3, <2>6 DEF IdInv
      <3>2. status'[i] = 0
        <4>1. request' # request
          BY <2>1, <2>6
        <4>2. Arrive
          BY <4>1, StepKinds, HandleMoves DEF Elsewhere, AsyncStart, Httpd, Worker, Guard,
             Claim,
             ReadBody, Enqueue, WorkerReceive, WorkerComplete, WorkerStop, callVars
        <4> QED  BY <3>1, <4>2 DEF Arrive
      <3> QED  BY <3>2 DEF Truth
    <2>7. status'[i] = status[i] \/ TrueAnswer(i)
      BY <2>3, CallAnswers, OtherAnswers
    <2> QED  BY <2>4, <2>5, <2>6, <2>7
  <1>3. ActInv /\ ActedTouched /\ [Next]_vars => ActedTouched'
    BY ActedTouchedKept DEF ActInv, IInv, Typed
  <1> QED
    BY <1>1, <1>2, <1>3, InitActInv, NextActInv, PTL DEF Spec

-----------------------------------------------------------------------------
(* What is taken away                                                       *)

\* The controls task uses the pin and `controls_stopped' until it has given it;
\* they go only after that, or before there is a task.
ControlsLive ==
    /\ main \in {"controls", "task_create"} => task = "none"
    /\ main = "task_create" => stopped = "empty" /\ controls.pin
    /\ stopped = "full" => task = "gone"
    /\ main = "controls_cleanup" => task = "gone"
    /\ task \in {"polling", "leaving"} => stopped # "none" /\ controls.pin

\* The worker is not there before web_server_async_start() and the queue not gone
\* before it is; the controls are stopped over one that still works only when the
\* start has failed and both calls of stop_server_adapter() have as well.
Idle == {"none", "gone"}
WorkerLive ==
    /\ faults \in Nat /\ attempts \in Nat
    /\ main \in StartPcs => attempts = 0
    /\ main \in EarlyPcs => pc["worker"] = "none"
    /\ async.stopped = "full" => pc["worker"] = "gone"
    /\ pc["worker"] \notin Idle => async.exists
    /\ main \in StopPcs => faults >= 1
    /\ main \in {"async_stop", "async_wait"} /\ attempts # 0
          => faults >= 2 \/ pc["worker"] \in Idle
    /\ main \in (StopPcs \ {"async_stop", "async_wait"}) \cup {"failed"}
          => faults >= 3 \/ pc["worker"] \in Idle

\* Only the worker waits, and the signal stays while it does.
WaitLive ==
    /\ pc["httpd"] \notin {"wait_entry", "waiting"}
    /\ pc["worker"] = "waiting" => faults >= 3 \/ confirmation # "none"

LiveInv == ControlsLive /\ WorkerLive /\ WaitLive

LEMMA ControlsKept == ControlsLive /\ ControlType /\ [Next]_vars => ControlsLive'
  <1> SUFFICES ASSUME ControlsLive, ControlType, [Next]_vars PROVE ControlsLive'
    OBVIOUS
  <1> USE DEF ControlsLive
  <1>1. CASE ControlsInit
    BY <1>1 DEF ControlsInit
  <1>2. CASE TaskStarted
    BY <1>2 DEF TaskStarted, ControlType
  <1>3. CASE ControlsInitFails \/ TaskCreate
    BY <1>3 DEF ControlsInitFails, TaskCreate, CleanUp, ControlType
  <1>4. CASE TaskPoll \/ TaskLeave
    BY <1>4 DEF TaskPoll, TaskLeave, ControlType, serverVars
  <1>5. CASE ControlsStop \/ ControlsWait
    BY <1>5 DEF ControlsStop, ControlsWait, ControlType
  <1>6. CASE ControlsCleanup
    BY <1>6 DEF ControlsCleanup, CleanUp, ControlType
  <1>7. CASE WifiStart \/ HttpdStart \/ Register
    BY <1>7 DEF WifiStart, HttpdStart, Register, StartStep, StartFails, controlVars
  <1>8. CASE AsyncStart
    BY <1>8 DEF AsyncStart, StartStep, StartFails, controlVars
  <1>9. CASE AsyncStop \/ AsyncWait \/ HttpdStop
    BY <1>9 DEF AsyncStop, AsyncWait, HttpdStop, StopFailed, controlVars
  <1>10. CASE Arrive \/ Httpd \/ Worker
    BY <1>10 DEF Arrive, Httpd, Guard, Claim, ReadBody, Enqueue, Worker, WorkerReceive,
       WorkerComplete, WorkerStop, controlVars, serverVars
  <1>11. ASSUME NEW t \in Tasks, Handle(t) PROVE ControlsLive'
    BY <1>11 DEF Handle, Policy, WaitEntry, WaitTake, WaitTimeout, Body, ApplyReset,
       MarkPending, Erase, Invalidate, DeleteBlobs, Schedule, ClearPending, controlVars,
       serverVars
  <1>12. CASE Console \/ TimerFires \/ LoginOrLogout \/ UNCHANGED vars
    BY <1>12 DEF Console, ConsoleConfirm, ConsoleGive, TimerFires, LoginOrLogout, vars,
       controlVars, serverVars
  <1> QED
    BY <1>1, <1>2, <1>3, <1>4, <1>5, <1>6, <1>7, <1>8, <1>9, <1>10, <1>11, <1>12
    DEF Next, Start, Undo

\* A step that leaves the start of the server alone, and the worker where it is,
\* or lets it work on or end.
LEMMA WorkerStays ==
    ASSUME WorkerLive, UNCHANGED <<main, attempts>>,
           faults' = faults \/ faults' = faults + 1,
           async'.exists = async.exists,
           \/ pc'["worker"] = pc["worker"] /\ async'.stopped = async.stopped
           \/ /\ pc["worker"] \notin Idle /\ pc'["worker"] \notin Idle
              /\ async'.stopped = async.stopped
           \/ pc["worker"] \notin Idle /\ pc'["worker"] = "gone"
    PROVE  WorkerLive'
  BY SMTT(30) DEF WorkerLive, Idle, EarlyPcs, StartPcs, StopPcs

LEMMA WorkerHandles ==
    ASSUME CallType, NEW t \in Tasks, Handle(t)
    PROVE  /\ \/ pc'["worker"] = pc["worker"]
              \/ pc["worker"] \in ActionPcs /\ pc'["worker"] \in ActionPcs \cup {"complete"}
           /\ UNCHANGED <<main, attempts, async>>
           /\ faults' = faults \/ faults' = faults + 1
  <1>1. UNCHANGED <<main, attempts, async>> /\ pc[t] \in ActionPcs
    BY DEF Handle, Policy, WaitEntry, WaitTake, WaitTimeout, Body, ApplyReset,
       MarkPending, Erase, Invalidate, DeleteBlobs, Schedule, ClearPending, serverVars,
       ActionPcs
  <1>2. faults' = faults \/ faults' = faults + 1
    BY DEF Handle, Policy, WaitEntry, WaitTake, WaitTimeout, Body, ApplyReset,
       MarkPending, Erase, Invalidate, DeleteBlobs, Schedule, ClearPending, Fault, Works
  <1>3. pc' = pc \/ \E next \in ActionPcs \cup {"complete", "idle"} :
            Step(t, next) /\ (next = "idle" => t = "httpd")
    <2>1. CASE Policy(t) \/ WaitEntry(t) \/ WaitTake(t) \/ WaitTimeout(t) \/ Body(t)
      BY <2>1 DEF Policy, WaitEntry, WaitTake, WaitTimeout, Body, Finish, ActionPcs
    <2>2. CASE ApplyReset(t) \/ MarkPending(t)
      BY <2>2, ApplyMoves, MarkMoves DEF Finish, ActionPcs
    <2>5. CASE Erase(t) \/ Invalidate(t)
      BY <2>5 DEF Erase, Invalidate, Finish, ActionPcs
    <2>3. CASE DeleteBlobs(t) \/ Schedule(t) \/ ClearPending(t)
      BY <2>3 DEF DeleteBlobs, Schedule, ClearPending, Finish, ActionPcs
    <2> QED
      BY <2>1, <2>2, <2>5, <2>3 DEF Handle
  <1> QED
    BY <1>1, <1>2, <1>3 DEF Step, CallType, Tasks

LEMMA WorkerKept ==
    WorkerLive /\ ControlType /\ AsyncType /\ CallType /\ [Next]_vars => WorkerLive'
  <1> SUFFICES ASSUME WorkerLive, ControlType, AsyncType, CallType, [Next]_vars
               PROVE  WorkerLive'
    OBVIOUS
  <1>1. CASE ControlsInit \/ TaskStarted \/ ControlsStop
    BY <1>1, SMTT(30) DEF ControlsInit, TaskStarted, ControlsStop, WorkerLive, callVars,
       EarlyPcs, StartPcs, StopPcs
  <1>2. CASE ControlsInitFails \/ TaskCreate
    BY <1>2, SMTT(30) DEF ControlsInitFails, TaskCreate, CleanUp, Fault, Works, WorkerLive,
       Idle, callVars, EarlyPcs, StartPcs, StopPcs
  <1>3. CASE ControlsWait
    BY <1>3, SMTT(30) DEF ControlsWait, Fault, Works, WorkerLive, callVars, EarlyPcs,
       StartPcs, StopPcs
  <1>4. CASE ControlsCleanup
    BY <1>4, SMTT(30) DEF ControlsCleanup, CleanUp, Fault, Works, WorkerLive, callVars,
       EarlyPcs, StartPcs, StopPcs
  <1>5. CASE WifiStart \/ HttpdStart \/ Register
    <2>1. UNCHANGED <<attempts, async, pc>>
      BY <1>5 DEF WifiStart, HttpdStart, Register, callVars
    <2>2. CASE WifiStart \/ HttpdStart
      <3>1. main \in EarlyPcs
        BY <2>2 DEF WifiStart, HttpdStart, StartStep, StartFails, EarlyPcs, StartPcs
      <3>2. \/ main' \in EarlyPcs /\ UNCHANGED faults
            \/ main' = "controls_stop" /\ faults' = faults + 1
        BY <2>2 DEF WifiStart, HttpdStart, StartStep, StartFails, Fault, Works, EarlyPcs,
           StartPcs
      <3> QED
        BY <2>1, <3>1, <3>2, SMTT(30) DEF WorkerLive, Idle, EarlyPcs, StartPcs, StopPcs
    <2>3. CASE Register
      <3>1. main \in {"register", "register_rest"}
        BY <2>3 DEF Register, StartStep, StartFails
      <3>2. \/ main' \in {"register_rest", "ready"} /\ UNCHANGED faults
            \/ main' = "async_stop" /\ faults' = faults + 1
        BY <2>3 DEF Register, StartStep, StartFails, Fault, Works
      <3> QED
        BY <2>1, <3>1, <3>2, SMTT(30) DEF WorkerLive, Idle, EarlyPcs, StartPcs, StopPcs
    <2> QED
      BY <1>5, <2>2, <2>3
  <1>6. CASE AsyncStart
    <2>1. pc["worker"] = "none" /\ main = "async_start"
      BY <1>6 DEF AsyncStart, StartStep, StartFails, WorkerLive, EarlyPcs, StartPcs
    <2>2. CASE main' = "register" /\ Works /\ async'.exists /\ async'.stopped = "empty"
      BY <1>6, <2>1, <2>2 DEF AsyncStart, Works, WorkerLive, EarlyPcs, StartPcs, StopPcs
    <2>3. CASE main' \in {"async_stop", "controls_stop"} /\ Fault /\ UNCHANGED <<async, pc>>
      <3>1. attempts' \in Nat
        BY <1>6 DEF AsyncStart, WorkerLive
      <3> QED
        BY <2>1, <2>3, <3>1, SMTT(30) DEF Fault, WorkerLive, Idle, EarlyPcs, StartPcs, StopPcs
    <2> QED
      BY <1>6, <2>2, <2>3 DEF AsyncStart, StartStep, StartFails, NoAsync
  <1>7. CASE AsyncStop
    <2>1. UNCHANGED pc /\ async'.exists = async.exists /\ async'.stopped = async.stopped
      BY <1>7 DEF AsyncStop, AsyncType, callVars
    <2>2. CASE ~async.exists /\ main' = "httpd_stop" /\ Works /\ UNCHANGED attempts
      BY <1>7, <2>1, <2>2 DEF AsyncStop, Works, WorkerLive, EarlyPcs, StartPcs, StopPcs
    <2>3. CASE main' = "async_wait" /\ Works /\ UNCHANGED attempts
      BY <1>7, <2>1, <2>3 DEF AsyncStop, Works, WorkerLive, EarlyPcs, StartPcs, StopPcs
    <2>4. CASE Fault /\ StopFailed
      BY <1>7, <2>1, <2>4, SMTT(30) DEF AsyncStop, Fault, StopFailed, WorkerLive, EarlyPcs,
         StartPcs, StopPcs
    <2> QED
      BY <1>7, <2>2, <2>3, <2>4 DEF AsyncStop
  <1>8. CASE AsyncWait
    <2>1. UNCHANGED pc
      BY <1>8 DEF AsyncWait, callVars
    <2>2. CASE async.stopped = "full" /\ async' = NoAsync /\ main' = "httpd_stop" /\ Works
               /\ UNCHANGED attempts
      BY <1>8, <2>1, <2>2 DEF AsyncWait, Works, NoAsync, WorkerLive, Idle, EarlyPcs,
         StartPcs, StopPcs
    <2>3. CASE Fault /\ StopFailed /\ UNCHANGED async
      BY <1>8, <2>1, <2>3, SMTT(30) DEF AsyncWait, Fault, StopFailed, WorkerLive, EarlyPcs,
         StartPcs, StopPcs
    <2> QED
      BY <1>8, <2>2, <2>3 DEF AsyncWait
  <1>9. CASE HttpdStop
    BY <1>9, SMTT(30) DEF HttpdStop, Fault, Works, StopFailed, WorkerLive, callVars,
       EarlyPcs, StartPcs, StopPcs
  <1>10. CASE Arrive \/ Httpd
    <2>1. pc'["worker"] = pc["worker"]
      BY <1>10 DEF Arrive, Httpd, Guard, Claim, ReadBody, Enqueue, Refuse, Step, CallType,
         Tasks
    <2>2. async'.exists = async.exists /\ async'.stopped = async.stopped
      BY <1>10 DEF Arrive, Httpd, Guard, Claim, ReadBody, Enqueue, AsyncType, serverVars
    <2>3. UNCHANGED <<main, attempts>> /\ (faults' = faults \/ faults' = faults + 1)
      BY <1>10 DEF Arrive, Httpd, Guard, Claim, ReadBody, Enqueue, Fault, Works, serverVars
    <2> QED
      BY <2>1, <2>2, <2>3, WorkerStays
  <1>11. CASE Worker
    <2>1. UNCHANGED <<main, attempts, faults>> /\ pc["worker"] \notin Idle
          /\ async'.exists = async.exists
      BY <1>11 DEF Worker, WorkerReceive, WorkerComplete, WorkerStop, AsyncType, Idle
    <2>2. \/ pc'["worker"] \notin Idle /\ async'.stopped = async.stopped
          \/ pc'["worker"] = "gone"
      BY <1>11 DEF Worker, WorkerReceive, WorkerComplete, WorkerStop, Step, CallType, Tasks,
         AsyncType, Idle
    <2> QED
      BY <2>1, <2>2, WorkerStays
  <1>12. ASSUME NEW t \in Tasks, Handle(t) PROVE WorkerLive'
    <2>1. \/ pc'["worker"] = pc["worker"]
          \/ pc["worker"] \notin Idle /\ pc'["worker"] \notin Idle
      BY <1>12, WorkerHandles DEF Idle, ActionPcs
    <2> QED
      BY <1>12, <2>1, WorkerHandles, WorkerStays
  <1>13. CASE TaskPoll \/ TaskLeave \/ Console \/ TimerFires \/ LoginOrLogout \/ UNCHANGED vars
    <2>1. UNCHANGED <<main, attempts, async, pc>>
      BY <1>13 DEF TaskPoll, TaskLeave, Console, ConsoleConfirm, ConsoleGive, TimerFires,
         LoginOrLogout, vars, serverVars, callVars
    <2>2. faults' = faults \/ faults' = faults + 1
      BY <1>13 DEF TaskPoll, TaskLeave, Console, ConsoleConfirm, ConsoleGive, TimerFires,
         LoginOrLogout, vars, Fault, Works
    <2> QED
      BY <2>1, <2>2, WorkerStays
  <1> QED
    BY <1>1, <1>2, <1>3, <1>4, <1>5, <1>6, <1>7, <1>8, <1>9, <1>10, <1>11, <1>12, <1>13
    DEF Next, Start, Undo

\* The HTTP task does not come to wait: with the confirmation enabled the call is
\* the worker's, without it nothing asks for one.
LEMMA HttpdDoesNotWait ==
    ASSUME HttpdInv, HttpdInv', CallType, WaitLive, [Next]_vars
    PROVE  pc'["httpd"] \notin {"wait_entry", "waiting"}
  <1>1. policy' = policy
    BY DEF Next, Start, Undo, Httpd, Worker, Handle, Console, ControlsInit, ControlsInitFails,
       TaskCreate, TaskStarted, WifiStart, HttpdStart, AsyncStart, Register, AsyncStop,
       AsyncWait, HttpdStop, ControlsStop, ControlsWait, ControlsCleanup, TaskPoll, TaskLeave,
       Arrive, Guard, Claim, ReadBody, Enqueue, WorkerReceive, WorkerComplete, WorkerStop,
       Policy, WaitEntry, WaitTake, WaitTimeout, Body, ApplyReset, MarkPending, Erase,
       Invalidate, DeleteBlobs, Schedule, ClearPending, ConsoleConfirm, ConsoleGive,
       TimerFires, LoginOrLogout, vars
  <1>2. CASE policy
    BY <1>1, <1>2 DEF HttpdInv, ActionPcs
  <1>3. CASE ~policy
    <2>1. CASE \E next \in HttpdPcs \ {"wait_entry", "waiting"} : Step("httpd", next)
      BY <2>1 DEF Step, CallType, Tasks
    <2>2. CASE pc'["httpd"] = pc["httpd"]
      BY <2>2 DEF WaitLive
    <2>3. CASE Arrive \/ Httpd
      BY <2>1, <2>3 DEF Arrive, Httpd, Guard, Claim, ReadBody, Enqueue, Refuse, HttpdPcs,
         ActionPcs
    <2>4. CASE Worker
      BY <2>2, <2>4 DEF Worker, WorkerReceive, WorkerComplete, WorkerStop, Step, CallType,
         Tasks
    <2>5. CASE Handle("worker")
      BY <2>2, <2>5 DEF Handle, Policy, WaitEntry, WaitTake, WaitTimeout, Body, ApplyReset,
         MarkPending, Erase, Invalidate, DeleteBlobs, Schedule, ClearPending, Finish, Step,
         CallType, Tasks
    <2>6. CASE Policy("httpd")
      <3>1. ~ConfirmationRequired(Call("httpd").path, policy)
        BY <1>3 DEF ConfirmationRequired
      <3> QED
        BY <2>1, <2>6, <3>1 DEF Policy, Finish, HttpdPcs, ActionPcs
    <2>7. CASE Handle("httpd") /\ ~Policy("httpd")
      <3>1. ~WaitEntry("httpd") /\ ~WaitTake("httpd") /\ ~WaitTimeout("httpd")
        BY DEF WaitEntry, WaitTake, WaitTimeout, WaitLive
      <3>2. CASE Body("httpd") \/ ApplyReset("httpd") \/ MarkPending("httpd")
                 \/ Erase("httpd") \/ Invalidate("httpd") \/ DeleteBlobs("httpd")
        BY <2>1, <3>2 DEF Body, ApplyReset, MarkPending, Erase, Invalidate, DeleteBlobs,
           Finish, HttpdPcs, ActionPcs
      <3>3. CASE Schedule("httpd") \/ ClearPending("httpd")
        BY <2>1, <2>2, <3>3 DEF Schedule, ClearPending, Finish, HttpdPcs, ActionPcs
      <3> QED
        BY <2>7, <3>1, <3>2, <3>3 DEF Handle
    <2>8. CASE AsyncStart
      BY <2>2, <2>8 DEF AsyncStart, CallType, Tasks
    <2>9. CASE ControlsInit \/ ControlsInitFails \/ TaskCreate \/ TaskStarted \/ WifiStart
               \/ HttpdStart \/ Register \/ Undo \/ TaskPoll \/ TaskLeave
      BY <2>2, <2>9 DEF Undo, ControlsInit, ControlsInitFails, TaskCreate, TaskStarted,
         WifiStart, HttpdStart, Register, AsyncStop, AsyncWait, HttpdStop, ControlsStop,
         ControlsWait, ControlsCleanup, TaskPoll, TaskLeave, callVars
    <2>10. CASE Console \/ TimerFires \/ LoginOrLogout \/ UNCHANGED vars
      BY <2>2, <2>10 DEF Console, ConsoleConfirm, ConsoleGive, TimerFires, LoginOrLogout,
         vars, callVars
    <2> QED
      BY <2>3, <2>4, <2>5, <2>6, <2>7, <2>8, <2>9, <2>10 DEF Next, Start, Tasks
  <1> QED
    BY <1>2, <1>3, SMTT(30)

\* The signal is deleted only before there is a worker or when it is idle.
LEMMA SignalKept ==
    ASSUME WorkerLive, ControlType, [Next]_vars, confirmation # "none"
    PROVE  faults' >= 3 \/ pc["worker"] \in Idle \/ confirmation' # "none"
  <1>1. CASE ControlsInitFails \/ TaskCreate
    BY <1>1 DEF ControlsInitFails, TaskCreate, WorkerLive, Idle, EarlyPcs, StartPcs
  <1>2. CASE ControlsCleanup
    BY <1>2, SMTT(30) DEF ControlsCleanup, CleanUp, Fault, Works, WorkerLive, StopPcs
  <1>3. CASE ControlsInit \/ TaskStarted \/ WifiStart \/ HttpdStart \/ AsyncStart \/ Register
    BY <1>3 DEF ControlsInit, TaskStarted, WifiStart, HttpdStart, AsyncStart, Register,
       controlVars
  <1>4. CASE AsyncStop \/ AsyncWait \/ HttpdStop \/ ControlsStop \/ ControlsWait
    BY <1>4 DEF AsyncStop, AsyncWait, HttpdStop, ControlsStop, ControlsWait, controlVars
  <1>5. CASE TaskPoll \/ TaskLeave \/ Arrive \/ Httpd \/ Worker
    BY <1>5 DEF TaskPoll, TaskLeave, Arrive, Httpd, Guard, Claim, ReadBody, Enqueue, Worker,
       WorkerReceive, WorkerComplete, WorkerStop, controlVars
  <1>6. ASSUME NEW t \in Tasks, Handle(t) PROVE confirmation' # "none"
    BY <1>6 DEF Handle, Policy, WaitEntry, WaitTake, WaitTimeout, Body, ApplyReset,
       MarkPending, Erase, Invalidate, DeleteBlobs, Schedule, ClearPending, controlVars
  <1>7. CASE Console \/ TimerFires \/ LoginOrLogout \/ UNCHANGED vars
    BY <1>7 DEF Console, ConsoleConfirm, ConsoleGive, TimerFires, LoginOrLogout, vars,
       controlVars
  <1> QED
    BY <1>1, <1>2, <1>3, <1>4, <1>5, <1>6, <1>7 DEF Next, Start, Undo

\* The worker begins to wait only while the signal is there.
LEMMA WaitBegins ==
    ASSUME CallType, [Next]_vars, pc["worker"] # "waiting", pc'["worker"] = "waiting"
    PROVE  confirmation # "none" /\ UNCHANGED <<confirmation, faults>>
  <1>1. CASE Arrive \/ Httpd \/ Worker
    BY <1>1 DEF Arrive, Httpd, Guard, Claim, ReadBody, Enqueue, Refuse, Worker,
       WorkerReceive, WorkerComplete, WorkerStop, Step, CallType, Tasks
  <1>2. CASE AsyncStart
    BY <1>2 DEF AsyncStart, CallType, Tasks
  <1>3. CASE ControlsInit \/ ControlsInitFails \/ TaskCreate \/ TaskStarted \/ WifiStart
             \/ HttpdStart \/ Register \/ Undo \/ TaskPoll \/ TaskLeave
    BY <1>3 DEF Undo, ControlsInit, ControlsInitFails, TaskCreate, TaskStarted, WifiStart,
       HttpdStart, Register, AsyncStop, AsyncWait, HttpdStop, ControlsStop, ControlsWait,
       ControlsCleanup, TaskPoll, TaskLeave, callVars
  <1>4. CASE Console \/ TimerFires \/ LoginOrLogout \/ UNCHANGED vars
    BY <1>4 DEF Console, ConsoleConfirm, ConsoleGive, TimerFires, LoginOrLogout, vars,
       callVars
  <1>5. CASE Handle("httpd")
    BY <1>5 DEF Handle, Policy, WaitEntry, WaitTake, WaitTimeout, Body, ApplyReset,
       MarkPending, Erase, Invalidate, DeleteBlobs, Schedule, ClearPending, Finish, Step,
       CallType, Tasks
  <1>6. CASE WaitEntry("worker")
    BY <1>6 DEF WaitEntry, Finish, Step, CallType, Tasks, controlVars
  <1>7. CASE Handle("worker") /\ ~WaitEntry("worker")
    <2>1. CASE Policy("worker") \/ WaitTake("worker") \/ WaitTimeout("worker") \/ Body("worker")
      BY <2>1 DEF Policy, WaitTake, WaitTimeout, Body, Finish, Step, CallType, Tasks
    <2>2. CASE ApplyReset("worker") \/ MarkPending("worker") \/ Erase("worker")
               \/ Invalidate("worker")
      BY <2>2 DEF ApplyReset, MarkPending, Erase, Invalidate, Finish, Step, CallType, Tasks
    <2>3. CASE DeleteBlobs("worker") \/ Schedule("worker") \/ ClearPending("worker")
      BY <2>3 DEF DeleteBlobs, Schedule, ClearPending, Finish, Step, CallType, Tasks
    <2> QED
      BY <1>7, <2>1, <2>2, <2>3 DEF Handle
  <1> QED
    BY <1>1, <1>2, <1>3, <1>4, <1>5, <1>6, <1>7 DEF Next, Start, Tasks

LEMMA FaultStep == CallType /\ [Next]_vars => faults' = faults \/ faults' = faults + 1
  BY StepKinds, WorkerHandles
  DEF Elsewhere, AsyncStart, StartStep, StartFails, Arrive, Httpd, Guard, Claim, ReadBody,
      Enqueue, Worker, WorkerReceive, WorkerComplete, WorkerStop, Fault, Works

LEMMA NextLiveInv == Typed /\ HttpdInv /\ LiveInv /\ [Next]_vars => LiveInv'
  <1> SUFFICES ASSUME Typed, HttpdInv, LiveInv, [Next]_vars PROVE LiveInv'
    OBVIOUS
  <1>1. ControlsLive' /\ WorkerLive'
    BY ControlsKept, WorkerKept DEF Typed, LiveInv
  <1>2. pc'["httpd"] \notin {"wait_entry", "waiting"}
    BY HttpdStep, HttpdDoesNotWait DEF Typed, LiveInv
  <1>3. pc'["worker"] = "waiting" => faults' >= 3 \/ confirmation' # "none"
    <2> SUFFICES ASSUME pc'["worker"] = "waiting"
                 PROVE  faults' >= 3 \/ confirmation' # "none"
      OBVIOUS
    <2>1. faults \in Nat /\ (faults' = faults \/ faults' = faults + 1)
      BY FaultStep DEF Typed, LiveInv, WorkerLive
    <2>2. CASE pc["worker"] # "waiting"
      BY <2>2, WaitBegins DEF Typed
    <2>3. CASE pc["worker"] = "waiting"
      BY <2>1, <2>3, SignalKept DEF Typed, LiveInv, WaitLive, Idle
    <2> QED
      BY <2>2, <2>3
  <1> QED
    BY <1>1, <1>2, <1>3 DEF LiveInv, WaitLive

\* Nothing a task can still touch is taken away before three operations have
\* failed: a late step of the start and, over a worker busy with a device action,
\* both calls of web_server_async_stop() (web_server_async.c:145-172).  With those
\* three the controls are stopped under a worker that may come to wait.
THEOREM ResourcesLive == Spec => [](faults < 3 => LiveResources)
  <1>1. Init => LiveInv
    BY DEF Init, LiveInv, ControlsLive, WorkerLive, WaitLive, Idle, NoAsync, EarlyPcs,
       StartPcs, StopPcs
  <1>2. LiveInv => (faults < 3 => LiveResources)
    <2> SUFFICES ASSUME LiveInv, faults < 3 PROVE LiveResources
      OBVIOUS
    <2>1. Waiters # {} => confirmation # "none"
      BY DEF Waiters, Tasks, LiveInv, WaitLive, WorkerLive
    <2> QED
      BY <2>1 DEF LiveInv, ControlsLive, WorkerLive, Idle, LiveResources
  <1>3. Init => HttpdInv
    BY DEF Init, HttpdInv, HttpdPcs, ActionPcs
  <1>4. Typed => CallType
    BY DEF Typed
  <1> QED
    BY <1>1, <1>2, <1>3, <1>4, InitTyped, NextTyped, HttpdStep, NextLiveInv, PTL DEF Spec
=============================================================================
