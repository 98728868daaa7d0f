--------------------- MODULE MacroExecutorServiceProofs ---------------------
(***************************************************************************)
(* The macro executor implements SendService, for every set of sends and   *)
(* every plan, when its mutex and its queue do not fail (MaxFaults = 0):   *)
(* the production mutex waits for ever, and the queue has room for the one *)
(* request that can be claimed.                                            *)
(***************************************************************************)
EXTENDS MacroExecutorProofs, MacroExecutorService

USE DEF engineVars, latchVars, sendVars, workerVars, httpdVars, planVars,
        cancelVars, historyVars, sharedVars, restVars, vars

-----------------------------------------------------------------------------
(* What the status shows, and of whom *)

\* No submit is undone and no publication is lost.
NothingFails ==
    /\ hpc \notin {"undo_release", "undo_publish", "undo_reset", "undo_latch"}
    /\ wpc # "latch"
    /\ wpc = "finish_reset" => ~wfail

Ending == {"free", "finish_release", "finish_publish"}

\* An active state on display is the one of the send the worker has.
Display ==
    /\ wpc \in ConfirmPcs => status.state = "awaiting" /\ needs[wid]
    /\ wpc \in ActionPcs => status.state = "running"
    /\ wpc \in Ending => /\ status.state \in {"awaiting", "running"}
                         /\ wres = "none" => status.state = "running"
    /\ status.state \in {"awaiting", "running"} =>
         status.id = wid /\ wpc \in ConfirmPcs \cup ActionPcs \cup Ending

\* An accepted send has an outcome unless the queue or the worker has it; no
\* other send has one.
Known ==
    /\ \A id \in Ids : QueueOwns(id) => id \in accepted
    /\ wpc # "receive" => wid \in accepted
    /\ \A id \in accepted : outcome[id] = "none" =>
         QueueOwns(id) \/ (wid = id /\ WorkerClaims)
    /\ \A id \in accepted : plan[id] # "none" /\ ~HttpdOwns(id)
    /\ \A id \in Ids \ accepted : outcome[id] = "none"

\* A confirmation is taken for the send whose prompt was confirmed.
Prompted ==
    /\ confirmReq => owner \in confirmed
    /\ wpc = "publish_running" => wid \in confirmed

ShowInv == NothingFails /\ Display /\ Known /\ Prompted

Faultless == MaxFaults = 0

\* A mutex section succeeds.
LEMMA LockSucceeds ==
  ASSUME Faultless, Inv, NEW lk \in LockOutcomes, LockStep(lk)
  PROVE  lk = "ok"
  BY DEF Faultless, Inv, Base, TypeOK, TypeEngine, LockStep

\* With working mutex and queue neither task leaves its ordinary path.
LEMMA NothingFailsStep ==
  Faultless /\ Inv /\ ShowInv /\ [Next]_vars => NothingFails'
<1> SUFFICES ASSUME Faultless, Inv, ShowInv, [Next]_vars
             PROVE  NothingFails'
  OBVIOUS
<1>1. CASE WorkerReceive
  BY <1>1 DEF WorkerReceive, ShowInv, NothingFails
<1>2. CASE WorkerPublishFirst
  BY <1>2, LockSucceeds DEF WorkerPublishFirst, PublishStatus, Showing,
         ShowInv, NothingFails
<1>3. CASE WorkerAwaitCancel \/ WorkerAwaitConfirm
  BY <1>3, LockSucceeds DEF WorkerAwaitCancel, WorkerAwaitConfirm,
         ReadCancellation, DeadlineExpired, ShowInv, NothingFails
<1>4. CASE WorkerPublishRunning
  BY <1>4, LockSucceeds DEF WorkerPublishRunning, PublishStatus, Showing,
         ShowInv, NothingFails
<1>5. CASE WorkerPublishIndex
  BY <1>5, LockSucceeds DEF WorkerPublishIndex, PlanDone, PublishStatus,
         Showing, ShowInv, NothingFails
<1>6. CASE WorkerCheck
  BY <1>6, LockSucceeds DEF WorkerCheck, ReadCancellation, DeadlineExpired,
         ShowInv, NothingFails
<1>7. CASE WorkerPress
  BY <1>7 DEF WorkerPress, ShowInv, NothingFails
<1>8. CASE WorkerSlice
  BY <1>8, LockSucceeds DEF WorkerSlice, DelayDone, DelayReturn,
         ReadCancellation, DeadlineExpired, ShowInv, NothingFails
<1>9. CASE WorkerRelease
  BY <1>9 DEF WorkerRelease, ReleaseAll, ShowInv, NothingFails
<1>10. CASE WorkerFree \/ WorkerFinishRelease
  BY <1>10 DEF WorkerFree, WorkerFinishRelease, PlanFree, ReleaseAll, ShowInv,
         NothingFails
<1>11. CASE WorkerFinishPublish
  <2>1. wfail' = FALSE
    BY <1>11, LockSucceeds DEF WorkerFinishPublish, PublishStatus
  <2> QED BY <1>11, <2>1 DEF WorkerFinishPublish, ShowInv, NothingFails
<1>12. CASE WorkerFinishReset
  BY <1>12, LockSucceeds DEF WorkerFinishReset, ResetTerminalFlags,
         FinishFailed, WorkerReturn, ShowInv, NothingFails
<1>13. CASE WorkerLatch
  BY <1>13 DEF WorkerLatch, WorkerReturn, ShowInv, NothingFails
<1>14. CASE DeadlinePasses
  BY <1>14 DEF DeadlinePasses, ShowInv, NothingFails
<1>15. ASSUME NEW id \in Ids, SendCreate(id) PROVE NothingFails'
  BY <1>15 DEF SendCreate, ShowInv, NothingFails
<1>16. CASE SubmitReadLatch \/ SubmitReadUsb \/ SendDrop
  BY <1>16 DEF SubmitReadLatch, SubmitReadUsb, SendDrop, EngineUnavailable,
         PlanFree, ShowInv, NothingFails
<1>17. CASE SubmitClaim
  BY <1>17, LockSucceeds DEF SubmitClaim, Claimable, ShowInv, NothingFails
<1>18. CASE SubmitSend
  <2>1. ~(faults > 0)
    BY DEF Faultless, Inv, Base, TypeOK, TypeEngine
  <2> QED BY <1>18, <2>1 DEF SubmitSend, ShowInv, NothingFails
<1>19. CASE UndoRelease \/ UndoPublish \/ UndoReset \/ UndoLatch
  BY <1>19, LockSucceeds DEF UndoRelease, UndoPublish, UndoReset, UndoLatch,
         ReleaseAll, PublishStatus, ResetTerminalFlags, ShowInv, NothingFails
<1>20. CASE HttpCancelStart \/ HttpCancelStatus \/ HttpCancelLatch \/
            HttpGetStart \/ HttpGetLock \/ HttpReply
  BY <1>20, LockSucceeds DEF HttpCancelStart, HttpCancelStatus,
         HttpCancelLatch, HttpGetStart, HttpGetLock, HttpReply,
         EngineUnavailable, ShowInv, NothingFails
<1>21. CASE HttpCancelLock \/ ConsoleCancel
  BY <1>21, LockSucceeds DEF HttpCancelLock, ConsoleCancel, CancelSection,
         ShowInv, NothingFails
<1>22. ASSUME NEW cmd \in {"cancel", "confirm"}, ConsoleStart(cmd)
      PROVE  NothingFails'
  BY <1>22 DEF ConsoleStart, ShowInv, NothingFails
<1>23. CASE ConsoleConfirm
  BY <1>23, LockSucceeds DEF ConsoleConfirm, CanConfirm, ShowInv, NothingFails
<1>24. CASE UsbReady
  BY <1>24 DEF UsbReady, ShowInv, NothingFails
<1>25. CASE UsbLost
  BY <1>25 DEF UsbLost, ShowInv, NothingFails
<1>26. CASE UNCHANGED vars
  BY <1>26 DEF ShowInv, NothingFails
<1> QED
  BY <1>1, <1>2, <1>3, <1>4, <1>5, <1>6, <1>7, <1>8, <1>9, <1>10, <1>11, <1>12,
     <1>13, <1>14, <1>15, <1>16, <1>17, <1>18, <1>19, <1>20, <1>21, <1>22,
     <1>23, <1>24, <1>25, <1>26 DEF Next, Worker,
     Submit, HttpCall

\* The display follows the worker.
LEMMA DisplayStep ==
  Faultless /\ Inv /\ ShowInv /\ [Next]_vars => Display'
<1> SUFFICES ASSUME Faultless, Inv, ShowInv, [Next]_vars
             PROVE  Display'
  OBVIOUS
<1>1. CASE WorkerReceive
  BY <1>1 DEF WorkerReceive, ShowInv, Display, Ending, ConfirmPcs, ActionPcs
<1>2. CASE WorkerPublishFirst
  BY <1>2, LockSucceeds DEF WorkerPublishFirst, PublishStatus, Showing,
         ShowInv, Display, Ending, ConfirmPcs, ActionPcs
<1>3. CASE WorkerAwaitCancel \/ WorkerAwaitConfirm
  BY <1>3, LockSucceeds DEF WorkerAwaitCancel, WorkerAwaitConfirm,
         ReadCancellation, DeadlineExpired, ShowInv, Display, Ending,
         ConfirmPcs, ActionPcs
<1>4. CASE WorkerPublishRunning
  BY <1>4, LockSucceeds DEF WorkerPublishRunning, PublishStatus, Showing,
         ShowInv, Display, Ending, ConfirmPcs, ActionPcs
<1>5. CASE WorkerPublishIndex
  BY <1>5, LockSucceeds DEF WorkerPublishIndex, PlanDone, PublishStatus,
         Showing, ShowInv, Display, Ending, ConfirmPcs, ActionPcs
<1>6. CASE WorkerCheck
  BY <1>6, LockSucceeds DEF WorkerCheck, ReadCancellation, DeadlineExpired,
         ShowInv, Display, Ending, ConfirmPcs, ActionPcs
<1>7. CASE WorkerPress
  BY <1>7 DEF WorkerPress, ShowInv, Display, Ending, ConfirmPcs, ActionPcs
<1>8. CASE WorkerSlice
  BY <1>8, LockSucceeds DEF WorkerSlice, DelayDone, DelayReturn,
         ReadCancellation, DeadlineExpired, ShowInv, Display, Ending,
         ConfirmPcs, ActionPcs
<1>9. CASE WorkerRelease
  BY <1>9 DEF WorkerRelease, ReleaseAll, ShowInv, Display, Ending, ConfirmPcs,
         ActionPcs
<1>10. CASE WorkerFree \/ WorkerFinishRelease
  BY <1>10 DEF WorkerFree, WorkerFinishRelease, PlanFree, ReleaseAll, ShowInv,
         Display, Ending, ConfirmPcs, ActionPcs
<1>11. CASE WorkerFinishPublish
  BY <1>11, LockSucceeds DEF WorkerFinishPublish, PublishStatus, Terminal,
         ShowInv, Display, Ending, ConfirmPcs, ActionPcs
<1>12. CASE WorkerFinishReset
  BY <1>12, LockSucceeds DEF WorkerFinishReset, ResetTerminalFlags,
         FinishFailed, WorkerReturn, ShowInv, Display, Ending, ConfirmPcs,
         ActionPcs
<1>13. CASE WorkerLatch
  BY <1>13 DEF WorkerLatch, WorkerReturn, ShowInv, Display, Ending, ConfirmPcs,
         ActionPcs
<1>14. CASE DeadlinePasses \/ UsbReady \/ UsbLost \/ UNCHANGED vars
  BY <1>14 DEF DeadlinePasses, UsbReady, UsbLost, ShowInv, Display, Ending,
         ConfirmPcs, ActionPcs
<1>15. ASSUME NEW id \in Ids, SendCreate(id) PROVE Display'
  <2>1. wpc \in ConfirmPcs => plan[wid] # "none" /\ wid \in Ids
    BY DEF ConfirmPcs, ShowInv, Known, Inv, Base, TypeOK, TypeWorker
  <2>2. wpc \in ConfirmPcs => needs'[wid] = needs[wid]
    BY <1>15, <2>1 DEF SendCreate, Inv, Base, TypeOK, TypeShared
  <2> QED BY <1>15, <2>2 DEF SendCreate, ShowInv, Display
<1>16. CASE SubmitReadLatch \/ SubmitReadUsb \/ SendDrop
  BY <1>16 DEF SubmitReadLatch, SubmitReadUsb, SendDrop, EngineUnavailable,
         PlanFree, ShowInv, Display, Ending, ConfirmPcs, ActionPcs
<1>17. CASE SubmitClaim
  BY <1>17, LockSucceeds DEF SubmitClaim, Claimable, ShowInv, Display, Ending,
         ConfirmPcs, ActionPcs
<1>18. CASE SubmitSend
  BY <1>18, LockSucceeds DEF SubmitSend, ShowInv, Display, Ending, ConfirmPcs,
         ActionPcs
<1>19. CASE UndoRelease \/ UndoReset \/ UndoLatch
  BY <1>19, LockSucceeds DEF UndoRelease, UndoReset, UndoLatch, ReleaseAll,
         ResetTerminalFlags, ShowInv, Display, Ending, ConfirmPcs, ActionPcs
<1>20. CASE UndoPublish
  BY <1>20, LockSucceeds DEF UndoPublish, PublishStatus, NothingFails, ShowInv,
         Display, Ending, ConfirmPcs, ActionPcs
<1>21. CASE HttpCancelStart \/ HttpCancelStatus \/ HttpCancelLatch \/
            HttpGetStart \/ HttpGetLock \/ HttpReply
  BY <1>21, LockSucceeds DEF HttpCancelStart, HttpCancelStatus,
         HttpCancelLatch, HttpGetStart, HttpGetLock, HttpReply,
         EngineUnavailable, ShowInv, Display, Ending, ConfirmPcs, ActionPcs
<1>22. CASE HttpCancelLock \/ ConsoleCancel
  BY <1>22, LockSucceeds DEF HttpCancelLock, ConsoleCancel, CancelSection,
         ShowInv, Display, Ending, ConfirmPcs, ActionPcs
<1>23. ASSUME NEW cmd \in {"cancel", "confirm"}, ConsoleStart(cmd)
      PROVE  Display'
  BY <1>23 DEF ConsoleStart, ShowInv, Display, Ending, ConfirmPcs, ActionPcs
<1>24. CASE ConsoleConfirm
  BY <1>24, LockSucceeds DEF ConsoleConfirm, CanConfirm, ShowInv, Display,
         Ending, ConfirmPcs, ActionPcs
<1> QED
  BY <1>1, <1>2, <1>3, <1>4, <1>5, <1>6, <1>7, <1>8, <1>9, <1>10, <1>11, <1>12,
     <1>13, <1>14, <1>15, <1>16, <1>17, <1>18, <1>19, <1>20, <1>21, <1>22,
     <1>23, <1>24 DEF Next, Worker,
     Submit, HttpCall

\* A send is known from SubmitSend on.
LEMMA KnownStep ==
  Faultless /\ Inv /\ ShowInv /\ [Next]_vars => Known'
<1> SUFFICES ASSUME Faultless, Inv, ShowInv, [Next]_vars
             PROVE  Known'
  OBVIOUS
<1>1. CASE WorkerReceive
  <2>1. \A id \in Ids : QueueOwns(id)' => QueueOwns(id)
    BY <1>1, QueueMoves DEF Inv, Base
  <2>2. \A id \in Ids : QueueOwns(id) => id = wid'
    BY <1>1, QueueHolds DEF WorkerReceive, Inv, Base
  <2>3. QueueOwns(wid')
    BY <1>1 DEF WorkerReceive, QueueOwns, Inv, Base, TypeOK, TypeShared
  <2>4. wid' \in Ids /\ accepted \subseteq Ids
    BY <1>1 DEF WorkerReceive, Inv, Base, TypeOK, TypeShared, TypeHistory
  <2> QED BY <1>1, <2>1, <2>2, <2>3, <2>4 DEF WorkerReceive, ShowInv, Known,
             WorkerClaims, HttpdOwns
<1>2. CASE WorkerPublishFirst
  BY <1>2, LockSucceeds DEF WorkerPublishFirst, PublishStatus, Showing,
         ShowInv, Known, WorkerClaims, QueueOwns, HttpdOwns, SubmitPcs
<1>3. CASE WorkerAwaitCancel \/ WorkerAwaitConfirm
  BY <1>3, LockSucceeds DEF WorkerAwaitCancel, WorkerAwaitConfirm,
         ReadCancellation, DeadlineExpired, ShowInv, Known, WorkerClaims,
         QueueOwns, HttpdOwns, SubmitPcs
<1>4. CASE WorkerPublishRunning
  BY <1>4, LockSucceeds DEF WorkerPublishRunning, PublishStatus, Showing,
         ShowInv, Known, WorkerClaims, QueueOwns, HttpdOwns, SubmitPcs
<1>5. CASE WorkerPublishIndex
  BY <1>5, LockSucceeds DEF WorkerPublishIndex, PlanDone, PublishStatus,
         Showing, ShowInv, Known, WorkerClaims, QueueOwns, HttpdOwns, SubmitPcs
<1>6. CASE WorkerCheck
  BY <1>6, LockSucceeds DEF WorkerCheck, ReadCancellation, DeadlineExpired,
         ShowInv, Known, WorkerClaims, QueueOwns, HttpdOwns, SubmitPcs
<1>7. CASE WorkerPress
  BY <1>7 DEF WorkerPress, ShowInv, Known, WorkerClaims, QueueOwns, HttpdOwns,
         SubmitPcs
<1>8. CASE WorkerSlice
  BY <1>8, LockSucceeds DEF WorkerSlice, DelayDone, DelayReturn,
         ReadCancellation, DeadlineExpired, ShowInv, Known, WorkerClaims,
         QueueOwns, HttpdOwns, SubmitPcs
<1>9. CASE WorkerRelease
  BY <1>9 DEF WorkerRelease, ReleaseAll, ShowInv, Known, WorkerClaims,
         QueueOwns, HttpdOwns, SubmitPcs
<1>10. CASE WorkerFree
  BY <1>10 DEF WorkerFree, PlanFree, Inv, Base, TypeOK, TypeWorker, TypeShared,
         TypeHistory, TypeHttpd, ShowInv, Known, WorkerClaims, QueueOwns,
         HttpdOwns, SubmitPcs
<1>11. CASE WorkerFinishRelease
  BY <1>11 DEF WorkerFinishRelease, ReleaseAll, ShowInv, Known, WorkerClaims,
         QueueOwns, HttpdOwns, SubmitPcs
<1>12. CASE WorkerFinishPublish
  BY <1>12, LockSucceeds DEF WorkerFinishPublish, PublishStatus, Terminal, Inv,
         Base, TypeOK, TypeWorker, TypeShared, TypeHistory, TypeHttpd, ShowInv,
         Known, WorkerClaims, QueueOwns, HttpdOwns, SubmitPcs
<1>13. CASE WorkerFinishReset
  BY <1>13, LockSucceeds DEF WorkerFinishReset, ResetTerminalFlags,
         FinishFailed, WorkerReturn, NothingFails, Inv, Responsible, ShowInv,
         Known, WorkerClaims, QueueOwns, HttpdOwns, SubmitPcs
<1>14. CASE WorkerLatch
  BY <1>14 DEF WorkerLatch, WorkerReturn, ShowInv, Known, WorkerClaims,
         QueueOwns, HttpdOwns, SubmitPcs
<1>15. CASE DeadlinePasses \/ UsbReady \/ UsbLost \/ UNCHANGED vars
  BY <1>15 DEF DeadlinePasses, UsbReady, UsbLost, ShowInv, Known, WorkerClaims,
         QueueOwns, HttpdOwns, SubmitPcs
<1>16. ASSUME NEW id \in Ids, SendCreate(id) PROVE Known'
  BY <1>16 DEF SendCreate, Inv, Base, TypeOK, TypeWorker, TypeShared,
         TypeHistory, TypeHttpd, ShowInv, Known, WorkerClaims, QueueOwns,
         HttpdOwns, SubmitPcs
<1>17. CASE SubmitReadLatch \/ SubmitReadUsb
  BY <1>17 DEF SubmitReadLatch, SubmitReadUsb, EngineUnavailable, ShowInv,
         Known, WorkerClaims, QueueOwns, HttpdOwns, SubmitPcs
<1>18. CASE SubmitClaim
  BY <1>18, LockSucceeds DEF SubmitClaim, Claimable, ShowInv, Known,
         WorkerClaims, QueueOwns, HttpdOwns, SubmitPcs
<1>19. CASE SubmitSend
  <2>1. \A id \in Ids : QueueOwns(id)' => QueueOwns(id) \/ id = hid
    BY <1>19, QueueMoves DEF Inv, Base
  <2>2. hid \in Ids /\ outcome[hid] = "none" /\ plan[hid] # "none"
    BY <1>19 DEF SubmitSend, SubmitPcs, HttpdOwns, Inv, Base, TypeOK, TypeHttpd,
       PlanOwnership, FreshInv, UntouchedIsNew, Untouched
  <2>3. /\ queue' = Append(queue, hid) /\ accepted' = accepted \cup {hid}
        /\ hpc' = "reply" /\ hid' = hid
    BY <1>19 DEF SubmitSend, Faultless, Inv, Base, TypeOK, TypeEngine
  <2>4. QueueOwns(hid)' /\ \A id \in Ids : QueueOwns(id) => QueueOwns(id)'
    <3>1. queue \in Seq(Ids)
      BY DEF Inv, Base, TypeOK, TypeShared
    <3>2. /\ queue'[Len(queue) + 1] = hid /\ Len(queue) + 1 \in DOMAIN queue'
          /\ \A i \in DOMAIN queue : queue'[i] = queue[i] /\ i \in DOMAIN queue'
      BY <2>2, <2>3, <3>1, AppendProperties, LenProperties
    <3>3. QueueOwns(hid)'
      BY <2>3, <3>2 DEF QueueOwns
    <3>4. ASSUME NEW id \in Ids, QueueOwns(id) PROVE QueueOwns(id)'
      BY <3>2, <3>4 DEF QueueOwns
    <3> QED BY <3>3, <3>4
  <2>5. UNCHANGED <<outcome, plan, wpc, wid>> /\ accepted \subseteq Ids
    BY <1>19 DEF SubmitSend, Inv, Base, TypeOK, TypeHistory
  <2>6. \A id \in accepted' : ~HttpdOwns(id)'
    BY <2>3 DEF HttpdOwns, SubmitPcs
  <2> QED BY <2>1, <2>2, <2>3, <2>4, <2>5, <2>6 DEF ShowInv, Known,
             WorkerClaims
<1>20. CASE UndoRelease \/ UndoPublish \/ UndoReset \/ UndoLatch
  BY <1>20, LockSucceeds DEF UndoRelease, UndoPublish, UndoReset, UndoLatch,
         ReleaseAll, PublishStatus, ResetTerminalFlags, ShowInv, Known,
         WorkerClaims, QueueOwns, HttpdOwns, SubmitPcs
<1>21. CASE SendDrop
  BY <1>21 DEF SendDrop, PlanFree, Inv, Base, TypeOK, TypeWorker, TypeShared,
         TypeHistory, TypeHttpd, ShowInv, Known, WorkerClaims, QueueOwns,
         HttpdOwns, SubmitPcs
<1>22. CASE HttpCancelStart \/ HttpCancelStatus \/ HttpCancelLatch \/
            HttpGetStart \/ HttpGetLock \/ HttpReply
  BY <1>22, LockSucceeds DEF HttpCancelStart, HttpCancelStatus,
         HttpCancelLatch, HttpGetStart, HttpGetLock, HttpReply,
         EngineUnavailable, ShowInv, Known, WorkerClaims, QueueOwns, HttpdOwns,
         SubmitPcs
<1>23. CASE HttpCancelLock \/ ConsoleCancel
  BY <1>23, LockSucceeds DEF HttpCancelLock, ConsoleCancel, CancelSection,
         ShowInv, Known, WorkerClaims, QueueOwns, HttpdOwns, SubmitPcs
<1>24. ASSUME NEW cmd \in {"cancel", "confirm"}, ConsoleStart(cmd)
      PROVE  Known'
  BY <1>24 DEF ConsoleStart, ShowInv, Known, WorkerClaims, QueueOwns,
         HttpdOwns, SubmitPcs
<1>25. CASE ConsoleConfirm
  BY <1>25, LockSucceeds DEF ConsoleConfirm, CanConfirm, ShowInv, Known,
         WorkerClaims, QueueOwns, HttpdOwns, SubmitPcs
<1> QED
  BY <1>1, <1>2, <1>3, <1>4, <1>5, <1>6, <1>7, <1>8, <1>9, <1>10, <1>11, <1>12,
     <1>13, <1>14, <1>15, <1>16, <1>17, <1>18, <1>19, <1>20, <1>21, <1>22,
     <1>23, <1>24, <1>25 DEF Next, Worker,
     Submit, HttpCall

\* The confirmation belongs to the owner of the engine.
LEMMA PromptedStep ==
  Faultless /\ Inv /\ ShowInv /\ [Next]_vars => Prompted'
<1> SUFFICES ASSUME Faultless, Inv, ShowInv, [Next]_vars
             PROVE  Prompted'
  OBVIOUS
<1>1. CASE WorkerReceive
  BY <1>1 DEF WorkerReceive, ShowInv, Prompted
<1>2. CASE WorkerPublishFirst
  BY <1>2, LockSucceeds DEF WorkerPublishFirst, PublishStatus, Showing,
         ShowInv, Prompted
<1>3. CASE WorkerAwaitCancel
  BY <1>3, LockSucceeds DEF WorkerAwaitCancel, ReadCancellation, ShowInv,
         Prompted
<1>4. CASE WorkerAwaitConfirm
  BY <1>4, LockSucceeds DEF WorkerAwaitConfirm, DeadlineExpired, Inv, ClaimInv,
         OwnerIsKnown, WorkerClaims, ShowInv, Prompted
<1>5. CASE WorkerPublishRunning
  BY <1>5, LockSucceeds DEF WorkerPublishRunning, PublishStatus, Showing,
         ShowInv, Prompted
<1>6. CASE WorkerPublishIndex
  BY <1>6, LockSucceeds DEF WorkerPublishIndex, PlanDone, PublishStatus,
         Showing, ShowInv, Prompted
<1>7. CASE WorkerCheck
  BY <1>7, LockSucceeds DEF WorkerCheck, ReadCancellation, DeadlineExpired,
         ShowInv, Prompted
<1>8. CASE WorkerPress
  BY <1>8 DEF WorkerPress, ShowInv, Prompted
<1>9. CASE WorkerSlice
  BY <1>9, LockSucceeds DEF WorkerSlice, DelayDone, DelayReturn,
         ReadCancellation, DeadlineExpired, ShowInv, Prompted
<1>10. CASE WorkerRelease
  BY <1>10 DEF WorkerRelease, ReleaseAll, ShowInv, Prompted
<1>11. CASE WorkerFree
  BY <1>11 DEF WorkerFree, PlanFree, ShowInv, Prompted
<1>12. CASE WorkerFinishRelease
  BY <1>12 DEF WorkerFinishRelease, ReleaseAll, ShowInv, Prompted
<1>13. CASE WorkerFinishPublish
  BY <1>13, LockSucceeds DEF WorkerFinishPublish, PublishStatus, Terminal,
         ShowInv, Prompted
<1>14. CASE WorkerFinishReset
  BY <1>14, LockSucceeds DEF WorkerFinishReset, ResetTerminalFlags,
         FinishFailed, WorkerReturn, ShowInv, Prompted
<1>15. CASE WorkerLatch
  BY <1>15 DEF WorkerLatch, WorkerReturn, ShowInv, Prompted
<1>16. CASE DeadlinePasses
  BY <1>16 DEF DeadlinePasses, ShowInv, Prompted
<1>17. ASSUME NEW id \in Ids, SendCreate(id) PROVE Prompted'
  BY <1>17 DEF SendCreate, ShowInv, Prompted
<1>18. CASE SubmitReadLatch \/ SubmitReadUsb \/ SendDrop
  BY <1>18 DEF SubmitReadLatch, SubmitReadUsb, SendDrop, EngineUnavailable,
         PlanFree, ShowInv, Prompted
<1>19. CASE SubmitClaim
  BY <1>19, LockSucceeds DEF SubmitClaim, Claimable, ShowInv, Prompted
<1>20. CASE SubmitSend
  BY <1>20, LockSucceeds DEF SubmitSend, ShowInv, Prompted
<1>21. CASE UndoRelease
  BY <1>21 DEF UndoRelease, ReleaseAll, ShowInv, Prompted
<1>22. CASE UndoPublish
  BY <1>22, LockSucceeds DEF UndoPublish, PublishStatus, ShowInv, Prompted
<1>23. CASE UndoReset
  BY <1>23, LockSucceeds DEF UndoReset, ResetTerminalFlags, ShowInv, Prompted
<1>24. CASE UndoLatch
  BY <1>24 DEF UndoLatch, ShowInv, Prompted
<1>25. CASE HttpCancelStart \/ HttpCancelStatus \/ HttpCancelLatch \/
            HttpGetStart \/ HttpGetLock \/ HttpReply
  BY <1>25, LockSucceeds DEF HttpCancelStart, HttpCancelStatus,
         HttpCancelLatch, HttpGetStart, HttpGetLock, HttpReply,
         EngineUnavailable, ShowInv, Prompted
<1>26. CASE HttpCancelLock \/ ConsoleCancel
  BY <1>26, LockSucceeds DEF HttpCancelLock, ConsoleCancel, CancelSection,
         ShowInv, Prompted
<1>27. ASSUME NEW cmd \in {"cancel", "confirm"}, ConsoleStart(cmd)
      PROVE  Prompted'
  BY <1>27 DEF ConsoleStart, ShowInv, Prompted
<1>28. CASE ConsoleConfirm
  BY <1>28, LockSucceeds DEF ConsoleConfirm, CanConfirm, Inv, ClaimInv,
         OwnerIsKnown, WorkerClaims, Display, Ending, ConfirmPcs, ActionPcs,
         ShowInv, Prompted
<1>29. CASE UsbReady
  BY <1>29 DEF UsbReady, ShowInv, Prompted
<1>30. CASE UsbLost
  BY <1>30 DEF UsbLost, ShowInv, Prompted
<1>31. CASE UNCHANGED vars
  BY <1>31 DEF ShowInv, Prompted
<1> QED
  BY <1>1, <1>2, <1>3, <1>4, <1>5, <1>6, <1>7, <1>8, <1>9, <1>10, <1>11, <1>12,
     <1>13, <1>14, <1>15, <1>16, <1>17, <1>18, <1>19, <1>20, <1>21, <1>22,
     <1>23, <1>24, <1>25, <1>26, <1>27, <1>28, <1>29, <1>30, <1>31 DEF Next, Worker,
     Submit, HttpCall

-----------------------------------------------------------------------------
(* Every step of the executor is one of the service *)

\* Nothing a client can tell apart has changed.
Unseen == /\ UNCHANGED <<status, outcome, accepted, confirmed, typed>>
          /\ \A id \in accepted : needs'[id] = needs[id]

\* Such a step changes nothing the service is told.
LEMMA UnseenMaps == Unseen => UNCHANGED <<[id \in Ids |-> Phase(id)],
                                         {id \in accepted : needs[id]}>>
  BY DEF Unseen, Phase

\* A step that a client cannot see, but for the key that may come up.
LEMMA UnseenStep ==
  Unseen /\ held' \in {held, FALSE} => [Service!Next]_(Service!vars)
<1> SUFFICES ASSUME Unseen, held' \in {held, FALSE}
             PROVE  [Service!Next]_(Service!vars)
  OBVIOUS
<1>1. CASE held' = held
  BY <1>1, UnseenMaps DEF Unseen, Service!vars
<1>2. CASE held' = FALSE
  BY <1>2, UnseenMaps DEF Unseen, Service!Next, Service!Release
<1> QED BY <1>1, <1>2

\* The phase of one send changes, the sends that need confirmation stay.
PhaseBecomes(x, p) ==
    /\ \A id \in Ids : Phase(id)' = IF id = x THEN p ELSE Phase(id)
    /\ UNCHANGED <<accepted, needs, confirmed, typed, held>>

\* The mapped variables follow.
LEMMA PhaseMaps ==
  ASSUME NEW x \in Ids, NEW p, PhaseBecomes(x, p)
  PROVE  /\ [id \in Ids |-> Phase(id)]'
              = [[id \in Ids |-> Phase(id)] EXCEPT ![x] = p]
         /\ UNCHANGED {id \in accepted : needs[id]}
  BY DEF PhaseBecomes

\* The send at work, before its outcome is published.
LEMMA AtWork ==
  ASSUME Inv, ShowInv, wpc \notin {"receive", "latch", "finish_reset"}
  PROVE  /\ wid \in Ids /\ wid \in accepted /\ outcome[wid] = "none"
         /\ Phase(wid) = IF status.state \in {"awaiting", "running"}
                           THEN status.state ELSE "accepted"
  BY DEF Inv, Base, TypeOK, TypeWorker, FreshInv, WorkedOn, ShowInv, Known,
     Display, Phase

\* Only SendCreate draws a need for confirmation, and for a new send.
LEMMA CreateUnseen ==
  ASSUME Inv, ShowInv, NEW id \in Ids, SendCreate(id)
  PROVE  Unseen /\ held' = held
<1>1. id \notin accepted /\ accepted \subseteq Ids /\ needs \in [Ids -> BOOLEAN]
  BY DEF SendCreate, ShowInv, Known, Inv, Base, TypeOK, TypeHistory,
     TypeShared
<1> QED BY <1>1 DEF SendCreate, Unseen

\* The first publication: Await or Run.
LEMMA FirstMaps ==
  ASSUME Faultless, Inv, ShowInv, WorkerPublishFirst
  PROVE  Service!Next
<1> DEFINE st == IF needs[wid] THEN "awaiting" ELSE "running"
<1>1. /\ wid \in Ids /\ wid \in accepted /\ outcome[wid] = "none"
      /\ Phase(wid) = "accepted"
      /\ status.state \notin {"awaiting", "running"}
  BY AtWork DEF WorkerPublishFirst, ShowInv, Display, ConfirmPcs, ActionPcs,
     Ending
<1>2. /\ status' = [state |-> st, id |-> wid, release_error |-> wrel]
      /\ UNCHANGED <<outcome, accepted, needs, confirmed, typed, held>>
  BY LockSucceeds DEF WorkerPublishFirst, PublishStatus, Showing
<1>3. PhaseBecomes(wid, st)
  BY <1>1, <1>2 DEF PhaseBecomes, Phase
<1>4. CASE needs[wid]
  BY <1>1, <1>3, <1>4, PhaseMaps DEF PhaseBecomes, Service!Next, Service!Await
<1>5. CASE ~needs[wid]
  BY <1>1, <1>3, <1>5, PhaseMaps DEF PhaseBecomes, Service!Next, Service!Run
<1> QED BY <1>4, <1>5

\* RUNNING after the confirmation: Run.
LEMMA RunningMaps ==
  ASSUME Faultless, Inv, ShowInv, WorkerPublishRunning
  PROVE  Service!Next
<1>1. /\ wid \in Ids /\ outcome[wid] = "none" /\ Phase(wid) = "awaiting"
      /\ status.id = wid /\ wid \in confirmed
  BY AtWork DEF WorkerPublishRunning, ShowInv, Display, Prompted, ConfirmPcs
<1>2. /\ status' = [state |-> "running", id |-> wid, release_error |-> wrel]
      /\ UNCHANGED <<outcome, accepted, needs, confirmed, typed, held>>
  BY LockSucceeds DEF WorkerPublishRunning, PublishStatus, Showing
<1>3. PhaseBecomes(wid, "running")
  BY <1>1, <1>2 DEF PhaseBecomes, Phase
<1> QED
  BY <1>1, <1>3, PhaseMaps DEF PhaseBecomes, Service!Next, Service!Run

\* The index: the same status again.
LEMMA IndexMaps ==
  ASSUME Faultless, Inv, ShowInv, WorkerPublishIndex
  PROVE  [Service!Next]_(Service!vars)
<1>1. CASE UNCHANGED status
  BY <1>1, UnseenStep DEF WorkerPublishIndex, Unseen
<1>2. CASE status' = Showing("running")
  <2>1. /\ wid \in Ids /\ outcome[wid] = "none" /\ Phase(wid) = "running"
        /\ status.id = wid
    BY AtWork DEF WorkerPublishIndex, ShowInv, Display, ActionPcs
  <2>2. UNCHANGED <<outcome, accepted, needs, confirmed, typed, held>>
    BY DEF WorkerPublishIndex
  <2>3. PhaseBecomes(wid, "running")
    BY <1>2, <2>1, <2>2 DEF PhaseBecomes, Phase, Showing
  <2>4. UNCHANGED [id \in Ids |-> Phase(id)]
    BY <2>1, <2>3 DEF PhaseBecomes
  <2> QED BY <2>2, <2>4 DEF Service!vars
<1> QED
  BY <1>1, <1>2, LockSucceeds DEF WorkerPublishIndex, PublishStatus

\* A key goes down: Press.
LEMMA PressMaps ==
  ASSUME Faultless, Inv, ShowInv, WorkerPress
  PROVE  [Service!Next]_(Service!vars)
<1>1. CASE UNCHANGED <<typed, held>>
  BY <1>1, UnseenStep DEF WorkerPress, Unseen
<1>2. CASE typed' = [typed EXCEPT ![wid] = @ + 1] /\ held' = TRUE
  <2>1. wid \in Ids /\ Phase(wid) = "running"
    BY AtWork DEF WorkerPress, ShowInv, Display, ActionPcs
  <2>2. typed[wid] < KeyCount(wid)
    <3>1. /\ typed[wid] = KeysBefore(wid, widx) /\ widx \in Nat \ {0}
          /\ widx \in DOMAIN PlanOf[wid] /\ PlanOf[wid][widx] = "key"
      BY DEF WorkerPress, Inv, Progress, Typing, Acting, Base, TypeOK,
         TypeWorker
    <3>2. /\ KeysBefore(wid, widx + 1) = KeysBefore(wid, widx) + 1
          /\ KeysBefore(wid, widx + 1) <= KeyCount(wid)
          /\ KeyCount(wid) \in Nat /\ KeysBefore(wid, widx) \in Nat
      BY <2>1, <3>1, KeysCounted
    <3> QED BY <3>1, <3>2
  <2>3. UNCHANGED <<[id \in Ids |-> Phase(id)], confirmed,
                    {id \in accepted : needs[id]}>>
    BY DEF WorkerPress, Phase
  <2> QED BY <1>2, <2>1, <2>2, <2>3 DEF Service!Next, Service!Press
<1> QED
  BY <1>1, <1>2 DEF WorkerPress

\* The terminal status: Finish.
LEMMA FinishMaps ==
  ASSUME Faultless, Inv, ShowInv, WorkerFinishPublish
  PROVE  Service!Next
<1> DEFINE final == Terminal(wres)
<1>1. /\ wid \in Ids /\ outcome[wid] = "none" /\ status.id = wid
      /\ Phase(wid) \in {"awaiting", "running"}
      /\ wres = "none" => Phase(wid) = "running"
  BY AtWork DEF WorkerFinishPublish, ShowInv, Display, Ending
<1>2. /\ final \in {"completed", "cancelled", "failed", "timed_out"}
      /\ final = "completed" => wres = "none"
  BY DEF Terminal
<1>3. /\ status' = [state |-> final, id |-> wid, release_error |-> wrel]
      /\ outcome' = [outcome EXCEPT ![wid] = final]
      /\ UNCHANGED <<accepted, needs, confirmed, typed, held>>
  BY LockSucceeds DEF WorkerFinishPublish, PublishStatus
<1>4. wres = "none" => typed[wid] = KeyCount(wid)
  BY DEF WorkerFinishPublish, Inv, Progress, Typing, FinishPcs
<1>5. PhaseBecomes(wid, final)
  <2>1. outcome \in [Ids -> {"none"} \cup Terminals]
    BY DEF Inv, Base, TypeOK, TypeHistory
  <2> HIDE DEF final
  <2> QED BY <1>1, <1>2, <1>3, <2>1 DEF PhaseBecomes, Phase
<1> HIDE DEF final
<1>6. Service!Finish(wid, final)
  BY <1>1, <1>2, <1>4, <1>5, PhaseMaps DEF PhaseBecomes, Service!Finish
<1> QED BY <1>1, <1>2, <1>6 DEF Service!Next, Service!Final

\* The 202: Accept, because nobody else has the engine.
LEMMA AcceptMaps ==
  ASSUME Faultless, Inv, ShowInv, SubmitSend
  PROVE  Service!Next
<1>1. /\ hid \in Ids /\ accepted' = accepted \cup {hid}
      /\ UNCHANGED <<status, outcome, needs, confirmed, typed, held>>
  BY DEF SubmitSend, SubmitPcs, Faultless, Inv, Base, TypeOK, TypeHttpd,
     TypeEngine
<1>2. ~WorkerClaims /\ queue = <<>> /\ wpc # "latch"
  BY DEF SubmitSend, Inv, Base, OneSendAtATime, HttpdClaims, QueueClaims,
     ShowInv, NothingFails
<1>3. status.state \notin {"awaiting", "running"}
  BY <1>2 DEF ShowInv, Display, WorkerClaims, ConfirmPcs, ActionPcs, Ending
<1>4. hid \notin accepted /\ outcome[hid] = "none"
  BY <1>1 DEF SubmitSend, ShowInv, Known, HttpdOwns, SubmitPcs
<1>5. \A id \in Ids : Phase(id) \notin {"accepted", "awaiting", "running"}
  <2>1. \A id \in Ids : ~QueueOwns(id)
    BY <1>2, QueueHolds DEF Inv, Base
  <2>2. \A id \in accepted \cap Ids : outcome[id] # "none"
    BY <1>2, <2>1 DEF ShowInv, Known
  <2>3. \A id \in Ids : outcome[id] \in {"none"} \cup Terminals
    BY DEF Inv, Base, TypeOK, TypeHistory
  <2> QED BY <1>3, <2>2, <2>3 DEF Phase, Terminals
<1>6. Phase(hid) = "new"
  BY <1>3, <1>4 DEF Phase
<1>7. [id \in Ids |-> Phase(id)]'
        = [[id \in Ids |-> Phase(id)] EXCEPT ![hid] = "accepted"]
  <2>1. \A id \in Ids : Phase(id)' = IF id = hid THEN "accepted" ELSE Phase(id)
    BY <1>1, <1>3, <1>4 DEF Phase
  <2> QED BY <1>1, <2>1
<1>8. {id \in accepted : needs[id]}' \in
        {{id \in accepted : needs[id]},
         {id \in accepted : needs[id]} \cup {hid}}
  BY <1>1
<1> QED
  BY <1>1, <1>5, <1>6, <1>7, <1>8 DEF Service!Next, Service!Accept,
     Service!Active

\* The console's confirmation: Confirm, if there is a prompt.
LEMMA ConfirmMaps ==
  ASSUME Faultless, Inv, ShowInv, ConsoleConfirm
  PROVE  [Service!Next]_(Service!vars)
<1>1. CASE UNCHANGED confirmed
  BY <1>1, UnseenStep DEF ConsoleConfirm, Unseen
<1>2. CASE CanConfirm /\ confirmed' = confirmed \cup {status.id}
  <2>1. status.id = wid /\ wid \in Ids /\ Phase(wid) = "awaiting"
    BY <1>2, AtWork DEF CanConfirm, ShowInv, Display, ConfirmPcs, ActionPcs,
       Ending
  <2>2. UNCHANGED <<[id \in Ids |-> Phase(id)], typed, held,
                    {id \in accepted : needs[id]}>>
    BY DEF ConsoleConfirm, Phase
  <2> QED BY <1>2, <2>1, <2>2 DEF Service!Next, Service!Confirm
<1> QED
  BY <1>1, <1>2 DEF ConsoleConfirm

\* Every step of every task is a step of the service or invisible to it.
LEMMA ServiceStep ==
  Faultless /\ Inv /\ ShowInv /\ [Next]_vars => [Service!Next]_(Service!vars)
<1> SUFFICES ASSUME Faultless, Inv, ShowInv, [Next]_vars
             PROVE  [Service!Next]_(Service!vars)
  OBVIOUS
<1>1. CASE WorkerReceive
  BY <1>1, UnseenStep DEF WorkerReceive, Unseen
<1>2. CASE WorkerPublishFirst
  BY <1>2, FirstMaps
<1>3. CASE WorkerAwaitCancel \/ WorkerAwaitConfirm
  BY <1>3, UnseenStep DEF WorkerAwaitCancel, WorkerAwaitConfirm, Unseen
<1>4. CASE WorkerPublishRunning
  BY <1>4, RunningMaps
<1>5. CASE WorkerPublishIndex
  BY <1>5, IndexMaps
<1>6. CASE WorkerCheck
  BY <1>6, UnseenStep DEF WorkerCheck, Unseen
<1>7. CASE WorkerPress
  BY <1>7, PressMaps
<1>8. CASE WorkerSlice
  BY <1>8, UnseenStep DEF WorkerSlice, DelayReturn, Unseen
<1>9. CASE WorkerRelease
  BY <1>9, UnseenStep DEF WorkerRelease, ReleaseAll, Unseen
<1>10. CASE WorkerFree \/ WorkerFinishRelease
  BY <1>10, UnseenStep DEF WorkerFree, WorkerFinishRelease, ReleaseAll, Unseen
<1>11. CASE WorkerFinishPublish
  BY <1>11, FinishMaps
<1>12. CASE WorkerFinishReset
  BY <1>12, UnseenStep DEF WorkerFinishReset, WorkerReturn, Unseen
<1>13. CASE WorkerLatch
  BY <1>13, UnseenStep DEF WorkerLatch, WorkerReturn, Unseen
<1>14. CASE DeadlinePasses \/ UsbReady \/ UsbLost \/ UNCHANGED vars
  BY <1>14, UnseenStep DEF DeadlinePasses, UsbReady, UsbLost, Unseen
<1>15. ASSUME NEW id \in Ids, SendCreate(id) PROVE [Service!Next]_(Service!vars)
  BY <1>15, CreateUnseen, UnseenStep
<1>16. CASE SubmitReadLatch \/ SubmitReadUsb \/ SendDrop
  BY <1>16, UnseenStep DEF SubmitReadLatch, SubmitReadUsb, SendDrop, Unseen
<1>17. CASE SubmitClaim
  BY <1>17, UnseenStep DEF SubmitClaim, Unseen
<1>18. CASE SubmitSend
  BY <1>18, AcceptMaps
<1>19. CASE UndoRelease
  BY <1>19 DEF UndoRelease, ShowInv, NothingFails
<1>20. CASE UndoPublish
  BY <1>20 DEF UndoPublish, ShowInv, NothingFails
<1>21. CASE UndoReset
  BY <1>21 DEF UndoReset, ShowInv, NothingFails
<1>22. CASE UndoLatch
  BY <1>22 DEF UndoLatch, ShowInv, NothingFails
<1>23. CASE HttpCancelStart \/ HttpCancelStatus \/ HttpCancelLatch \/
            HttpGetStart \/ HttpGetLock \/ HttpReply
  BY <1>23, UnseenStep DEF HttpCancelStart, HttpCancelStatus, HttpCancelLatch,
         HttpGetStart, HttpGetLock, HttpReply, Unseen
<1>24. CASE HttpCancelLock \/ ConsoleCancel
  BY <1>24, UnseenStep DEF HttpCancelLock, ConsoleCancel, CancelSection, Unseen
<1>25. ASSUME NEW cmd \in {"cancel", "confirm"}, ConsoleStart(cmd)
      PROVE  [Service!Next]_(Service!vars)
  BY <1>25, UnseenStep DEF ConsoleStart, Unseen
<1>26. CASE ConsoleConfirm
  BY <1>26, ConfirmMaps
<1> QED
  BY <1>1, <1>2, <1>3, <1>4, <1>5, <1>6, <1>7, <1>8, <1>9, <1>10, <1>11, <1>12,
     <1>13, <1>14, <1>15, <1>16, <1>17, <1>18, <1>19, <1>20, <1>21, <1>22,
     <1>23, <1>24, <1>25, <1>26 DEF Next, Worker,
     Submit, HttpCall

\* The executor starts idle, with nothing known.
LEMMA ShowInit == Init => ShowInv
<1> SUFFICES ASSUME Init PROVE ShowInv
  OBVIOUS
<1>1. /\ wpc = "receive" /\ hpc = "idle" /\ queue = <<>> /\ accepted = {}
      /\ confirmReq = FALSE /\ status.state = "idle"
      /\ outcome = [id \in Ids |-> "none"]
  BY DEF Init
<1> QED
  BY <1>1 DEF ShowInv, NothingFails, Display, Known, Prompted, QueueOwns,
     ConfirmPcs, ActionPcs, Ending

\* ... and so does the service.
LEMMA ServiceInit == Init => Service!Init
<1> SUFFICES ASSUME Init PROVE Service!Init
  OBVIOUS
<1>1. \A id \in Ids : Phase(id) = "new"
  BY DEF Init, Phase
<1>2. /\ accepted = {} /\ confirmed = {} /\ held = FALSE
      /\ typed = [id \in Ids |-> 0]
  BY DEF Init
<1> QED BY <1>1, <1>2 DEF Service!Init

\* The worker, the HTTP task and the console implement the send API: one
\* active send, no key without its confirmation, COMPLETED only when all keys
\* went down, terminal states that stay.
THEOREM Implements == Faultless => (Spec => ImplementsService)
<1> SUFFICES ASSUME Faultless PROVE Spec => ImplementsService
  OBVIOUS
<1>1. Init => ShowInv /\ Service!Init
  BY ShowInit, ServiceInit
<1>2. Inv /\ ShowInv /\ [Next]_vars => ShowInv'
  BY NothingFailsStep, DisplayStep, KnownStep, PromptedStep DEF ShowInv
<1>3. Inv /\ ShowInv /\ [Next]_vars => [Service!Next]_(Service!vars)
  BY ServiceStep
<1> QED
  BY <1>1, <1>2, <1>3, SafetyInvariant, PTL DEF Spec, ImplementsService,
     Service!Spec

=============================================================================
